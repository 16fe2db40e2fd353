------------------------------- MODULE Payouts -------------------------------
(***************************************************************************)
(* What one operator (tenant) has earned and draws out: payout requests,   *)
(* which claim finished sessions, and offline top-ups, which hand the same *)
(* earnings to a driver as wallet credit; both are reduced by the refunds  *)
(* of approved disputes.                                                   *)
(*                                                                         *)
(* Earnings are settled by ownership (settled_payout_id), refunds and      *)
(* top-ups by time: a payout covers those stamped in its half-open window, *)
(* which starts where the last one that was not cancelled ended.  Payout   *)
(* requests, dispute resolutions and top-ups lock the tenant row first;    *)
(* cancel and mark_paid lock the payout row only.  A transaction that      *)
(* nothing can interleave with is one action.                              *)
(***************************************************************************)
EXTENDS Integers, Sequences, FiniteSetsExt

CONSTANTS
    Sessions,     \* the tenant's charging sessions
    Cost,         \* coins_spent of each session once finished
    Topups,       \* offline top-up requests
    Amount,       \* amount_coins of each top-up request
    RefundCoins,  \* refund_coins an operator may grant
    FeePct,       \* PLATFORM_FEE_PCT
    MaxPayouts,   \* bound: payout rows
    MaxClock      \* bound: readings of the clock

ASSUME PayoutsAssumption ==
    /\ IsFiniteSet(Sessions) /\ Cost \in [Sessions -> Nat]
    /\ IsFiniteSet(Topups) /\ Amount \in [Topups -> Nat \ {0}]
    /\ RefundCoins \subseteq Nat \ {0} /\ FeePct \in 0 .. 100
    /\ MaxPayouts \in Nat /\ MaxClock \in Nat

VARIABLES
    clock,     \* the time, advanced by every reading
    finished,  \* sessions that are COMPLETED
    settled,   \* settled_payout_id of each session, 0 for NULL
    open,      \* sessions with an OPEN dispute
    refunds,   \* APPROVED disputes: session, refund_coins, resolved_at
    payouts,   \* payouts rows, by id
    topup      \* each top-up request: its step, created_at, its two reads of
               \* the watermark, and whether the first was stale when it was used

vars == <<clock, finished, settled, open, refunds, payouts, topup>>

Status == {"REQUESTED", "PAID", "CANCELLED"}
Payout == [status : Status, start : Nat, end : Nat, net : Nat]
Refund == [session : Sessions, coins : Nat, at : Nat]
TopupState == [at : {"new", "begun", "locked", "read", "issued", "refused"},
               created : Nat, w1 : Nat, w2 : Nat, stale : BOOLEAN]

Ids == DOMAIN payouts
Live(i) == payouts[i].status # "CANCELLED"

Tick == clock' = clock + 1 /\ clock < MaxClock
-----------------------------------------------------------------------------
(* Derived figures *)

\* Mutant: cancelled payouts keep their windows.
WatermarkOfAll == Max({payouts[i].end : i \in Ids} \cup {0})

\* tenant_settlement_watermark: 0 is the epoch.
Watermark == Max({payouts[i].end : i \in {j \in Ids : Live(j)}} \cup {0})

\* Half-open [start, end).
Within(t, start, end) == start <= t /\ t < end

\* SUM(refund_coins) over some of the approved disputes.
Coins(disputes) == SumFunction([r \in disputes |-> r.coins])

\* sum_approved_refund_coins
RefundsIn(start, end) == Coins({r \in refunds : Within(r.at, start, end)})

\* The top-ups that were issued and are stamped in a window.
IssuedIn(start, end) ==
    {t \in Topups : topup[t].at = "issued" /\ Within(topup[t].created, start, end)}

\* sum_offline_topups
TopupsIn(start, end) == SumFunctionOnSet(Amount, IssuedIn(start, end))

Unsettled == {s \in finished : settled[s] = 0}

SumCost(S) == SumFunctionOnSet(Cost, S)

AtLeastZero(n) == IF n < 0 THEN 0 ELSE n

\* compute_fee_and_net: the fee is rounded half up to the smallest coin unit.
Net(gross) == gross - (gross * FeePct + 50) \div 100

\* tenant_earnings_summary, the pool, with the two watermarks it reads.
AvailablePool(w1, w2) ==
    AtLeastZero(Net(AtLeastZero(SumCost(Unsettled) - RefundsIn(w2, clock)))
                - TopupsIn(w1, clock))

\* Mutant: the watermark is read again after the payout row is flushed, which
\* leaves an empty refund window.
PayableAfterFlush ==
    AtLeastZero(Net(AtLeastZero(SumCost(Unsettled) - RefundsIn(clock, clock)))
                - TopupsIn(Watermark, clock))

\* What a payout request would pay now.
Payable ==
    AtLeastZero(Net(AtLeastZero(SumCost(Unsettled) - RefundsIn(Watermark, clock)))
                - TopupsIn(Watermark, clock))
-----------------------------------------------------------------------------
Init ==
    /\ clock = 1
    /\ finished = {} /\ settled = [s \in Sessions |-> 0]
    /\ open = {} /\ refunds = {}
    /\ payouts = <<>>
    /\ topup = [t \in Topups |->
                   [at |-> "new", created |-> 0, w1 |-> 0, w2 |-> 0, stale |-> FALSE]]

HoldsTenant(t) == topup[t].at \in {"locked", "read"}

\* SELECT tenants ... FOR UPDATE of a transaction that is one action.
LockTenant == \A t \in Topups : ~HoldsTenant(t)
-----------------------------------------------------------------------------
(* Sessions and disputes *)

\* The commit of finalize_charging_session; it takes no tenant lock.
Finish(s) ==
    /\ s \notin finished
    /\ finished' = finished \cup {s}
    /\ UNCHANGED <<clock, settled, open, refunds, payouts, topup>>

\* dispute_session: at most one OPEN dispute per session, by a unique index.
FileDispute(s) ==
    /\ s \in finished \ open
    /\ open' = open \cup {s}
    /\ UNCHANGED <<clock, finished, settled, refunds, payouts, topup>>

RefundedOf(s) == Coins({r \in refunds : r.session = s})

\* Mutant: each refund is compared with the cost on its own.
ApproveEachWithinCost(s, c) ==
    /\ LockTenant /\ s \in open
    /\ c <= Cost[s]
    /\ Tick
    /\ open' = open \ {s}
    /\ refunds' = refunds \cup {[session |-> s, coins |-> c, at |-> clock]}
    /\ UNCHANGED <<finished, settled, payouts, topup>>

\* cpo_resolve_dispute, approve: stamped after the tenant lock; the session's
\* refunds may not exceed its cost.
ApproveDispute(s, c) ==
    /\ LockTenant /\ s \in open
    /\ RefundedOf(s) + c <= Cost[s]
    /\ Tick
    /\ open' = open \ {s}
    /\ refunds' = refunds \cup {[session |-> s, coins |-> c, at |-> clock]}
    /\ UNCHANGED <<finished, settled, payouts, topup>>

RejectDispute(s) ==
    /\ LockTenant /\ s \in open
    /\ open' = open \ {s}
    /\ UNCHANGED <<clock, finished, settled, refunds, payouts, topup>>
-----------------------------------------------------------------------------
(* Payouts *)

NewPayout == [status |-> "REQUESTED", start |-> Watermark, end |-> clock, net |-> Payable]

\* Mutants: a payout may be requested while one is pending; what is left to pay
\* is neither clamped nor checked.
RequestPayoutAnyway ==
    /\ LockTenant
    /\ Len(payouts) < MaxPayouts
    /\ Payable > 0
    /\ Tick
    /\ settled' = [s \in Sessions |-> IF s \in Unsettled THEN Len(payouts) + 1 ELSE settled[s]]
    /\ payouts' = Append(payouts, NewPayout)
    /\ UNCHANGED <<finished, open, refunds, topup>>
RequestPayoutUnchecked ==
    /\ LockTenant
    /\ \A i \in Ids : payouts[i].status # "REQUESTED"
    /\ Len(payouts) < MaxPayouts
    /\ Tick
    /\ settled' = [s \in Sessions |-> IF s \in Unsettled THEN Len(payouts) + 1 ELSE settled[s]]
    /\ payouts' = Append(payouts, [NewPayout EXCEPT !.net =
                       Net(AtLeastZero(SumCost(Unsettled) - RefundsIn(Watermark, clock)))
                       - TopupsIn(Watermark, clock)])
    /\ UNCHANGED <<finished, open, refunds, topup>>

\* cpo_request_payout: one pending payout at a time; the unsettled sessions are
\* claimed, and a request with nothing to pay rolls everything back.
RequestPayout ==
    /\ LockTenant
    /\ \A i \in Ids : payouts[i].status # "REQUESTED"
    /\ Len(payouts) < MaxPayouts
    /\ Payable > 0
    /\ Tick
    /\ settled' = [s \in Sessions |-> IF s \in Unsettled THEN Len(payouts) + 1 ELSE settled[s]]
    /\ payouts' = Append(payouts, NewPayout)
    /\ UNCHANGED <<finished, open, refunds, topup>>

\* cpo_mark_payout_paid
MarkPaid(i) ==
    /\ payouts[i].status = "REQUESTED"
    /\ payouts' = [payouts EXCEPT ![i].status = "PAID"]
    /\ UNCHANGED <<clock, finished, settled, open, refunds, topup>>

\* Mutant: the sessions stay claimed.
CancelKeepingClaims(i) ==
    /\ payouts[i].status = "REQUESTED"
    /\ payouts' = [payouts EXCEPT ![i].status = "CANCELLED"]
    /\ UNCHANGED <<clock, finished, settled, open, refunds, topup>>

\* cpo_cancel_payout: its sessions are unsettled again.  It locks the payout
\* row, not the tenant, so a top-up may be between two of its reads.
CancelPayout(i) ==
    /\ payouts[i].status = "REQUESTED"
    /\ settled' = [s \in Sessions |-> IF settled[s] = i THEN 0 ELSE settled[s]]
    /\ payouts' = [payouts EXCEPT ![i].status = "CANCELLED"]
    /\ UNCHANGED <<clock, finished, open, refunds, topup>>
-----------------------------------------------------------------------------
(* Offline top-ups *)

\* The request's transaction begins with the query that loads the operator;
\* CURRENT_TIMESTAMP, the default of created_at, is the time it began.
TopupBegin(t) ==
    /\ topup[t].at = "new" /\ Tick
    /\ topup' = [topup EXCEPT ![t] = [@ EXCEPT !.at = "begun", !.created = clock]]
    /\ UNCHANGED <<finished, settled, open, refunds, payouts>>

\* cpo_create_topup locks the tenant; tenant_earnings_summary reads the
\* watermark for its top-up window.
TopupLock(t) ==
    /\ topup[t].at = "begun" /\ \A o \in Topups : ~HoldsTenant(o)
    /\ topup' = [topup EXCEPT ![t] = [@ EXCEPT !.at = "locked", !.w1 = Watermark]]
    /\ UNCHANGED <<clock, finished, settled, open, refunds, payouts>>

\* sum_unsettled_session_coins reads it once more for the refund window.
TopupReread(t) ==
    /\ topup[t].at = "locked"
    /\ topup' = [topup EXCEPT ![t] = [@ EXCEPT !.at = "read", !.w2 = Watermark]]
    /\ UNCHANGED <<clock, finished, settled, open, refunds, payouts>>

\* Mutant: the pool is not consulted.
TopupIssueUncapped(t) ==
    /\ topup[t].at = "read"
    /\ topup' = [topup EXCEPT ![t].at = "issued", ![t].stale = topup[t].w1 # Watermark]
    /\ UNCHANGED <<clock, finished, settled, open, refunds, payouts>>

\* The sums, the 409 when they do not cover the amount, the credit, the commit.
\* stale is bookkeeping of the model: a cancellation has moved the watermark
\* since the request read it.
TopupIssue(t) ==
    /\ topup[t].at = "read"
    /\ topup' = [topup EXCEPT ![t].at =
                     IF Amount[t] <= AvailablePool(topup[t].w1, topup[t].w2)
                     THEN "issued" ELSE "refused",
                 ![t].stale = topup[t].w1 # Watermark]
    /\ UNCHANGED <<clock, finished, settled, open, refunds, payouts>>

Next ==
    \/ \E s \in Sessions : Finish(s) \/ FileDispute(s) \/ RejectDispute(s)
    \/ \E s \in Sessions, c \in RefundCoins : ApproveDispute(s, c)
    \/ RequestPayout
    \/ \E i \in Ids : MarkPaid(i) \/ CancelPayout(i)
    \/ \E t \in Topups : TopupBegin(t) \/ TopupLock(t) \/ TopupReread(t) \/ TopupIssue(t)

Spec == Init /\ [][Next]_vars
-----------------------------------------------------------------------------
TypeOK ==
    /\ clock \in Nat
    /\ finished \subseteq Sessions /\ settled \in [Sessions -> Nat]
    /\ open \subseteq Sessions
    /\ refunds \subseteq Refund
    /\ payouts \in Seq(Payout)
    /\ topup \in [Topups -> TopupState]

\* A session is claimed by a payout that exists and was not cancelled, so
\* cancelling strands no earnings and nothing is claimed twice.
ClaimsAreLive ==
    \A s \in Sessions :
        settled[s] # 0 => settled[s] \in Ids /\ Live(settled[s]) /\ s \in finished

\* At most one payout is pending, and it is the newest of the live ones: the
\* REQUESTED check is made under the tenant lock.
OnePending ==
    \A i, j \in Ids : i < j /\ payouts[i].status = "REQUESTED" => ~Live(j)

\* The windows of the live payouts are disjoint and contiguous: each starts
\* where the live one before it ends, the first at the epoch.
WindowsTile ==
    \A i \in Ids : Live(i) =>
        /\ payouts[i].start < payouts[i].end /\ payouts[i].end < clock
        /\ payouts[i].start =
             Max({payouts[j].end : j \in {k \in 1 .. i - 1 : Live(k)}} \cup {0})

\* Requests, cancellations and payments of payouts keep the books of a tenant
\* whole, however they overlap: claims, the pending payout and the windows.
PayoutsConsistent == ClaimsAreLive /\ OnePending /\ WindowsTile

\* A top-up that waited for the tenant lock behind a payout is stamped inside
\* the window of that payout, which did not see it.
Behind(t, time) == topup[t].w1 >= time

\* The sessions a payout owns.
ClaimedBy(i) == {s \in Sessions : settled[s] = i}

\* A live payout pays, to the coin, the sessions it owns less the refunds and
\* top-ups of its window, whatever is committed after it: nothing slips into a
\* window that is closed but a top-up that waited behind the payout, and no
\* clamp forgave a refund ("carry-forward").
PayoutsFoot ==
    \A i \in Ids : Live(i) =>
        LET p == payouts[i] IN
        /\ p.net > 0
        /\ p.net = Net(SumCost(ClaimedBy(i)) - RefundsIn(p.start, p.end))
                   - SumFunctionOnSet(Amount, {t \in IssuedIn(p.start, p.end) : ~Behind(t, p.end)})

\* "A CPO can never draw the same earnings out twice: once as a cash top-up,
\* once as a bank/UPI payout" (services/payouts.py): the coins drawn so far, at
\* the bank and as wallet credit, are covered by finished sessions.
DrawnWithinEarnings ==
    SumFunction([i \in {j \in Ids : Live(j)} |-> payouts[i].net]) + TopupsIn(0, clock)
        <= SumCost(finished)

\* A top-up that was stamped before the window it was issued in, or whose first
\* watermark was gone when it was issued: a cancellation does not wait for the
\* tenant lock.
Misplaced(t) == Behind(t, topup[t].created + 1) \/ topup[t].stale

\* Only such a top-up lets the same earnings be drawn out twice.
NeverDrawnTwice ==
    (\A t \in IssuedIn(0, clock) : ~Misplaced(t)) => DrawnWithinEarnings

\* The refunds of a session never exceed what it cost.
RefundsWithinCost == \A s \in Sessions : RefundedOf(s) <= Cost[s]
=============================================================================
