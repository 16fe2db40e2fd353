-------------------------- MODULE ChargingSessions --------------------------
(***************************************************************************)
(* The life of a charging session: claim, authorization hold, telemetry,   *)
(* automatic stops, settlement against the wallet, and the plug row that   *)
(* the claim and the settlement write.                                     *)
(*                                                                         *)
(* An action is one database transaction, or one step of a handler between *)
(* two of its commits.  Where the code holds a row lock from the first     *)
(* read to the commit, the transaction is one action; where it reads       *)
(* without a lock, or goes on after a commit, the handler is split and the *)
(* values it carries over are state (publishing, doomed, cutoff, clearing, *)
(* closing).                                                               *)
(***************************************************************************)
EXTENDS Integers, FiniteSetsExt

CONSTANTS
    Users, Plugs,     \* rows of users and plugs
    Sessions,         \* ids charging_sessions rows will be given
    KwhLimits,        \* the max_kwh values a driver may ask for
    NoLimit,          \* max_kwh IS NULL: charge until stopped
    Amounts,          \* coin amounts of top-ups and claw-backs
    Rate,             \* coins per kWh, the snapshot every session takes
    MinStart,         \* MIN_START_BALANCE_COINS
    MaxActive,        \* MAX_ACTIVE_SESSIONS_PER_USER
    PlugCap,          \* effective_plug_cap of each plug, in amperes
    Circuit,          \* the plugs of the one group that has a max_current_a
    CircuitCap,       \* that group's max_current_a
    MaxCoins,         \* bound: no wallet grows beyond it
    MaxEnergy,        \* bound: no meter reads beyond it, in kWh
    Events            \* which of AllEvents the environment may cause

\* Things that happen to the system rather than in it: the broker refuses or
\* times out an ON publish; an operator writes a plug's status; coins are clawed
\* back; an account is closed; a gateway stops reporting; a session outlives its
\* duration limit; a plug raises a safety cutoff.
AllEvents == {"publish_fails", "operator", "claw_back", "close_account",
              "silence", "deadline", "cutoff_alarm"}

ASSUME ConstantsAssumption ==
    /\ IsFiniteSet(Users) /\ IsFiniteSet(Plugs) /\ IsFiniteSet(Sessions)
    /\ KwhLimits \subseteq Nat /\ NoLimit \notin Nat
    /\ Amounts \subseteq Nat
    /\ Rate \in Nat /\ MinStart \in Nat /\ MaxActive \in Nat
    /\ PlugCap \in [Plugs -> Nat] /\ Circuit \subseteq Plugs /\ CircuitCap \in Nat
    /\ MaxCoins \in Nat /\ MaxEnergy \in Nat
    /\ Events \subseteq AllEvents

VARIABLES
    balance,     \* users.coin_balance
    net,         \* sum of the amounts of the user's ledger_transactions rows
    closing,     \* users whose close_account has passed assert_closable
    closed,      \* users.deleted_at IS NOT NULL
    plugStatus,  \* plugs.status
    clearing,    \* plugs whose maintenance clear has counted no ACTIVE session
    cutoff,      \* the safety-cutoff handler of each plug: "idle", the session it
                 \* is about to finalize, or "maintain"
    sess,        \* charging_sessions rows
    debits,      \* SESSION_DEBIT ledger rows of each session: how many, how much
    publishing,  \* sessions committed ACTIVE whose ON publish is in flight
    silent,      \* sessions whose last telemetry is older than the cutoff
    overdue,     \* sessions that have run past their max_duration_seconds
    doomed       \* sessions a handler has decided to finalize, not yet locked

walletVars == <<balance, net, closing, closed>>
plugVars   == <<plugStatus, clearing, cutoff>>
flightVars == <<publishing, silent, overdue, doomed>>
vars       == <<walletVars, plugVars, sess, debits, flightVars>>

PlugStatus == {"AVAILABLE", "OCCUPIED", "OFFLINE", "MAINTENANCE"}

NoRow      == [status |-> "NONE"]     \* the id has not been given out yet
SessionRow == [status : {"ACTIVE", "COMPLETED", "CANCELLED"},
               user : Users, plug : Plugs, energy : Nat, hold : Nat,
               limit : Nat \cup {NoLimit}, spent : Nat]
-----------------------------------------------------------------------------
(* Derived figures *)

Lesser(a, b)  == IF a <= b THEN a ELSE b
Greater(a, b) == IF a >= b THEN a ELSE b

\* session_cost of a session with a single rate segment.
Cost(energy) == energy * Rate

Active(s)    == sess[s].status = "ACTIVE"
ActiveOf(u)  == {s \in Sessions : Active(s) /\ sess[s].user = u}
ActiveOn(p)  == {s \in Sessions : Active(s) /\ sess[s].plug = p}

\* The sum of the holds of the user's ACTIVE sessions.
Held(u) == SumFunction([s \in ActiveOf(u) |-> sess[s].hold])

\* Mutant: the holds of the other sessions are not netted out.
AvailableIgnoringHolds(u) == balance[u]

AvailableBalance(u) == balance[u] - Held(u)

\* What the sessions running on some plugs may draw together.
LoadOf(plugs) ==
    SumFunction([s \in {r \in Sessions : Active(r) /\ sess[r].plug \in plugs}
                     |-> PlugCap[sess[s].plug]])

\* Committed load of the circuit, without plug p.
CircuitLoad(p) == LoadOf(Circuit \ {p})

\* Mutant: admits on the load before the start.
AdmitsOnPriorLoad(p) == p \in Circuit => CircuitLoad(p) <= CircuitCap

CircuitAdmits(p) == p \in Circuit => CircuitLoad(p) + PlugCap[p] <= CircuitCap

\* The authorization hold a start reserves.
StartHold(available, limit) ==
    IF limit = NoLimit THEN available ELSE Lesser(available, Cost(limit))

\* The hold after a limits update: the start's sizing, floored at what the
\* session already owes.  headroom is the available balance with the session's
\* own hold added back.
\* Mutant: no floor at the accrued cost.
ResizedWithoutFloor(s, limit, headroom) ==
    IF limit = NoLimit THEN sess[s].hold
    ELSE Greater(0, Lesser(headroom, Cost(limit)))

ResizedHold(s, limit, headroom) ==
    IF limit = NoLimit THEN sess[s].hold
    ELSE Greater(Cost(sess[s].energy), Lesser(headroom, Cost(limit)))

\* What a finalize collects: the cost, capped by the hold and by the wallet.
\* Mutants: the hold, or the wallet, does not cap the debit.
CollectedBeyondHold(s) == Lesser(Cost(sess[s].energy), balance[sess[s].user])
CollectedUnclamped(s) == Lesser(Cost(sess[s].energy), sess[s].hold)

Collected(s) ==
    Lesser(Lesser(Cost(sess[s].energy), sess[s].hold), balance[sess[s].user])
-----------------------------------------------------------------------------
Init ==
    /\ balance = [u \in Users |-> 0] /\ net = [u \in Users |-> 0]
    /\ closing = {} /\ closed = {}
    /\ plugStatus = [p \in Plugs |-> "AVAILABLE"]
    /\ clearing = {} /\ cutoff = [p \in Plugs |-> "idle"]
    /\ sess = [s \in Sessions |-> NoRow]
    /\ debits = [s \in Sessions |-> [rows |-> 0, coins |-> 0]]
    /\ publishing = {} /\ silent = {} /\ overdue = {} /\ doomed = {}
-----------------------------------------------------------------------------
(* Wallet writes outside a session *)

\* A credit: a captured top-up, a manual CPO top-up, an approved dispute refund
\* or a positive admin adjustment.  One UPDATE with its ledger row.
Credit(u, amount) ==
    /\ balance[u] + amount <= MaxCoins
    /\ balance' = [balance EXCEPT ![u] = @ + amount]
    /\ net' = [net EXCEPT ![u] = @ + amount]
    /\ UNCHANGED <<closing, closed, plugVars, sess, debits, flightVars>>

\* Mutant: the ledger row records the requested amount, not the one moved.
ClawBackAsRequested(u, amount) ==
    /\ "claw_back" \in Events /\ balance[u] > 0
    /\ balance' = [balance EXCEPT ![u] = @ - Lesser(amount, @)]
    /\ net' = [net EXCEPT ![u] = @ - amount]
    /\ UNCHANGED <<closing, closed, plugVars, sess, debits, flightVars>>

\* A claw-back: a gateway refund or a negative admin adjustment, clamped to the
\* balance.  It does not look at the holds of the user's sessions.
ClawBack(u, amount) ==
    /\ "claw_back" \in Events /\ balance[u] > 0
    /\ balance' = [balance EXCEPT ![u] = @ - Lesser(amount, @)]
    /\ net' = [net EXCEPT ![u] = @ - Lesser(amount, balance[u])]
    /\ UNCHANGED <<closing, closed, plugVars, sess, debits, flightVars>>

\* close_account, first half: assert_closable counts the ACTIVE sessions
\* without any lock.
CloseAccountCheck(u) ==
    /\ "close_account" \in Events
    /\ u \notin closing \cup closed /\ ActiveOf(u) = {}
    /\ closing' = closing \cup {u}
    /\ UNCHANGED <<balance, net, closed, plugVars, sess, debits, flightVars>>

\* close_account, second half: under the user lock, forfeit what the wallet
\* holds now and tombstone the account.
CloseAccount(u) ==
    /\ u \in closing
    /\ balance' = [balance EXCEPT ![u] = 0]
    /\ net' = [net EXCEPT ![u] = @ - balance[u]]
    /\ closing' = closing \ {u} /\ closed' = closed \cup {u}
    /\ UNCHANGED <<plugVars, sess, debits, flightVars>>
-----------------------------------------------------------------------------
(* Starting *)

\* Mutants: the cap is off by one; only OCCUPIED plugs are refused (TD#22).
MayStartOverCap(u, p) ==
    /\ Cardinality(ActiveOf(u)) <= MaxActive
    /\ plugStatus[p] = "AVAILABLE"
    /\ CircuitAdmits(p)
MayStartUnlessOccupied(u, p) ==
    /\ Cardinality(ActiveOf(u)) < MaxActive
    /\ plugStatus[p] # "OCCUPIED"
    /\ CircuitAdmits(p)

MayStart(u, p) ==
    /\ Cardinality(ActiveOf(u)) < MaxActive
    /\ plugStatus[p] = "AVAILABLE"
    /\ CircuitAdmits(p)

\* start_charging_session up to the commit of begin_active_session: the user,
\* plug and group rows are locked, so the checks and the claim are one step.
\* Reservations and gateway liveness can only refuse a start; see Reservations
\* and GatewayLink.
StartSession(s, u, p, limit) ==
    /\ sess[s] = NoRow /\ u \notin closed
    /\ MayStart(u, p)
    /\ \E available \in MinStart .. MaxCoins :
        /\ available = AvailableBalance(u)
        /\ sess' = [sess EXCEPT ![s] =
                      [status |-> "ACTIVE", user |-> u, plug |-> p, energy |-> 0,
                       hold |-> StartHold(available, limit), limit |-> limit,
                       spent |-> 0]]
    /\ plugStatus' = [plugStatus EXCEPT ![p] = "OCCUPIED"]
    /\ publishing' = publishing \cup {s}
    /\ UNCHANGED <<walletVars, clearing, cutoff, debits, silent, overdue, doomed>>

\* The broker acknowledged the ON publish.
PublishSucceeds(s) ==
    /\ s \in publishing
    /\ publishing' = publishing \ {s}
    /\ UNCHANGED <<walletVars, plugVars, sess, debits, silent, overdue, doomed>>

\* The ON publish failed or timed out: the claim is undone by assigning the
\* session and plug rows, without locking them or looking at them again.
PublishFails(s) ==
    /\ "publish_fails" \in Events /\ s \in publishing
    /\ publishing' = publishing \ {s}
    /\ sess' = [sess EXCEPT ![s].status = "CANCELLED"]
    /\ plugStatus' = [plugStatus EXCEPT ![sess[s].plug] = "AVAILABLE"]
    /\ silent' = silent \ {s} /\ overdue' = overdue \ {s}
    /\ UNCHANGED <<walletVars, clearing, cutoff, debits, doomed>>
-----------------------------------------------------------------------------
(* Running *)

\* The stop conditions a telemetry frame evaluates after its commit, on the
\* values of the row it has just written: the hold first, then the limits.
Exhausted(s, energy) == Cost(energy) > 0 /\ Cost(energy) >= sess[s].hold

LimitReached(s, energy) ==
    (sess[s].limit # NoLimit /\ energy >= sess[s].limit) \/ s \in overdue

StopDue(s, energy) == Exhausted(s, energy) \/ LimitReached(s, energy)

\* Mutants: the session is looked up by id without the ACTIVE filter; the stop
\* conditions are evaluated only when the reading moved.
FrameOnAnySession(s, reading) ==
    /\ sess[s] # NoRow
    /\ sess' = [sess EXCEPT ![s].energy = Greater(@, reading)]
    /\ UNCHANGED <<walletVars, plugVars, debits, flightVars>>
FrameStopsOnRise(s, reading) ==
    /\ Active(s)
    /\ sess' = [sess EXCEPT ![s].energy = Greater(@, reading)]
    /\ doomed' = IF reading > sess[s].energy /\ StopDue(s, reading)
                 THEN doomed \cup {s} ELSE doomed
    /\ silent' = silent \ {s}
    /\ UNCHANGED <<walletVars, plugVars, debits, publishing, overdue>>

\* _persist_telemetry for a frame attributed to session s.
TelemetryFrame(s, reading) ==
    /\ Active(s)
    /\ LET energy == Greater(sess[s].energy, reading) IN
        /\ sess' = [sess EXCEPT ![s].energy = energy]
        /\ doomed' = IF StopDue(s, energy) THEN doomed \cup {s} ELSE doomed
    /\ silent' = silent \ {s}
    /\ UNCHANGED <<walletVars, plugVars, debits, publishing, overdue>>

\* Time passes: no frame for stale_timeout_sec, or max_duration_seconds is over.
FallSilent(s) ==
    /\ "silence" \in Events /\ Active(s) /\ s \notin silent
    /\ silent' = silent \cup {s}
    /\ UNCHANGED <<walletVars, plugVars, sess, debits, publishing, overdue, doomed>>

PassDeadline(s) ==
    /\ "deadline" \in Events /\ Active(s) /\ s \notin overdue
    /\ overdue' = overdue \cup {s}
    /\ UNCHANGED <<walletVars, plugVars, sess, debits, publishing, silent, doomed>>

\* update_session_limits with a max_kwh, under the user and session locks.
UpdateEnergyLimit(s, limit) ==
    /\ Active(s) /\ limit >= sess[s].energy
    /\ \E headroom \in -MaxCoins .. MaxCoins :
        /\ headroom = AvailableBalance(sess[s].user) + sess[s].hold
        /\ sess' = [sess EXCEPT ![s].limit = limit,
                                ![s].hold = ResizedHold(s, limit, headroom)]
    /\ UNCHANGED <<walletVars, plugVars, debits, flightVars>>

\* update_session_limits with a longer max_duration_seconds only; the hold is
\* sized again with the kWh limit the session already has.
UpdateDurationLimit(s) ==
    /\ Active(s)
    /\ \E headroom \in -MaxCoins .. MaxCoins :
        /\ headroom = AvailableBalance(sess[s].user) + sess[s].hold
        /\ sess' = [sess EXCEPT ![s].hold = ResizedHold(s, sess[s].limit, headroom)]
    /\ overdue' = overdue \ {s}
    /\ UNCHANGED <<walletVars, plugVars, debits, publishing, silent, doomed>>
-----------------------------------------------------------------------------
(* Stopping *)

\* Mutant: the ACTIVE status is not checked again under the lock.
FinalizeUnchecked(s) ==
    /\ sess[s] # NoRow
    /\ sess' = [sess EXCEPT ![s].status = "COMPLETED", ![s].spent = Collected(s)]
    /\ debits' = [debits EXCEPT ![s] = [rows  |-> @.rows + 1,
                                        coins |-> @.coins + Collected(s)]]
    /\ balance' = [balance EXCEPT ![sess[s].user] = @ - Collected(s)]
    /\ net' = [net EXCEPT ![sess[s].user] = @ - Collected(s)]
    /\ plugStatus' = [plugStatus EXCEPT ![sess[s].plug] = "AVAILABLE"]
    /\ silent' = silent \ {s} /\ overdue' = overdue \ {s}

\* finalize_charging_session: user and session rows locked, ACTIVE re-checked.
Finalize(s) ==
    /\ Active(s)
    /\ sess' = [sess EXCEPT ![s].status = "COMPLETED", ![s].spent = Collected(s)]
    /\ debits' = [debits EXCEPT ![s] = [rows  |-> @.rows + 1,
                                        coins |-> @.coins + Collected(s)]]
    /\ balance' = [balance EXCEPT ![sess[s].user] = @ - Collected(s)]
    /\ net' = [net EXCEPT ![sess[s].user] = @ - Collected(s)]
    /\ plugStatus' = [plugStatus EXCEPT ![sess[s].plug] = "AVAILABLE"]
    /\ silent' = silent \ {s} /\ overdue' = overdue \ {s}

\* finalize_charging_session returned None: nothing was written.
NothingFinalized ==
    UNCHANGED <<sess, debits, balance, net, plugStatus, silent, overdue>>

\* The driver's stop request.
StopSession(s) ==
    /\ Finalize(s)
    /\ UNCHANGED <<closing, closed, clearing, cutoff, publishing, doomed>>

\* A handler that decided earlier (auto-stop, reaper, soft cutoff) gets to its
\* finalize; it is a no-op when someone else has settled the session.
AutoStop(s) ==
    /\ s \in doomed /\ doomed' = doomed \ {s}
    /\ \/ Finalize(s)
       \/ ~Active(s) /\ NothingFinalized
    /\ UNCHANGED <<closing, closed, clearing, cutoff, publishing>>

\* Mutant: only the duration sweep runs.
ReaperScanOverdue ==
    /\ {s \in overdue : Active(s)} \ doomed # {}
    /\ doomed' = doomed \cup {s \in overdue : Active(s)}
    /\ UNCHANGED <<walletVars, plugVars, sess, debits, publishing, silent, overdue>>

\* reap_once and reap_time_limited_once: the ids are read in one transaction and
\* finalized later, one transaction each.
ReaperScan ==
    /\ {s \in silent \cup overdue : Active(s)} \ doomed # {}
    /\ doomed' = doomed \cup {s \in silent \cup overdue : Active(s)}
    /\ UNCHANGED <<walletVars, plugVars, sess, debits, publishing, silent, overdue>>

\* OVERCURRENT_CAP or LOCAL_LIMIT_CUTOFF: finalize the session on the plug.
SoftCutoff(p) ==
    \E s \in ActiveOn(p) \ doomed :
        /\ Cardinality(ActiveOn(p)) = 1
        /\ doomed' = doomed \cup {s}
        /\ UNCHANGED <<walletVars, plugVars, sess, debits, publishing, silent, overdue>>
-----------------------------------------------------------------------------
(* THERMAL_CUTOFF or OVERCURRENT_CUTOFF: finalize, then take out of service *)

\* The alarm is recorded and the ACTIVE session of the plug looked up, in a
\* transaction that ends there.  A lookup that finds two sessions raises, and the
\* handler goes on as if there were none.
CutoffAlarm(p) ==
    /\ "cutoff_alarm" \in Events /\ cutoff[p] = "idle"
    /\ \/ /\ Cardinality(ActiveOn(p)) = 1
          /\ \E s \in ActiveOn(p) : cutoff' = [cutoff EXCEPT ![p] = s]
       \/ /\ Cardinality(ActiveOn(p)) # 1
          /\ cutoff' = [cutoff EXCEPT ![p] = "maintain"]
    /\ UNCHANGED <<walletVars, plugStatus, clearing, sess, debits, flightVars>>

\* _finalize_session_after_cutoff reaches its finalize.
CutoffSettle(p) ==
    /\ \E s \in Sessions :
        /\ cutoff[p] = s
        /\ Finalize(s) \/ (~Active(s) /\ NothingFinalized)
    /\ cutoff' = [cutoff EXCEPT ![p] = "maintain"]
    /\ UNCHANGED <<closing, closed, clearing, publishing, doomed>>

\* _auto_enter_maintenance: a transaction of its own, the plug row not locked.
CutoffMaintain(p) ==
    /\ cutoff[p] = "maintain"
    /\ cutoff' = [cutoff EXCEPT ![p] = "idle"]
    /\ plugStatus' = [plugStatus EXCEPT ![p] = "MAINTENANCE"]
    /\ UNCHANGED <<walletVars, clearing, sess, debits, flightVars>>
-----------------------------------------------------------------------------
(* Operator endpoints that write plugs.status *)

MaintenanceEnter(p) ==
    /\ "operator" \in Events
    /\ plugStatus' = [plugStatus EXCEPT ![p] = "MAINTENANCE"]
    /\ UNCHANGED <<walletVars, clearing, cutoff, sess, debits, flightVars>>

\* maintenance clear, first half: load the plug and count, neither under a lock.
\* A plug loaded AVAILABLE is not written at all.
MaintenanceClearCheck(p) ==
    /\ "operator" \in Events /\ p \notin clearing
    /\ plugStatus[p] # "AVAILABLE" /\ ActiveOn(p) = {}
    /\ clearing' = clearing \cup {p}
    /\ UNCHANGED <<walletVars, plugStatus, cutoff, sess, debits, flightVars>>

MaintenanceClear(p) ==
    /\ p \in clearing /\ clearing' = clearing \ {p}
    /\ plugStatus' = [plugStatus EXCEPT ![p] = "AVAILABLE"]
    /\ UNCHANGED <<walletVars, cutoff, sess, debits, flightVars>>

\* PUT /api/cpo/plugs/{id} with a status: any value, no session check.
UpdatePlug(p, status) ==
    /\ "operator" \in Events
    /\ plugStatus' = [plugStatus EXCEPT ![p] = status]
    /\ UNCHANGED <<walletVars, clearing, cutoff, sess, debits, flightVars>>
-----------------------------------------------------------------------------
WalletStep(u) ==
    \/ \E amount \in Amounts : Credit(u, amount) \/ ClawBack(u, amount)
    \/ CloseAccountCheck(u) \/ CloseAccount(u)

SessionStep(s) ==
    \/ \E u \in Users, p \in Plugs, limit \in KwhLimits \cup {NoLimit} :
           StartSession(s, u, p, limit)
    \/ PublishSucceeds(s) \/ PublishFails(s)
    \/ \E reading \in 0 .. MaxEnergy : TelemetryFrame(s, reading)
    \/ FallSilent(s) \/ PassDeadline(s)
    \/ \E limit \in KwhLimits : UpdateEnergyLimit(s, limit)
    \/ UpdateDurationLimit(s)
    \/ StopSession(s) \/ AutoStop(s)

PlugStep(p) ==
    \/ SoftCutoff(p) \/ CutoffAlarm(p) \/ CutoffSettle(p) \/ CutoffMaintain(p)
    \/ MaintenanceEnter(p) \/ MaintenanceClearCheck(p) \/ MaintenanceClear(p)
    \/ \E status \in PlugStatus : UpdatePlug(p, status)

Next ==
    \/ \E u \in Users : WalletStep(u)
    \/ \E s \in Sessions : SessionStep(s)
    \/ \E p \in Plugs : PlugStep(p)
    \/ ReaperScan

Spec == Init /\ [][Next]_vars

\* What the event loop and the clock guarantee: a publish returns within its
\* timeout, the reaper keeps sweeping, a decided finalize gets its turn, and a
\* running session either hears from its gateway or passes the stale cutoff.
Heartbeat(s) ==
    /\ s \notin silent
    /\ FallSilent(s) \/ \E reading \in 0 .. MaxEnergy : TelemetryFrame(s, reading)

Fairness ==
    /\ WF_vars(ReaperScan)
    /\ \A s \in Sessions : /\ WF_vars(PublishSucceeds(s) \/ PublishFails(s))
                           /\ WF_vars(AutoStop(s))
                           /\ WF_vars(Heartbeat(s))

FairSpec == Spec /\ Fairness
-----------------------------------------------------------------------------
(* Properties *)

\* The state stays within the columns' domains; balances are never negative
\* (ck_users_coin_balance_non_negative).
TypeOK ==
    /\ balance \in [Users -> Nat] /\ net \in [Users -> Int]
    /\ closing \subseteq Users /\ closed \subseteq Users
    /\ plugStatus \in [Plugs -> PlugStatus] /\ clearing \subseteq Plugs
    /\ cutoff \in [Plugs -> Sessions \cup {"idle", "maintain"}]
    /\ sess \in [Sessions -> SessionRow \cup {NoRow}]
    /\ debits \in [Sessions -> [rows : Nat, coins : Nat]]
    /\ publishing \subseteq Sessions /\ silent \subseteq Sessions
    /\ overdue \subseteq Sessions /\ doomed \subseteq Sessions

\* Concurrent finalizers (driver, auto-stop, reaper, alarm) and a late publish
\* failure settle a session at most once: an ACTIVE session has no debit row, a
\* COMPLETED one exactly one, of the amount the receipt shows.
SettledOnce ==
    \A s \in Sessions :
        /\ debits[s].rows <= 1
        /\ sess[s].status \in {"NONE", "ACTIVE"} => debits[s].rows = 0
        /\ sess[s].status = "COMPLETED" => debits[s] = [rows |-> 1, coins |-> sess[s].spent]

\* Every wallet write carries a ledger row with the amount really moved, so the
\* ledger of a user sums to the balance.
WalletReconciled == \A u \in Users : balance[u] = net[u]

\* A driver is never charged beyond the authorization hold, nor beyond the
\* metered cost.
NeverOvercharged ==
    \A s \in Sessions : sess[s].status = "COMPLETED" =>
        sess[s].spent <= sess[s].hold /\ sess[s].spent <= Cost(sess[s].energy)

\* What a session costs its driver: finalize_charging_session writes one debit,
\* whoever calls it and however often, within the hold and the metered cost.
ChargedOnceWithinHold == SettledOnce /\ NeverOvercharged

\* The per-user cap on concurrent sessions, counted under the user row lock.
ActiveCap == \A u \in Users : Cardinality(ActiveOf(u)) <= MaxActive

\* One ACTIVE session per plug, and none on a plug that is offered as AVAILABLE.
PlugExclusive ==
    /\ \A s, t \in Sessions :
           Active(s) /\ Active(t) /\ sess[s].plug = sess[t].plug => s = t
    /\ \A s \in Sessions : Active(s) => plugStatus[sess[s].plug] # "AVAILABLE"

\* The plugs of a circuit never collectively exceed its line capacity.
CircuitWithinCapacity == LoadOf(Circuit) <= CircuitCap

\* A start reserves only coins no other session of the user has reserved.
StartCovered ==
    [][\A s \in Sessions, u \in Users :
           sess[s] = NoRow /\ sess'[s] # NoRow /\ sess'[s].user = u =>
               Held(u)' <= balance'[u]]_vars

\* Editing the limits of a running session never lowers what a stop at this
\* moment would collect up to the wallet.
LimitsNeverForgive ==
    [][\A s \in Sessions : Active(s) /\ Active(s)' =>
           Lesser(Cost(sess'[s].energy), sess'[s].hold)
             >= Lesser(Cost(sess[s].energy), sess[s].hold)]_vars

\* A late frame, limits edit or finalize never changes a settled bill.
BillFrozen ==
    [][\A s \in Sessions : sess[s].status = "COMPLETED" =>
           /\ debits'[s] = debits[s]
           /\ <<sess'[s].energy, sess'[s].hold, sess'[s].spent>>
                = <<sess[s].energy, sess[s].hold, sess[s].spent>>]_vars

\* A session whose gateway has gone silent is settled, or heard from again.
StaleReaped ==
    \A s \in Sessions :
        (Active(s) /\ s \in silent) ~> (~Active(s) \/ s \notin silent)

\* A session past its hold, energy limit or time limit is settled, unless the
\* driver raises the limit first.
DueStopHappens ==
    \A s \in Sessions :
        (Active(s) /\ StopDue(s, sess[s].energy))
            ~> (~Active(s) \/ ~StopDue(s, sess[s].energy))

\* No session that is due to end goes on for ever: neither one whose gateway
\* died (reap_once) nor one that has used up what it may (the auto-stops).
DueSessionsEnd == StaleReaped /\ DueStopHappens
=============================================================================
