------------------------------ MODULE Payments ------------------------------
(***************************************************************************)
(* Wallet top-ups paid at the payment gateway, and their claw-back when    *)
(* the gateway returns the money.                                          *)
(*                                                                         *)
(* A capture reaches the backend twice over: the browser calls /verify and *)
(* the gateway calls the webhook, which it repeats until it is answered.   *)
(* A handler looks the id up without a lock, and credits in a transaction  *)
(* of its own later; the UNIQUE constraint on the ledger's                 *)
(* razorpay_payment_id column decides between two that got that far.       *)
(***************************************************************************)
EXTENDS Integers, FiniteSetsExt

CONSTANTS
    Users,
    Payments,     \* "pay_..." ids
    Refunds,      \* "rfnd_..." ids
    Payer,        \* the user_id in the notes of each payment's order
    Paid,         \* coins of each payment's captured amount
    RefundOf,     \* the payment_id a refund entity carries
    Returned,     \* coins of each refund's amount
    Tasks,        \* handlers that may be in flight at once
    MaxCrashes    \* bound: how many handlers may die before answering

Keys == Payments \cup Refunds     \* the ids of the UNIQUE column

ASSUME PaymentsAssumption ==
    /\ IsFiniteSet(Users) /\ IsFiniteSet(Keys) /\ IsFiniteSet(Tasks)
    /\ Payments \cap Refunds = {}
    /\ Payer \in [Payments -> Users] /\ Paid \in [Payments -> Nat]
    /\ RefundOf \in [Refunds -> Payments] /\ Returned \in [Refunds -> Nat]
    /\ MaxCrashes \in Nat

VARIABLES
    captured,  \* payments the gateway has captured (external)
    issued,    \* refunds the gateway has issued (external)
    acked,     \* events the gateway got an answer for, and stops repeating
    balance,   \* users.coin_balance
    spent,     \* coins each user has paid for charging
    ledger,    \* rows carrying each id, and the coins they moved
    task,      \* what each handler in flight is about to do
    crashes    \* handlers that died so far

gatewayVars == <<captured, issued, acked>>
walletVars  == <<balance, spent, ledger>>
vars        == <<gatewayVars, walletVars, task, crashes>>

Idle == [at |-> "idle"]
Steps == {"check", "write", "answer"}
Task == [at : Steps, key : Keys, webhook : BOOLEAN]

Recorded(k) == ledger[k].rows > 0     \* _already_credited

Lesser(a, b) == IF a <= b THEN a ELSE b

\* What the gateway has sent back of a payment.
SentBack(p) == SumFunctionOnSet(Returned, {r \in issued : RefundOf[r] = p})
-----------------------------------------------------------------------------
Init ==
    /\ captured = {} /\ issued = {} /\ acked = {}
    /\ balance = [u \in Users |-> 0] /\ spent = [u \in Users |-> 0]
    /\ ledger = [k \in Keys |-> [rows |-> 0, coins |-> 0]]
    /\ task = [t \in Tasks |-> Idle]
    /\ crashes = 0
-----------------------------------------------------------------------------
(* The gateway *)

Capture(p) ==
    /\ p \notin captured
    /\ captured' = captured \cup {p}
    /\ UNCHANGED <<issued, acked, walletVars, task, crashes>>

\* A refund made in the dashboard or by the card issuer; partial refunds of one
\* payment add up to no more than it.
IssueRefund(r) ==
    /\ r \notin issued /\ RefundOf[r] \in captured
    /\ SentBack(RefundOf[r]) + Returned[r] <= Paid[RefundOf[r]]
    /\ issued' = issued \cup {r}
    /\ UNCHANGED <<captured, acked, walletVars, task, crashes>>

-----------------------------------------------------------------------------
(* The handlers.  An event is delivered until it is answered, and may be    *)
(* delivered again after that: a refund alone has three event names.        *)

Become(t, step) == task' = [task EXCEPT ![t] = step]

\* verify_payment, up to the answer of fetch_captured_payment: a payment the
\* gateway has returned in full is no longer "captured" and is refused.
VerifyFetch(t, p) ==
    /\ task[t] = Idle
    /\ p \in captured /\ SentBack(p) < Paid[p]
    /\ Become(t, [at |-> "check", key |-> p, webhook |-> FALSE])
    /\ UNCHANGED <<gatewayVars, walletVars, crashes>>

\* verify_payment, the fast path: an id in the ledger ends the request.
VerifyCheck(t) ==
    /\ task[t].at = "check"
    /\ Become(t, IF Recorded(task[t].key) THEN Idle ELSE [task[t] EXCEPT !.at = "write"])
    /\ UNCHANGED <<gatewayVars, walletVars, crashes>>

\* Mutant: the gateway is answered before the credit is committed.
WebhookCaptureAckedFirst(t, p) ==
    /\ task[t] = Idle /\ p \in captured
    /\ Become(t, IF Recorded(p) THEN Idle
                 ELSE [at |-> "write", key |-> p, webhook |-> FALSE])
    /\ acked' = acked \cup {p}
    /\ UNCHANGED <<captured, issued, walletVars, crashes>>

\* razorpay_webhook with a payment.captured event, the fast path.
WebhookCapture(t, p) ==
    /\ task[t] = Idle /\ p \in captured
    /\ Become(t, [at      |-> IF Recorded(p) THEN "answer" ELSE "write",
                  key     |-> p,
                  webhook |-> TRUE])
    /\ UNCHANGED <<gatewayVars, walletVars, crashes>>

\* Mutants: the gateway is answered before the debit is committed; a refund of a
\* payment the ledger does not know is debited all the same.
WebhookRefundAckedFirst(t, r) ==
    /\ task[t] = Idle /\ r \in issued
    /\ Become(t, IF Recorded(r) \/ ~Recorded(RefundOf[r]) THEN Idle
                 ELSE [at |-> "write", key |-> r, webhook |-> FALSE])
    /\ acked' = acked \cup {r}
    /\ UNCHANGED <<captured, issued, walletVars, crashes>>
WebhookRefundUnmatched(t, r) ==
    /\ task[t] = Idle /\ r \in issued
    /\ Become(t, [at      |-> IF Recorded(r) THEN "answer" ELSE "write",
                  key     |-> r,
                  webhook |-> TRUE])
    /\ UNCHANGED <<gatewayVars, walletVars, crashes>>

\* razorpay_webhook with a refund event: _handle_refund_webhook up to
\* _debit_refund.  A refund whose payment has no ledger row is answered too.
WebhookRefund(t, r) ==
    /\ task[t] = Idle /\ r \in issued
    /\ Become(t, [at      |-> IF Recorded(r) \/ ~Recorded(RefundOf[r])
                              THEN "answer" ELSE "write",
                  key     |-> r,
                  webhook |-> TRUE])
    /\ UNCHANGED <<gatewayVars, walletVars, crashes>>

\* Where a handler goes after its transaction: only the webhook has somebody
\* waiting to be told.
Finished(t) == IF task[t].webhook THEN [task[t] EXCEPT !.at = "answer"] ELSE Idle

\* Mutant: the insert is not checked against the UNIQUE constraint.
InsertBlindly(k, coins) ==
    ledger' = [ledger EXCEPT ![k] = [rows |-> @.rows + 1, coins |-> @.coins + coins]]

\* The INSERT of a ledger row: refused when the id is there.
Insert(k, coins) ==
    /\ ~Recorded(k)
    /\ ledger' = [ledger EXCEPT ![k] = [rows |-> @.rows + 1, coins |-> @.coins + coins]]

\* _credit_topup: the UPDATE holds the user row until the commit, so the bump
\* and the row are one step, and an IntegrityError undoes both.
CreditTopup(t) ==
    LET p == task[t].key IN
    /\ task[t].at = "write" /\ p \in Payments
    /\ \/ /\ Insert(p, Paid[p])
          /\ balance' = [balance EXCEPT ![Payer[p]] = @ + Paid[p]]
       \/ /\ Recorded(p)
          /\ UNCHANGED <<balance, ledger>>
    /\ Become(t, Finished(t))
    /\ UNCHANGED <<gatewayVars, spent, crashes>>

\* Mutant: the debit is not clamped.
Unclamped(u, coins) == coins

\* debit_wallet_clamped: what the wallet can give.
Clamped(u, coins) == Lesser(coins, balance[u])

\* Mutant: the row records the refund, not what the wallet could give.
DebitRefundAsReturned(t) ==
    LET r == task[t].key
        u == Payer[RefundOf[r]]
    IN
    /\ task[t].at = "write" /\ r \in Refunds
    /\ \/ /\ Insert(r, Returned[r])
          /\ balance' = [balance EXCEPT ![u] = @ - Clamped(u, Returned[r])]
       \/ /\ Recorded(r)
          /\ UNCHANGED <<balance, ledger>>
    /\ Become(t, Finished(t))
    /\ UNCHANGED <<gatewayVars, spent, crashes>>

\* _debit_refund: the same transaction for a claw-back; the ledger row records
\* what was really taken, and a shortfall is forgiven.
DebitRefund(t) ==
    LET r == task[t].key
        u == Payer[RefundOf[r]]
    IN
    /\ task[t].at = "write" /\ r \in Refunds
    /\ \/ /\ Insert(r, Clamped(u, Returned[r]))
          /\ balance' = [balance EXCEPT ![u] = @ - Clamped(u, Returned[r])]
       \/ /\ Recorded(r)
          /\ UNCHANGED <<balance, ledger>>
    /\ Become(t, Finished(t))
    /\ UNCHANGED <<gatewayVars, spent, crashes>>

\* Every path of the webhook ends in a 200.
Answer(t) ==
    /\ task[t].at = "answer"
    /\ acked' = acked \cup {task[t].key}
    /\ Become(t, Idle)
    /\ UNCHANGED <<captured, issued, walletVars, crashes>>

\* The process dies, or the connection is cut, between two steps of a handler:
\* what is committed stays and the gateway is not answered.
Crash(t) ==
    /\ task[t] # Idle /\ crashes < MaxCrashes
    /\ crashes' = crashes + 1
    /\ Become(t, Idle)
    /\ UNCHANGED <<gatewayVars, walletVars>>

\* A settled session takes a coin of the wallet.
Spend(u) ==
    /\ balance[u] > 0
    /\ balance' = [balance EXCEPT ![u] = @ - 1]
    /\ spent' = [spent EXCEPT ![u] = @ + 1]
    /\ UNCHANGED <<gatewayVars, ledger, task, crashes>>

Deliver(t, k) ==
    \/ k \in Payments /\ WebhookCapture(t, k)
    \/ k \in Refunds /\ WebhookRefund(t, k)

HandlerStep(t) == VerifyCheck(t) \/ CreditTopup(t) \/ DebitRefund(t) \/ Answer(t)

Next ==
    \/ \E p \in Payments : Capture(p)
    \/ \E r \in Refunds : IssueRefund(r)
    \/ \E t \in Tasks, p \in Payments : VerifyFetch(t, p)
    \/ \E t \in Tasks, k \in Keys : Deliver(t, k)
    \/ \E t \in Tasks : HandlerStep(t) \/ Crash(t)
    \/ \E u \in Users : Spend(u)

Spec == Init /\ [][Next]_vars

\* A handler runs on; the gateway repeats an event it has no answer for, and
\* is let in (the server caps no handlers: Tasks is a bound of the model, and
\* strong fairness keeps it from starving the event).
Redeliver(k) == k \notin acked /\ \E t \in Tasks : Deliver(t, k)

FairSpec ==
    /\ Spec
    /\ \A t \in Tasks : WF_vars(HandlerStep(t))
    /\ \A k \in Keys : SF_vars(Redeliver(k))
-----------------------------------------------------------------------------
TypeOK ==
    /\ captured \subseteq Payments /\ issued \subseteq Refunds /\ acked \subseteq Keys
    /\ balance \in [Users -> Nat] /\ spent \in [Users -> Nat]
    /\ ledger \in [Keys -> [rows : Nat, coins : Nat]]
    /\ task \in [Tasks -> Task \cup {Idle}]
    /\ crashes \in 0 .. MaxCrashes

\* However many times and in whatever order /verify and the webhook handle a
\* payment, it is credited once, with what was captured, and only if it was:
\* _already_credited is a fast path and the UNIQUE constraint the guard.
CreditedOnce ==
    \A p \in Payments :
        \/ ledger[p] = [rows |-> 0, coins |-> 0]
        \/ ledger[p] = [rows |-> 1, coins |-> Paid[p]] /\ p \in captured

\* A claw-back is booked once per refund, for no more than the refund, and only
\* against a payment that was credited (_topup_user_for_payment).
ClawedBackOnce ==
    \A r \in Refunds :
        \/ ledger[r] = [rows |-> 0, coins |-> 0]
        \/ /\ ledger[r].rows = 1 /\ ledger[r].coins <= Returned[r]
           /\ ledger[RefundOf[r]].rows = 1

\* Each id of the gateway moves coins once, in either direction, however /verify,
\* the webhook and their repetitions interleave.
MovedOnce == CreditedOnce /\ ClawedBackOnce

\* The coins that ledger rows with some ids moved.
Booked(ids) == SumFunction([k \in ids |-> ledger[k].coins])

\* The wallet is the sum of its ledger: what was credited, less what was clawed
\* back and spent.  A clamped debit records what it took (debit_wallet_clamped).
LedgerBalances ==
    \A u \in Users :
        balance[u] + spent[u] + Booked({r \in Refunds : Payer[RefundOf[r]] = u})
            = Booked({p \in Payments : Payer[p] = u})

\* The wallet is never negative and always the sum of its ledger, also when a
\* refund finds less than it claws back.
LedgerSound == TypeOK /\ LedgerBalances

\* A captured payment is credited in the end although the browser never comes
\* back and handlers die: an event is answered only once its row is there.
CapturedIsCredited == \A p \in Payments : p \in captured ~> Recorded(p)

\* A refund the gateway has still to deliver, of a payment already credited, is
\* clawed back in the end.
RefundIsClawedBack ==
    \A r \in Refunds :
        (/\ r \in issued \ acked /\ Recorded(RefundOf[r])
         /\ \A t \in Tasks : task[t] # Idle => task[t].key # r) ~> Recorded(r)

\* The gateway's retries lose neither a credit nor a claw-back, although
\* handlers die between any two steps (razorpay_webhook).
EventsTakeEffect == CapturedIsCredited /\ RefundIsClawedBack
=============================================================================
