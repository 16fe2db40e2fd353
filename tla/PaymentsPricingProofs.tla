------------------------ MODULE PaymentsPricingProofs ------------------------
(***************************************************************************)
(* Payments and Pricing, which share no state: the wallet is credited      *)
(* once for what was paid in, and charged what the tariff says.            *)
(*                                                                         *)
(* Payments, for every set of payments, refunds and concurrent handlers.   *)
(* Neither CreditedOnce nor ClawedBackOnce is inductive alone: a handler   *)
(* that is about to write must be known to write for a payment that was    *)
(* captured, or for a refund of a payment that is in the ledger.           *)
(* LedgerSound follows each transaction's two writes, the wallet and the   *)
(* ledger row, through the sums over a user's rows.                        *)
(*                                                                         *)
(* Pricing, for every tariff, every set of slots (overlapping ones too)    *)
(* and every length of the day and of the week.  The calendar lemmas show  *)
(* that the rate holds from an instant to the boundary the resolver gives  *)
(* for it (SlotsSteady).  So a row's rate is the rate in force from now    *)
(* until the row falls due (Ahead), whoever reprices it, at the present    *)
(* instant or at the one the reaper captured earlier; and no rate of the   *)
(* session's window exceeds the one its hold was sized with (HeldFrom).    *)
(***************************************************************************)
EXTENDS Payments, Pricing, SumTheorems

-----------------------------------------------------------------------------
(* Payments.                                                               *)

\* What a handler in flight may rely on when it writes (verify_payment,
\* razorpay_webhook, _handle_refund_webhook).
TasksJustified ==
    \A t \in Tasks : task[t] # Idle =>
        /\ task[t].key \in Payments => task[t].key \in captured
        /\ task[t].key \in Refunds /\ task[t].at = "write"
              => ledger[RefundOf[task[t].key]].rows > 0
        /\ task[t].at = "check" => task[t].key \in Payments

Inv == TypeOK /\ TasksJustified /\ CreditedOnce /\ ClawedBackOnce

\* A clamped debit takes a natural amount that the wallet holds.
LEMMA ClampedBounds ==
    ASSUME TypeOK, NEW u \in Users, NEW c \in Nat
    PROVE  Clamped(u, c) \in Nat /\ Clamped(u, c) <= c /\ Clamped(u, c) <= balance[u]
  BY DEF Clamped, Lesser, TypeOK

\* A handler that is not idle is a task, and one at a named step is not idle.
LEMMA TaskShape ==
    ASSUME TypeOK, NEW t \in Tasks
    PROVE  /\ task[t] # Idle => task[t] \in Task
           /\ task[t].at \in Steps => task[t] # Idle
  BY DEF TypeOK, Idle, Steps

\* A handler that has committed answers or is done, and the ledger only grows:
\* what the other handlers rely on still holds.
LEMMA CommitKeepsJustified ==
    ASSUME TypeOK, TasksJustified, NEW t \in Tasks, task[t] \in Task,
           Become(t, Finished(t)), captured' = captured,
           \A k \in Keys : ledger[k].rows > 0 => ledger'[k].rows > 0
    PROVE  TasksJustified'
  <1>. USE PaymentsAssumption
  <1>. SUFFICES ASSUME NEW s \in Tasks, task'[s] # Idle
                PROVE  /\ task'[s].key \in Payments => task'[s].key \in captured
                       /\ task'[s].key \in Refunds /\ task'[s].at = "write"
                             => ledger'[RefundOf[task'[s].key]].rows > 0
                       /\ task'[s].at = "check" => task'[s].key \in Payments
    BY DEF TasksJustified
  <1>1. CASE s = t
    <2>1. task'[t] = Finished(t)
      BY DEF Become, TypeOK
    <2>2. task[t] # Idle
      BY TaskShape DEF Task
    <2>3. task'[t].at = "answer" /\ task'[t].key = task[t].key
      BY <1>1, <2>1 DEF Finished, Task
    <2>4. QED
      BY <1>1, <2>2, <2>3 DEF TasksJustified
  <1>2. CASE s # t
    <2>1. task'[s] = task[s]
      BY <1>2 DEF Become, TypeOK
    <2>2. \A r \in Refunds : RefundOf[r] \in Keys
      BY DEF Keys
    <2>3. QED
      BY <2>1, <2>2 DEF TasksJustified
  <1>3. QED
    BY <1>1, <1>2

\* The initial state satisfies the invariant.
LEMMA InitInv == Init => Inv
  <1>1. SUFFICES ASSUME Init PROVE Inv
    OBVIOUS
  <1>2. TypeOK
    BY <1>1, PaymentsAssumption DEF Init, TypeOK
  <1>3. TasksJustified /\ CreditedOnce /\ ClawedBackOnce
    BY <1>1, PaymentsAssumption DEF Init, TasksJustified, CreditedOnce, ClawedBackOnce, Keys
  <1>4. QED
    BY <1>2, <1>3 DEF Inv

\* Every step keeps it, action by action.
LEMMA NextInv == Inv /\ [Next]_vars => Inv'
  <1>1. SUFFICES ASSUME Inv, [Next]_vars PROVE Inv'
    OBVIOUS
  <1>. USE PaymentsAssumption
  <1>2. ASSUME NEW p \in Payments, Capture(p) PROVE Inv'
    BY <1>1, <1>2 DEF Inv, Capture, TypeOK, TasksJustified, CreditedOnce, ClawedBackOnce,
       walletVars
  <1>3. ASSUME NEW r \in Refunds, IssueRefund(r) PROVE Inv'
    BY <1>1, <1>3 DEF Inv, IssueRefund, TypeOK, TasksJustified, CreditedOnce,
       ClawedBackOnce, walletVars
  <1>4. ASSUME NEW t \in Tasks, NEW p \in Payments, VerifyFetch(t, p) PROVE Inv'
    BY <1>1, <1>4 DEF Inv, VerifyFetch, Become, TypeOK, TasksJustified, CreditedOnce,
       ClawedBackOnce, gatewayVars, walletVars, Task, Steps, Keys, Idle
  <1>5. ASSUME NEW t \in Tasks, NEW p \in Payments, WebhookCapture(t, p) PROVE Inv'
    BY <1>1, <1>5 DEF Inv, WebhookCapture, Become, TypeOK, TasksJustified, CreditedOnce,
       ClawedBackOnce, gatewayVars, walletVars, Task, Steps, Keys, Idle
  <1>6. ASSUME NEW t \in Tasks, NEW r \in Refunds, WebhookRefund(t, r) PROVE Inv'
    BY <1>1, <1>6 DEF Inv, WebhookRefund, Become, Recorded, TypeOK, TasksJustified,
       CreditedOnce, ClawedBackOnce, gatewayVars, walletVars, Task, Steps, Keys, Idle
  <1>7. ASSUME NEW t \in Tasks, VerifyCheck(t) PROVE Inv'
    <2>1. task[t] \in Task /\ task[t] # Idle /\ task[t].at = "check" /\ task[t].key \in Payments
      BY <1>1, <1>7, TaskShape DEF Inv, VerifyCheck, TasksJustified, Steps
    <2>2. /\ task' = [task EXCEPT ![t] = task'[t]]
          /\ task'[t] = Idle \/ task'[t] = [task[t] EXCEPT !.at = "write"]
      BY <1>1, <1>7 DEF Inv, TypeOK, VerifyCheck, Become
    <2>3. task'[t] \in Task \cup {Idle}
          /\ (task'[t] # Idle => task'[t].key = task[t].key /\ task'[t].at = "write")
      BY <2>1, <2>2 DEF Task, Steps
    <2>4. TypeOK' /\ CreditedOnce' /\ ClawedBackOnce'
      BY <1>1, <1>7, <2>2, <2>3 DEF Inv, VerifyCheck, TypeOK, CreditedOnce, ClawedBackOnce,
         gatewayVars, walletVars
    <2>5. TasksJustified'
      <3>1. \A p \in Payments : p \notin Refunds
        OBVIOUS
      <3>2. \A s \in Tasks : s # t => task'[s] = task[s]
        BY <1>1, <2>2 DEF Inv, TypeOK
      <3>3. UNCHANGED <<captured, ledger>>
        BY <1>7 DEF VerifyCheck, gatewayVars, walletVars
      <3>4. QED
        BY <1>1, <2>1, <2>3, <3>1, <3>2, <3>3 DEF Inv, TasksJustified
    <2>6. QED
      BY <2>4, <2>5 DEF Inv
  <1>8. ASSUME NEW t \in Tasks, CreditTopup(t) PROVE Inv'
    <2>. DEFINE p == task[t].key
    <2>1. task[t] \in Task /\ task[t] # Idle /\ p \in Payments /\ p \in captured
      BY <1>1, <1>8, TaskShape DEF Inv, CreditTopup, TasksJustified, Steps
    <2>2. task' \in [Tasks -> Task \cup {Idle}]
      BY <1>1, <1>8, <2>1 DEF Inv, TypeOK, CreditTopup, Become, Finished, Task, Steps, Idle
    <2>3. \/ ~Recorded(p) /\ ledger' = [ledger EXCEPT ![p] =
                [rows |-> ledger[p].rows + 1, coins |-> ledger[p].coins + Paid[p]]]
             /\ balance' = [balance EXCEPT ![Payer[p]] = balance[Payer[p]] + Paid[p]]
          \/ UNCHANGED <<balance, ledger>>
      BY <1>8 DEF CreditTopup, Insert
    <2>4. TypeOK'
      <3>1. p \in Keys /\ Payer[p] \in Users /\ Paid[p] \in Nat
        BY <2>1 DEF Keys
      <3>. HIDE DEF p
      <3>2. /\ ledger' \in [Keys -> [rows : Nat, coins : Nat]]
            /\ balance' \in [Users -> Nat]
        BY <1>1, <2>3, <3>1 DEF Inv, TypeOK
      <3>3. QED
        BY <1>1, <1>8, <2>2, <3>2 DEF Inv, TypeOK, CreditTopup, gatewayVars
    <2>5. CreditedOnce'
      BY <1>1, <1>8, <2>1, <2>3 DEF Inv, TypeOK, CreditedOnce, CreditTopup, gatewayVars,
         Recorded, Keys
    <2>6. ClawedBackOnce'
      BY <1>1, <1>8, <2>1, <2>3 DEF Inv, TypeOK, CreditedOnce, ClawedBackOnce, Recorded, Keys
    <2>7. TasksJustified'
      <3>1. \A k \in Keys : ledger[k].rows > 0 => ledger'[k].rows > 0
        BY <1>1, <2>3 DEF Inv, TypeOK
      <3>2. QED
        BY <1>1, <1>8, <2>1, <3>1, CommitKeepsJustified DEF Inv, CreditTopup, gatewayVars
    <2>8. QED
      BY <2>4, <2>5, <2>6, <2>7 DEF Inv
  <1>9. ASSUME NEW t \in Tasks, DebitRefund(t) PROVE Inv'
    <2>. DEFINE r == task[t].key
                u == Payer[RefundOf[r]]
                c == Clamped(u, Returned[r])
    <2>1. /\ task[t] \in Task /\ task[t] # Idle /\ r \in Refunds
          /\ ledger[RefundOf[r]].rows > 0
      BY <1>1, <1>9, TaskShape DEF Inv, DebitRefund, TasksJustified, Steps
    <2>2. task' \in [Tasks -> Task \cup {Idle}]
      BY <1>1, <1>9, <2>1 DEF Inv, TypeOK, DebitRefund, Become, Finished, Task, Steps, Idle
    <2>3. u \in Users /\ Returned[r] \in Nat
      BY <2>1
    <2>4. c \in Nat /\ c <= Returned[r] /\ c <= balance[u]
      BY <1>1, <2>3, ClampedBounds DEF Inv
    <2>5. \/ ~Recorded(r) /\ ledger' = [ledger EXCEPT ![r] =
                [rows |-> ledger[r].rows + 1, coins |-> ledger[r].coins + c]]
             /\ balance' = [balance EXCEPT ![u] = balance[u] - c]
          \/ UNCHANGED <<balance, ledger>>
      BY <1>9 DEF DebitRefund, Insert
    <2>. HIDE DEF c, u
    <2>6. TypeOK'
      BY <1>1, <1>9, <2>1, <2>2, <2>3, <2>4, <2>5 DEF Inv, TypeOK, DebitRefund, gatewayVars, Keys
    <2>7. CreditedOnce'
      BY <1>1, <1>9, <2>1, <2>5 DEF Inv, TypeOK, CreditedOnce, DebitRefund, gatewayVars, Keys
    <2>8. ClawedBackOnce'
      BY <1>1, <1>9, <2>1, <2>4, <2>5 DEF Inv, TypeOK, ClawedBackOnce, CreditedOnce,
         Recorded, Keys
    <2>9. TasksJustified'
      <3>1. \A k \in Keys : ledger[k].rows > 0 => ledger'[k].rows > 0
        BY <1>1, <2>4, <2>5 DEF Inv, TypeOK
      <3>2. QED
        BY <1>1, <1>9, <2>1, <3>1, CommitKeepsJustified DEF Inv, DebitRefund, gatewayVars
    <2>10. QED
      BY <2>6, <2>7, <2>8, <2>9 DEF Inv
  <1>10. ASSUME NEW t \in Tasks, Answer(t) PROVE Inv'
    BY <1>1, <1>10, TaskShape DEF Inv, Answer, Become, TypeOK, TasksJustified, CreditedOnce,
       ClawedBackOnce, walletVars, Task, Steps, Idle
  <1>11. ASSUME NEW t \in Tasks, Crash(t) PROVE Inv'
    BY <1>1, <1>11 DEF Inv, Crash, Become, TypeOK, TasksJustified, CreditedOnce,
       ClawedBackOnce, gatewayVars, walletVars, Idle
  <1>12. ASSUME NEW u \in Users, Spend(u) PROVE Inv'
    BY <1>1, <1>12 DEF Inv, Spend, TypeOK, TasksJustified, CreditedOnce, ClawedBackOnce,
       gatewayVars
  <1>13. CASE UNCHANGED vars
    BY <1>1, <1>13 DEF Inv, vars, gatewayVars, walletVars, TypeOK, TasksJustified,
       CreditedOnce, ClawedBackOnce
  <1>14. QED
    BY <1>1, <1>2, <1>3, <1>4, <1>5, <1>6, <1>7, <1>8, <1>9, <1>10, <1>11, <1>12, <1>13
       DEF Next, Deliver, HandlerStep

\* However /verify and the webhook interleave, repeat and crash, a payment is
\* credited at most once, with the captured amount (_credit_topup).
THEOREM CreditedOnceHolds == Spec => []CreditedOnce
  <1>1. Inv => CreditedOnce
    BY DEF Inv
  <1>2. QED
    BY InitInv, NextInv, <1>1, PTL DEF Spec

\* A refund takes coins at most once, no more than it returned, and only for a
\* payment that was credited (_debit_refund).
THEOREM ClawedBackOnceHolds == Spec => []ClawedBackOnce
  <1>1. Inv => ClawedBackOnce
    BY DEF Inv
  <1>2. QED
    BY InitInv, NextInv, <1>1, PTL DEF Spec

\* Every id of the gateway, a payment's or a refund's, moves coins at most once
\* (_already_credited with the UNIQUE constraint behind it).
THEOREM MovedOnceHolds == Spec => []MovedOnce
  <1>1. CreditedOnce /\ ClawedBackOnce => MovedOnce
    BY DEF MovedOnce
  <1>2. QED
    BY <1>1, CreditedOnceHolds, ClawedBackOnceHolds, PTL
-----------------------------------------------------------------------------
(* The wallet and its ledger *)

\* Booked, for any contents of the ledger.
BookedIn(rows, ids) == SumFunction([k \in ids |-> rows[k].coins])

LedgerRows == [Keys -> [rows : Nat, coins : Nat]]

\* The coins of some ids are a natural number.
LEMMA BookedNat ==
    ASSUME NEW rows \in LedgerRows, NEW ids \in SUBSET Keys
    PROVE  BookedIn(rows, ids) \in Nat
<1> DEFINE f == [k \in ids |-> rows[k].coins]
<1>1. /\ BookedIn(rows, ids) = SumFunctionOnSet(f, ids)
      /\ IsFiniteSet(ids) /\ \A k \in ids : f[k] \in Nat
  BY PaymentsAssumption, FS_Subset DEF BookedIn, SumFunction, LedgerRows
<1> HIDE DEF f
<1> QED
  BY <1>1, SumNat

\* A row written for one id shows in the sums over sets with that id, and in
\* no other.
LEMMA BookingAdds ==
    ASSUME NEW old \in LedgerRows, NEW new \in LedgerRows, NEW k \in Keys, NEW c \in Nat,
           new[k].coins = old[k].coins + c,
           \A x \in Keys \ {k} : new[x] = old[x],
           NEW ids \in SUBSET Keys
    PROVE  BookedIn(new, ids) = BookedIn(old, ids) + (IF k \in ids THEN c ELSE 0)
<1> DEFINE f == [x \in ids |-> old[x].coins]
           g == [x \in ids |-> new[x].coins]
<1>1. BookedIn(old, ids) = SumFunctionOnSet(f, ids) /\ BookedIn(old, ids) \in Nat
  BY BookedNat DEF BookedIn, SumFunction
<1>2. BookedIn(new, ids) = SumFunctionOnSet(g, ids)
  BY DEF BookedIn, SumFunction
<1>3. IsFiniteSet(ids)
  BY PaymentsAssumption, FS_Subset
<1>4. CASE k \in ids
  <2>1. \A x \in ids : f[x] \in Int
    BY DEF LedgerRows
  <2>2. g[k] = f[k] + c /\ g[k] \in Int /\ f[k] \in Int
    BY <1>4 DEF LedgerRows
  <2>3. \A x \in ids \ {k} : g[x] = f[x]
    OBVIOUS
  <2> HIDE DEF f, g
  <2>4. SumFunctionOnSet(g, ids) = SumFunctionOnSet(f, ids) - f[k] + g[k]
    BY <1>3, <1>4, <2>1, <2>2, <2>3, SumChange
  <2> QED
    BY <1>1, <1>2, <1>4, <2>2, <2>4
<1>5. CASE k \notin ids
  <2>1. \A x \in ids : f[x] = g[x]
    BY <1>5
  <2> HIDE DEF f, g
  <2>2. SumFunctionOnSet(f, ids) = SumFunctionOnSet(g, ids)
    BY <1>3, <2>1, SumSame
  <2> QED
    BY <1>1, <1>2, <1>5, <2>2
<1> QED
  BY <1>4, <1>5

PaidBy(u) == {p \in Payments : Payer[p] = u}
ReturnedTo(u) == {r \in Refunds : Payer[RefundOf[r]] = u}

\* LedgerBalances in these terms.
LEMMA BalancesOf ==
    LedgerBalances <=> \A u \in Users :
        balance[u] + spent[u] + BookedIn(ledger, ReturnedTo(u)) = BookedIn(ledger, PaidBy(u))
  BY DEF LedgerBalances, Booked, BookedIn, PaidBy, ReturnedTo

\* The wallet and the ledger row are written together, with one amount.
LEMMA BalancesStep == Inv /\ Inv' /\ LedgerBalances /\ [Next]_vars => LedgerBalances'
<1> SUFFICES ASSUME Inv, Inv', LedgerBalances, [Next]_vars, NEW v \in Users
             PROVE  balance'[v] + spent'[v] + BookedIn(ledger', ReturnedTo(v))
                        = BookedIn(ledger', PaidBy(v))
  BY DEF LedgerBalances, Booked, BookedIn, PaidBy, ReturnedTo
<1> DEFINE out == BookedIn(ledger, ReturnedTo(v))
           in == BookedIn(ledger, PaidBy(v))
           out2 == BookedIn(ledger', ReturnedTo(v))
           in2 == BookedIn(ledger', PaidBy(v))
<1>1. /\ ledger \in LedgerRows /\ ledger' \in LedgerRows
      /\ balance \in [Users -> Nat] /\ spent \in [Users -> Nat]
  BY DEF Inv, TypeOK, LedgerRows
<1>2. PaidBy(v) \in SUBSET Keys /\ ReturnedTo(v) \in SUBSET Keys
  BY DEF PaidBy, ReturnedTo, Keys
<1>3. in \in Nat /\ out \in Nat
  BY <1>1, <1>2, BookedNat
<1>4. balance[v] + spent[v] + out = in
  BY BalancesOf
<1>5. ASSUME UNCHANGED walletVars PROVE balance'[v] + spent'[v] + out2 = in2
  BY <1>4, <1>5 DEF walletVars
<1> HIDE DEF out, in, out2, in2
<1>6. ASSUME NEW t \in Tasks, CreditTopup(t) PROVE balance'[v] + spent'[v] + out2 = in2
  <2> DEFINE p == task[t].key
  <2>1. p \in Payments /\ p \in Keys /\ p \notin Refunds
    BY <1>6, PaymentsAssumption DEF CreditTopup, Keys
  <2>2. UNCHANGED spent
    BY <1>6 DEF CreditTopup
  <2>3. \/ ledger' = [ledger EXCEPT ![p] =
               [rows |-> ledger[p].rows + 1, coins |-> ledger[p].coins + Paid[p]]]
           /\ balance' = [balance EXCEPT ![Payer[p]] = balance[Payer[p]] + Paid[p]]
        \/ UNCHANGED <<balance, ledger>>
    BY <1>6 DEF CreditTopup, Insert
  <2> HIDE DEF p
  <2>4. CASE UNCHANGED <<balance, ledger>>
    BY <1>5, <2>2, <2>4 DEF walletVars
  <2>5. CASE /\ ledger' = [ledger EXCEPT ![p] =
                [rows |-> ledger[p].rows + 1, coins |-> ledger[p].coins + Paid[p]]]
             /\ balance' = [balance EXCEPT ![Payer[p]] = balance[Payer[p]] + Paid[p]]
    <3>1. /\ ledger'[p].coins = ledger[p].coins + Paid[p]
          /\ \A x \in Keys \ {p} : ledger'[x] = ledger[x]
      BY <1>1, <2>1, <2>5 DEF LedgerRows
    <3>2. Paid[p] \in Nat
      BY <2>1, PaymentsAssumption
    <3>3. /\ in2 = in + (IF p \in PaidBy(v) THEN Paid[p] ELSE 0)
          /\ out2 = out + (IF p \in ReturnedTo(v) THEN Paid[p] ELSE 0)
      BY <1>1, <1>2, <2>1, <3>1, <3>2, BookingAdds DEF in, in2, out, out2
    <3>4. p \notin ReturnedTo(v) /\ (p \in PaidBy(v) <=> Payer[p] = v)
      BY <2>1 DEF ReturnedTo, PaidBy
    <3>5. balance'[v] = balance[v] + (IF Payer[p] = v THEN Paid[p] ELSE 0)
      BY <1>1, <2>5, <3>2
    <3> QED
      BY <1>1, <1>3, <1>4, <2>2, <3>2, <3>3, <3>4, <3>5
  <2> QED
    BY <2>3, <2>4, <2>5
<1>7. ASSUME NEW t \in Tasks, DebitRefund(t) PROVE balance'[v] + spent'[v] + out2 = in2
  <2> DEFINE r == task[t].key
             u == Payer[RefundOf[r]]
             c == Clamped(u, Returned[r])
  <2>1. r \in Refunds /\ r \in Keys /\ r \notin Payments /\ u \in Users
    BY <1>7, PaymentsAssumption DEF DebitRefund, Keys
  <2>2. UNCHANGED spent
    BY <1>7 DEF DebitRefund
  <2>3. c \in Nat /\ c <= balance[u]
    BY <2>1, PaymentsAssumption, ClampedBounds DEF Inv
  <2>4. \/ ledger' = [ledger EXCEPT ![r] =
               [rows |-> ledger[r].rows + 1, coins |-> ledger[r].coins + c]]
           /\ balance' = [balance EXCEPT ![u] = balance[u] - c]
        \/ UNCHANGED <<balance, ledger>>
    BY <1>7 DEF DebitRefund, Insert
  <2>5. r \notin PaidBy(v) /\ (r \in ReturnedTo(v) <=> u = v)
    BY <2>1 DEF ReturnedTo, PaidBy
  <2> HIDE DEF r, u, c
  <2>6. CASE UNCHANGED <<balance, ledger>>
    BY <1>5, <2>2, <2>6 DEF walletVars
  <2>7. CASE /\ ledger' = [ledger EXCEPT ![r] =
                [rows |-> ledger[r].rows + 1, coins |-> ledger[r].coins + c]]
             /\ balance' = [balance EXCEPT ![u] = balance[u] - c]
    <3>1. /\ ledger'[r].coins = ledger[r].coins + c
          /\ \A x \in Keys \ {r} : ledger'[x] = ledger[x]
      BY <1>1, <2>1, <2>7 DEF LedgerRows
    <3>2. /\ in2 = in + (IF r \in PaidBy(v) THEN c ELSE 0)
          /\ out2 = out + (IF r \in ReturnedTo(v) THEN c ELSE 0)
      BY <1>1, <1>2, <2>1, <2>3, <3>1, BookingAdds DEF in, in2, out, out2
    <3>3. balance'[v] = balance[v] - (IF u = v THEN c ELSE 0)
      BY <1>1, <2>3, <2>7
    <3> QED
      BY <1>1, <1>3, <1>4, <2>2, <2>3, <2>5, <3>2, <3>3
  <2> QED
    BY <2>4, <2>6, <2>7
<1>8. ASSUME NEW u \in Users, Spend(u) PROVE balance'[v] + spent'[v] + out2 = in2
  <2>1. in2 = in /\ out2 = out
    BY <1>8 DEF Spend, in, in2, out, out2
  <2>2. balance'[v] + spent'[v] = balance[v] + spent[v]
    BY <1>1, <1>8 DEF Spend
  <2> QED
    BY <1>1, <1>3, <1>4, <2>1, <2>2
<1>9. ASSUME NEW p \in Payments, Capture(p) PROVE UNCHANGED walletVars
  BY <1>9 DEF Capture
<1>10. ASSUME NEW r \in Refunds, IssueRefund(r) PROVE UNCHANGED walletVars
  BY <1>10 DEF IssueRefund
<1>11. ASSUME NEW t \in Tasks, NEW p \in Payments, VerifyFetch(t, p) PROVE UNCHANGED walletVars
  BY <1>11 DEF VerifyFetch
<1>12. ASSUME NEW t \in Tasks, NEW k \in Keys, Deliver(t, k) PROVE UNCHANGED walletVars
  BY <1>12 DEF Deliver, WebhookCapture, WebhookRefund
<1>13. ASSUME NEW t \in Tasks, VerifyCheck(t) \/ Answer(t) \/ Crash(t)
       PROVE  UNCHANGED walletVars
  BY <1>13 DEF VerifyCheck, Answer, Crash
<1>14. ASSUME UNCHANGED vars PROVE UNCHANGED walletVars
  BY <1>14 DEF vars
<1>15. balance'[v] + spent'[v] + out2 = in2
  BY <1>5, <1>6, <1>7, <1>8, <1>9, <1>10, <1>11, <1>12, <1>13, <1>14 DEF Next, HandlerStep
<1> QED
  BY <1>15 DEF out2, in2

\* _credit_topup, _debit_refund and debit_wallet_clamped: the wallet is never
\* negative and is what its ledger rows add up to, for any number of payments
\* and refunds, also where a claw-back found less than it was to take.
THEOREM LedgerSoundHolds == Spec => []LedgerSound
<1>1. Init => LedgerBalances
  <2> SUFFICES ASSUME Init, NEW u \in Users
               PROVE  balance[u] + spent[u] + BookedIn(ledger, ReturnedTo(u))
                          = BookedIn(ledger, PaidBy(u))
    BY BalancesOf
  <2>1. ASSUME NEW ids \in SUBSET Keys PROVE BookedIn(ledger, ids) = 0
    <3> DEFINE f == [k \in ids |-> ledger[k].coins]
               z == [k \in ids |-> 0]
    <3>1. BookedIn(ledger, ids) = SumFunctionOnSet(f, ids)
      BY DEF BookedIn, SumFunction
    <3>2. f = z
      BY DEF Init
    <3> QED
      BY <3>1, <3>2, PaymentsAssumption, FS_Subset, SumZero
  <2>2. PaidBy(u) \in SUBSET Keys /\ ReturnedTo(u) \in SUBSET Keys
    BY DEF PaidBy, ReturnedTo, Keys
  <2> QED
    BY <2>1, <2>2 DEF Init
<1>2. Inv /\ LedgerBalances => LedgerSound
  BY DEF Inv, LedgerSound
<1> QED
  BY <1>1, <1>2, InitInv, NextInv, BalancesStep, PTL DEF Spec

-----------------------------------------------------------------------------
(* Pricing.                                                                *)

(* The calendar.                                                           *)

LEMMA Lengths ==
    DayLen \in Nat \ {0} /\ WeekLen \in Nat \ {0} /\ DefaultRate \in Nat /\ Prices \subseteq Nat
BY PricingAssumption

LEMMA Product ==
    ASSUME NEW a \in Nat, NEW b \in Nat, NEW n \in Nat
    PROVE  a * n \in Nat /\ (a + b) * n = a * n + b * n /\ (a <= b => a * n <= b * n)
<1>1. a * n \in Nat /\ b * n \in Nat /\ (a + b) * n = a * n + b * n
  OBVIOUS
<1>2. ASSUME a <= b PROVE a * n <= b * n
  <2>1. PICK k \in Nat : b = a + k
    <3>1. b - a \in Nat /\ b = a + (b - a)
      BY <1>2
    <3> QED BY <3>1
  <2>2. b * n = a * n + k * n /\ k * n \in Nat
    BY <2>1
  <2> QED BY <1>1, <2>2
<1> QED BY <1>1, <1>2

LEMMA DivMod ==
    ASSUME NEW x \in Nat, NEW n \in Nat \ {0}
    PROVE  /\ x \div n \in Nat /\ x % n \in 0 .. n - 1
           /\ x = (x \div n) * n + (x % n)
OBVIOUS

LEMMA DivUnique ==
    ASSUME NEW q \in Nat, NEW r \in Nat, NEW n \in Nat \ {0}, r < n
    PROVE  (q * n + r) \div n = q /\ (q * n + r) % n = r
<1>1. q * n + r \in Nat
  BY Product
<1>2. PICK x \in Nat : x = q * n + r
  BY <1>1
<1>3. PICK p \in Nat : p = x \div n
  BY DivMod
<1>4. PICK m \in 0 .. n - 1 : m = x % n
  BY DivMod
<1>5. x = p * n + m
  BY <1>3, <1>4, DivMod
<1>6. p * n \in Nat /\ q * n \in Nat
  BY Product
<1>7. ~(p < q)
  <2>1. ASSUME p < q PROVE (p + 1) * n <= q * n /\ (p + 1) * n = p * n + n
    <3>1. p + 1 \in Nat /\ 1 \in Nat /\ n \in Nat /\ p + 1 <= q
      BY <2>1
    <3>2. (p + 1) * n = p * n + 1 * n /\ 1 * n = n
      BY <3>1, Product
    <3> QED BY <3>1, <3>2, Product
  <2> QED BY <1>2, <1>5, <1>6, <2>1
<1>8. ~(q < p)
  <2>1. ASSUME q < p PROVE (q + 1) * n <= p * n /\ (q + 1) * n = q * n + n
    <3>1. q + 1 \in Nat /\ 1 \in Nat /\ n \in Nat /\ q + 1 <= p
      BY <2>1
    <3>2. (q + 1) * n = q * n + 1 * n /\ 1 * n = n
      BY <3>1, Product
    <3> QED BY <3>1, <3>2, Product
  <2> QED BY <1>2, <1>5, <1>6, <2>1
<1>9. p = q
  BY <1>7, <1>8
<1>10. m = r
  BY <1>2, <1>5, <1>6, <1>9
<1> QED BY <1>2, <1>3, <1>4, <1>9, <1>10

Day(t) == t \div DayLen
Minute(t) == t % DayLen

LEMMA Calendar ==
    ASSUME NEW t \in Nat
    PROVE  /\ Day(t) \in Nat /\ Minute(t) \in 0 .. DayLen - 1
           /\ Midnight(t) \in Nat /\ Midnight(t) = Day(t) * DayLen
           /\ t = Midnight(t) + Minute(t)
           /\ Weekday(t) = Day(t) % WeekLen /\ Weekday(t) \in 0 .. WeekLen - 1
<1>1. /\ Day(t) \in Nat /\ Minute(t) \in 0 .. DayLen - 1
      /\ t = Day(t) * DayLen + Minute(t)
  BY DivMod, Lengths DEF Day, Minute
<1>2. Day(t) * DayLen \in Nat
  BY <1>1, Product, Lengths
<1>3. Midnight(t) = Day(t) * DayLen
  BY <1>1, <1>2, Lengths DEF Midnight, Minute
<1>4. Weekday(t) = Day(t) % WeekLen /\ Weekday(t) \in 0 .. WeekLen - 1
  BY <1>1, DivMod, Lengths DEF Weekday, Day
<1> QED BY <1>1, <1>2, <1>3, <1>4

LEMMA MinuteIs ==
    ASSUME NEW t \in Nat
    PROVE  /\ Minute(t) \in Nat /\ Minute(t) < DayLen /\ Midnight(t) \in Nat
           /\ t = Midnight(t) + Minute(t)
<1>1. /\ Minute(t) \in 0 .. DayLen - 1 /\ Midnight(t) \in Nat
      /\ t = Midnight(t) + Minute(t)
  BY Calendar
<1> QED BY <1>1, Lengths

\* The minute m of the day q.
LEMMA Instant ==
    ASSUME NEW q \in Nat, NEW m \in 0 .. DayLen - 1
    PROVE  /\ q * DayLen + m \in Nat
           /\ Day(q * DayLen + m) = q /\ Minute(q * DayLen + m) = m
           /\ Midnight(q * DayLen + m) = q * DayLen
           /\ Weekday(q * DayLen + m) = q % WeekLen
<1>1. q * DayLen \in Nat /\ DayLen \in Nat \ {0} /\ m \in Nat /\ m < DayLen
  BY Product, Lengths
<1>2. PICK x \in Nat : x = q * DayLen + m
  BY <1>1
<1>3. x \div DayLen = q /\ x % DayLen = m
  BY <1>1, <1>2, DivUnique
<1> QED BY <1>1, <1>2, <1>3 DEF Day, Minute, Midnight, Weekday

\* An instant before the end of the day d days after t.
LEMMA Within ==
    ASSUME NEW t \in Nat, NEW d \in Nat, NEW x \in Nat,
           t <= x, x < Midnight(t) + d * DayLen + DayLen
    PROVE  \E k \in 0 .. d :
              /\ Day(x) = Day(t) + k
              /\ Midnight(x) = Midnight(t) + k * DayLen
              /\ Weekday(x) = (Day(t) + k) % WeekLen
<1> DEFINE a == Day(t)
           b == Day(x)
<1>1. /\ a \in Nat /\ Midnight(t) = a * DayLen /\ Midnight(t) <= t
      /\ b \in Nat /\ Midnight(x) = b * DayLen /\ Midnight(x) <= x
      /\ t < Midnight(t) + DayLen /\ x < Midnight(x) + DayLen
      /\ Weekday(x) = b % WeekLen
      /\ DayLen \in Nat /\ a * DayLen \in Nat /\ b * DayLen \in Nat
      /\ d * DayLen \in Nat
  <2>1. a \in Nat /\ Midnight(t) = a * DayLen /\ Midnight(t) \in Nat
        /\ t = Midnight(t) + Minute(t) /\ Minute(t) \in 0 .. DayLen - 1
    BY Calendar
  <2>2. b \in Nat /\ Midnight(x) = b * DayLen /\ Midnight(x) \in Nat
        /\ x = Midnight(x) + Minute(x) /\ Minute(x) \in 0 .. DayLen - 1
        /\ Weekday(x) = b % WeekLen
    BY Calendar
  <2>3. DayLen \in Nat
    BY Lengths
  <2>4. d * DayLen \in Nat
    BY <2>3, Product
  <2> HIDE DEF a, b
  <2> QED BY <2>1, <2>2, <2>3, <2>4
<1> HIDE DEF a, b
<1>2. \A n \in Nat : (n + 1) * DayLen = n * DayLen + DayLen /\ n * DayLen \in Nat
  BY <1>1, Product
<1>3. a <= b
  <2>1. ASSUME b < a PROVE FALSE
    <3>1. b + 1 \in Nat /\ b + 1 <= a
      BY <1>1, <2>1
    <3>2. (b + 1) * DayLen <= a * DayLen
      BY <1>1, <3>1, Product
    <3> QED BY <1>1, <1>2, <3>2
  <2> QED BY <1>1, <2>1
<1>4. b <= a + d
  <2>1. ASSUME a + d < b PROVE FALSE
    <3>1. a + d + 1 \in Nat /\ a + d + 1 <= b /\ a + d \in Nat
      BY <1>1, <2>1
    <3>2. (a + d + 1) * DayLen <= b * DayLen
      BY <1>1, <3>1, Product
    <3>3. (a + d + 1) * DayLen = (a + d) * DayLen + DayLen
      BY <1>2, <3>1
    <3>4. (a + d) * DayLen = a * DayLen + d * DayLen
      BY <1>1, Product
    <3> QED BY <1>1, <3>2, <3>3, <3>4
  <2> QED BY <1>1, <2>1
<1>5. PICK k \in 0 .. d : b = a + k
  <2>1. b - a \in 0 .. d /\ b = a + (b - a)
    BY <1>1, <1>3, <1>4
  <2> QED BY <2>1
<1>6. Midnight(x) = Midnight(t) + k * DayLen
  BY <1>1, <1>5, Product
<1> QED BY <1>1, <1>5, <1>6 DEF a, b

LEMMA DayGrows ==
    ASSUME NEW t \in Nat, NEW x \in Nat, t <= x PROVE Day(t) <= Day(x)
<1> DEFINE a == Day(t)
           b == Day(x)
<1>1. a \in Nat /\ t = a * DayLen + Minute(t) /\ Minute(t) \in Nat /\ a * DayLen \in Nat
  BY Calendar, MinuteIs
<1>2. b \in Nat /\ x = b * DayLen + Minute(x) /\ Minute(x) \in Nat /\ Minute(x) < DayLen
      /\ b * DayLen \in Nat
  BY Calendar, MinuteIs
<1> HIDE DEF a, b
<1>3. ASSUME b < a PROVE FALSE
  <2>1. b + 1 \in Nat /\ b + 1 <= a /\ 1 \in Nat /\ DayLen \in Nat
    BY <1>1, <1>2, <1>3, Lengths
  <2>2. (b + 1) * DayLen <= a * DayLen /\ (b + 1) * DayLen = b * DayLen + 1 * DayLen
    BY <1>1, <1>2, <2>1, Product
  <2> QED BY <1>1, <1>2, <2>1, <2>2
<1> QED BY <1>1, <1>2, <1>3 DEF a, b

\* d days later it is the weekday d further.
LEMMA DaysLater ==
    ASSUME NEW t \in Nat, NEW d \in Nat
    PROVE  Weekday(t + d * DayLen) = (Day(t) + d) % WeekLen
<1> DEFINE a == Day(t)
           m == Minute(t)
<1>1. a \in Nat /\ m \in 0 .. DayLen - 1 /\ t = a * DayLen + m /\ DayLen \in Nat
      /\ a * DayLen \in Nat /\ d * DayLen \in Nat
  BY Calendar, Product, Lengths
<1> HIDE DEF a, m
<1>2. t + d * DayLen = (a + d) * DayLen + m
  <2>1. (a + d) * DayLen = a * DayLen + d * DayLen
    BY <1>1, Product
  <2> QED BY <1>1, <2>1
<1>3. a + d \in Nat
  BY <1>1
<1>4. Weekday((a + d) * DayLen + m) = (a + d) % WeekLen
  BY <1>1, <1>3, Instant
<1> QED BY <1>2, <1>4 DEF a

\* Every weekday comes round within a week.
LEMMA WeekRound ==
    ASSUME NEW a \in Nat, NEW w \in 0 .. WeekLen - 1
    PROVE  \E d \in 1 .. WeekLen : (a + d) % WeekLen = w
<1>1. PICK q \in Nat, r \in 0 .. WeekLen - 1 : a = q * WeekLen + r
  BY DivMod, Lengths
<1>2. WeekLen \in Nat \ {0} /\ q * WeekLen \in Nat /\ (q + 1) * WeekLen = q * WeekLen + WeekLen
  <2>1. WeekLen \in Nat \ {0}
    BY Lengths
  <2>2. (q + 1) * WeekLen = q * WeekLen + 1 * WeekLen /\ q * WeekLen \in Nat
    BY <2>1, Product
  <2> QED BY <2>1, <2>2
<1>3. CASE r < w
  <2>1. w - r \in 1 .. WeekLen /\ a + (w - r) = q * WeekLen + w
    BY <1>1, <1>2, <1>3
  <2>2. (q * WeekLen + w) % WeekLen = w
    BY <1>2, DivUnique
  <2> QED BY <2>1, <2>2
<1>4. CASE w <= r
  <2>1. w - r + WeekLen \in 1 .. WeekLen /\ a + (w - r + WeekLen) = (q + 1) * WeekLen + w
    BY <1>1, <1>2, <1>4
  <2>2. ((q + 1) * WeekLen + w) % WeekLen = w
    BY <1>2, DivUnique
  <2> QED BY <2>1, <2>2
<1> QED BY <1>3, <1>4
-----------------------------------------------------------------------------
(* The slots.                                                              *)

\* What _validate_slot_window lets in.
Slot == {s \in Offered : s.from < s.to}

LEMMA SlotFields ==
    ASSUME NEW s \in Slot
    PROVE  /\ s.from \in Nat /\ s.to \in Nat /\ s.from < s.to /\ s.to <= DayLen
           /\ s.price \in Prices /\ s.price \in Nat
<1>1. s \in [from : 0 .. DayLen, to : 0 .. DayLen,
             days : SUBSET (0 .. WeekLen - 1), price : Prices] /\ s.from < s.to
  BY PricingAssumption DEF Slot
<1>2. s.from \in 0 .. DayLen /\ s.to \in 0 .. DayLen /\ s.price \in Prices /\ s.from < s.to
  BY <1>1
<1>3. Prices \subseteq Nat /\ DayLen \in Nat
  BY Lengths
<1>4. s.price \in Nat
  BY <1>2, <1>3, Zenon
<1>5. s.from \in Nat /\ s.to \in Nat /\ s.to <= DayLen
  BY <1>2, <1>3
<1> QED BY <1>2, <1>4, <1>5, Zenon

OnDay(S, w) == {s \in S : w \in s.days}
Covering(S, t) == {s \in OnDay(S, Weekday(t)) : s.from <= Minute(t) /\ Minute(t) < s.to}
Upcoming(S, t) == {s \in OnDay(S, Weekday(t)) : s.from > Minute(t)}
RateAt(S, t) == IF Covering(S, t) = {} THEN Absent ELSE Earliest(Covering(S, t)).price

\* a comes before b in the resolver's order, or has the same window.
NoLater(a, b) == a.from < b.from \/ (a.from = b.from /\ a.to <= b.to)

LEMMA EarliestIs ==
    ASSUME NEW S \in SUBSET Slot, S # {}
    PROVE  Earliest(S) \in S /\ \A r \in S : NoLater(Earliest(S), r)
<1> DEFINE F == {s.from : s \in S}
<1>1. F \in SUBSET Nat /\ F # {}
  BY SlotFields
<1>2. PICK f \in F : \A g \in F : f <= g
  BY <1>1, LeastNumber
<1> DEFINE T == {s \in S : s.from = f}
           E == {s.to : s \in T}
<1>3. E \in SUBSET Nat /\ E # {}
  BY <1>2, SlotFields
<1>4. PICK e \in E : \A g \in E : e <= g
  BY <1>3, LeastNumber
<1>5. PICK s \in S : s.from = f /\ s.to = e
  BY <1>4
<1>6. ASSUME NEW r \in S PROVE NoLater(s, r)
  <2>1. f <= r.from /\ r.from \in Nat /\ f \in Nat
    BY <1>1, <1>2, SlotFields
  <2>2. r.from = f => e <= r.to
    BY <1>4
  <2> QED BY <1>5, <2>1, <2>2 DEF NoLater
<1>7. Earliest(S) = CHOOSE x \in S : \A r \in S : NoLater(x, r)
  BY DEF Earliest, NoLater
<1> QED BY <1>5, <1>6, <1>7

\* The choice depends only on which slots come first.
LEMMA EarliestSame ==
    ASSUME NEW A, NEW B,
           \A s : (s \in A /\ \A r \in A : NoLater(s, r)) <=> (s \in B /\ \A r \in B : NoLater(s, r))
    PROVE  Earliest(A) = Earliest(B)
<1> DEFINE P(s) == s \in A /\ \A r \in A : NoLater(s, r)
           Q(s) == s \in B /\ \A r \in B : NoLater(s, r)
<1>1. Earliest(A) = (CHOOSE s : P(s)) /\ Earliest(B) = (CHOOSE s : Q(s))
  BY Zenon DEF Earliest, NoLater
<1>2. \A s : P(s) <=> Q(s)
  OBVIOUS
<1> HIDE DEF P, Q
<1>3. (CHOOSE s : P(s)) = (CHOOSE s : Q(s))
  BY <1>2, Zenon
<1> QED BY <1>1, <1>3

LEMMA MinIs ==
    ASSUME NEW T \in SUBSET Nat, T # {}
    PROVE  Min(T) \in T /\ \A n \in T : Min(T) <= n
<1>1. \E n \in T : \A m \in T : n <= m
  BY LeastNumber
<1> QED BY <1>1 DEF Min

\* What _slot_rate_and_bound returns, case by case.
LEMMA Resolved ==
    ASSUME NEW S, NEW t
    PROVE  LET bearing == {d \in 1 .. WeekLen : OnDay(S, Weekday(t + d * DayLen)) # {}}
               w == SlotRateAndBound(S, t)
           IN  /\ w.rate = RateAt(S, t)
               /\ Covering(S, t) # {} => w.bound = Midnight(t) + Earliest(Covering(S, t)).to
               /\ Covering(S, t) = {} /\ Upcoming(S, t) # {}
                    => w.bound = Midnight(t) + Min({s.from : s \in Upcoming(S, t)})
               /\ Covering(S, t) = {} /\ Upcoming(S, t) = {} /\ bearing = {}
                    => w.bound = Never
               /\ Covering(S, t) = {} /\ Upcoming(S, t) = {} /\ bearing # {}
                    => w.bound = Midnight(t) + Min(bearing) * DayLen
                         + Min({s.from : s \in OnDay(S, Weekday(t + Min(bearing) * DayLen))})
               /\ w = [rate |-> w.rate, bound |-> w.bound]
BY DEF SlotRateAndBound, RateAt, Covering, Upcoming, OnDay, Minute

\* The same day later.
LEMMA SameDay ==
    ASSUME NEW t \in Nat, NEW x \in Nat, t <= x,
           x < Midnight(t) + DayLen
    PROVE  /\ Midnight(x) = Midnight(t) /\ Weekday(x) = Weekday(t)
           /\ Minute(x) = x - Midnight(t) /\ Minute(t) <= Minute(x)
<1>1. /\ Midnight(t) \in Nat /\ t = Midnight(t) + Minute(t) /\ Minute(t) \in 0 .. DayLen - 1
      /\ x = Midnight(x) + Minute(x) /\ Minute(x) \in 0 .. DayLen - 1
      /\ Weekday(t) = Day(t) % WeekLen /\ Day(t) \in Nat /\ DayLen \in Nat
  BY Calendar, Lengths
<1>2. 0 * DayLen = 0 /\ 0 \in Nat
  BY <1>1
<1>3. PICK k \in 0 .. 0 : /\ Midnight(x) = Midnight(t) + k * DayLen
                          /\ Weekday(x) = (Day(t) + k) % WeekLen
  <2>1. x < Midnight(t) + 0 * DayLen + DayLen
    BY <1>1, <1>2
  <2> QED BY <1>2, <2>1, Within
<1>4. k = 0 /\ Day(t) + 0 = Day(t)
  BY <1>1
<1> QED BY <1>1, <1>2, <1>3, <1>4

LEMMA CoveredUntil ==
    ASSUME NEW S \in SUBSET Slot, NEW t \in Nat,
           Covering(S, t) # {}
    PROVE  LET b == Midnight(t) + Earliest(Covering(S, t)).to
           IN  /\ b \in Nat /\ t < b
               /\ \A x \in Nat : t <= x /\ x < b => RateAt(S, x) = RateAt(S, t)
<1> DEFINE C == Covering(S, t)
<1>1. PICK e \in C : e = Earliest(C) /\ \A r \in C : NoLater(e, r)
  <2>1. C \in SUBSET Slot
    BY DEF Covering, OnDay
  <2> QED BY <2>1, EarliestIs
<1>2. /\ e \in S /\ Weekday(t) \in e.days /\ e.from <= Minute(t) /\ Minute(t) < e.to
      /\ e.from \in Nat /\ e.to \in Nat /\ e.to <= DayLen
  BY SlotFields DEF Covering, OnDay
<1>3. /\ Midnight(t) \in Nat /\ t = Midnight(t) + Minute(t) /\ Minute(t) \in Nat
      /\ DayLen \in Nat
  BY Calendar, Lengths
<1>4. ASSUME NEW x \in Nat, t <= x, x < Midnight(t) + e.to PROVE RateAt(S, x) = RateAt(S, t)
  <2> DEFINE X == Covering(S, x)
  <2>1. /\ Weekday(x) = Weekday(t) /\ Minute(t) <= Minute(x) /\ Minute(x) < e.to
        /\ Minute(x) \in Nat
    <3>1. x < Midnight(t) + DayLen
      BY <1>2, <1>3, <1>4
    <3>2. Minute(x) \in Nat
      BY MinuteIs
    <3> QED BY <1>2, <1>3, <1>4, <3>1, <3>2, SameDay
  <2>2. e \in X
    BY <1>2, <1>3, <2>1 DEF Covering, OnDay
  <2>3. ASSUME NEW s \in X PROVE s \in C \/ Minute(t) < s.from
    <3>1. s \in Slot /\ s.from \in Nat /\ s.to \in Nat /\ Minute(x) < s.to
      BY SlotFields DEF Covering, OnDay
    <3> QED BY <1>3, <2>1, <3>1 DEF Covering, OnDay
  <2>4. ASSUME NEW s, NoLater(s, e), s \in C \/ s \in X PROVE s \in C /\ s \in X
    <3>1. s \in Slot /\ s.from \in Nat /\ s.to \in Nat
      BY <2>4, SlotFields DEF Covering, OnDay
    <3>2. CASE s \in X
      <4>1. s.from <= e.from
        BY <1>2, <2>4, <3>1 DEF NoLater
      <4>2. ~(Minute(t) < s.from)
        BY <1>2, <1>3, <3>1, <4>1
      <4> QED BY <2>3, <3>2, <4>2
    <3>3. CASE s \in C
      <4>1. s.from <= Minute(t) /\ Minute(t) < s.to /\ s \in S /\ Weekday(t) \in s.days
        BY <3>3 DEF Covering, OnDay
      <4>2. e.from < s.from \/ (e.from = s.from /\ e.to <= s.to)
        BY <1>1, <3>3 DEF NoLater
      <4>3. e.to <= s.to
        BY <1>2, <2>4, <3>1, <4>2 DEF NoLater
      <4>4. s \in X
        BY <1>2, <1>3, <2>1, <3>1, <4>1, <4>3 DEF Covering, OnDay
      <4> QED BY <3>3, <4>4
    <3> QED BY <2>4, <3>2, <3>3
  <2>5. \A r \in X : NoLater(e, r)
    <3> SUFFICES ASSUME NEW r \in X PROVE NoLater(e, r)
      OBVIOUS
    <3>1. CASE r \in C
      BY <1>1, <3>1
    <3>2. CASE Minute(t) < r.from
      <4>1. r.from \in Nat
        BY SlotFields DEF Covering, OnDay
      <4> QED BY <1>2, <1>3, <3>2, <4>1 DEF NoLater
    <3> QED BY <2>3, <3>1, <3>2
  <2>6. ASSUME NEW s
        PROVE  (s \in X /\ \A r \in X : NoLater(s, r)) <=> (s \in C /\ \A r \in C : NoLater(s, r))
    <3>1. ASSUME s \in C \/ s \in X, NoLater(s, e), NEW r \in C \cup X
          PROVE  NoLater(s, r)
      <4>1. /\ s.from \in Nat /\ s.to \in Nat /\ r.from \in Nat /\ r.to \in Nat
        BY <3>1, SlotFields DEF Covering, OnDay
      <4>2. NoLater(e, r)
        BY <1>1, <2>5
      <4> QED BY <1>2, <3>1, <4>1, <4>2 DEF NoLater
    <3> QED BY <2>2, <2>4, <3>1
  <2> HIDE DEF X, C
  <2>7. Earliest(X) = Earliest(C)
    BY <2>6, EarliestSame
  <2>8. C # {} /\ X # {}
    BY <2>2
  <2> QED BY <2>7, <2>8 DEF RateAt, X, C
<1>5. Midnight(t) + e.to \in Nat /\ t < Midnight(t) + e.to
  BY <1>2, <1>3
<1> QED BY <1>1, <1>4, <1>5
\* No slot begins before its first minute.
LEMMA FirstSlot ==
    ASSUME NEW S \in SUBSET Slot, S # {}
    PROVE  LET f == Min({s.from : s \in S})
           IN  f \in Nat /\ f < DayLen /\ (\E s \in S : f = s.from)
               /\ \A s \in S : f <= s.from
<1> DEFINE F == {s.from : s \in S}
<1>1. F \in SUBSET Nat /\ F # {}
  BY SlotFields
<1>2. Min(F) \in F /\ \A n \in F : Min(F) <= n
  BY <1>1, MinIs
<1>3. PICK s \in S : Min(F) = s.from
  BY <1>2
<1>4. s.from \in Nat /\ s.from < s.to /\ s.to <= DayLen /\ s.to \in Nat /\ DayLen \in Nat
  BY SlotFields, Lengths
<1> QED BY <1>2, <1>3, <1>4

\* In a gap, before the next slot of the day, no slot begins.
LEMMA GapToday ==
    ASSUME NEW S \in SUBSET Slot, NEW t \in Nat, NEW x \in Nat,
           Covering(S, t) = {}, t <= x, x < Midnight(t) + DayLen,
           \A s \in Upcoming(S, t) : Minute(x) < s.from
    PROVE  Covering(S, x) = {}
<1>1. /\ Weekday(x) = Weekday(t) /\ Minute(t) <= Minute(x)
      /\ Minute(t) \in Nat /\ Minute(x) \in Nat
  BY SameDay, Calendar, Lengths
<1>2. ASSUME NEW s \in Covering(S, x) PROVE FALSE
  <2>1. /\ s \in S /\ Weekday(t) \in s.days /\ s.from <= Minute(x) /\ Minute(x) < s.to
        /\ s.from \in Nat /\ s.to \in Nat
    BY <1>1, SlotFields DEF Covering, OnDay
  <2>2. CASE s.from <= Minute(t)
    <3>1. s \in Covering(S, t)
      BY <1>1, <2>1, <2>2 DEF Covering, OnDay
    <3> QED BY <3>1
  <2>3. CASE s.from > Minute(t)
    <3>1. s \in Upcoming(S, t)
      BY <2>1, <2>3 DEF Upcoming, OnDay
    <3> QED BY <1>1, <2>1, <3>1
  <2> QED BY <1>1, <2>1, <2>2, <2>3
<1> QED BY <1>2

LEMMA GapUntilToday ==
    ASSUME NEW S \in SUBSET Slot, NEW t \in Nat,
           Covering(S, t) = {}, Upcoming(S, t) # {}
    PROVE  LET b == Midnight(t) + Min({s.from : s \in Upcoming(S, t)})
           IN  /\ b \in Nat /\ t < b
               /\ \A x \in Nat : t <= x /\ x < b => RateAt(S, x) = RateAt(S, t)
<1> DEFINE f == Min({s.from : s \in Upcoming(S, t)})
<1>1. Upcoming(S, t) \in SUBSET Slot
  BY DEF Upcoming, OnDay
<1>2. /\ f \in Nat /\ f < DayLen /\ (\E s \in Upcoming(S, t) : f = s.from)
      /\ \A s \in Upcoming(S, t) : f <= s.from
  BY <1>1, FirstSlot
<1>3. /\ Midnight(t) \in Nat /\ t = Midnight(t) + Minute(t) /\ Minute(t) \in Nat
      /\ DayLen \in Nat
  BY Calendar, Lengths
<1>4. Minute(t) < f
  BY <1>2, <1>3 DEF Upcoming
<1> HIDE DEF f
<1>5. ASSUME NEW x \in Nat, t <= x, x < Midnight(t) + f PROVE RateAt(S, x) = RateAt(S, t)
  <2>1. x < Midnight(t) + DayLen
    BY <1>2, <1>3, <1>5
  <2>2. Minute(x) < f /\ Minute(x) \in Nat
    BY <1>2, <1>3, <1>5, <2>1, SameDay
  <2>3. \A s \in Upcoming(S, t) : s.from \in Nat
    BY <1>1, SlotFields
  <2>4. Covering(S, x) = {}
    BY <1>2, <1>5, <2>1, <2>2, <2>3, GapToday
  <2> QED BY <2>4 DEF RateAt
<1>6. Midnight(t) + f \in Nat /\ t < Midnight(t) + f
  BY <1>2, <1>3, <1>4
<1> QED BY <1>5, <1>6 DEF f

Bearing(S, t) == {d \in 1 .. WeekLen : OnDay(S, Weekday(t + d * DayLen)) # {}}

\* The first slot of the next day that has one.
LEMMA GapUntilLater ==
    ASSUME NEW S \in SUBSET Slot, NEW t \in Nat,
           Covering(S, t) = {}, Upcoming(S, t) = {}, Bearing(S, t) # {}
    PROVE  LET d == Min(Bearing(S, t))
               b == Midnight(t) + d * DayLen
                      + Min({s.from : s \in OnDay(S, Weekday(t + d * DayLen))})
           IN  /\ b \in Nat /\ t < b
               /\ \A x \in Nat : t <= x /\ x < b => RateAt(S, x) = RateAt(S, t)
<1> DEFINE d == Min(Bearing(S, t))
           D == OnDay(S, Weekday(t + d * DayLen))
           f == Min({s.from : s \in D})
<1>1. d \in Bearing(S, t) /\ \A n \in Bearing(S, t) : d <= n
  <2>1. Bearing(S, t) \in SUBSET Nat
    BY DEF Bearing
  <2> QED BY <2>1, MinIs
<1>2. d \in 1 .. WeekLen /\ d \in Nat /\ D # {}
  BY <1>1 DEF Bearing
<1>3. D \in SUBSET Slot
  BY DEF OnDay
<1>4. f \in Nat /\ f < DayLen /\ \A s \in D : f <= s.from
  BY <1>2, <1>3, FirstSlot
<1>5. /\ Midnight(t) \in Nat /\ t = Midnight(t) + Minute(t) /\ Minute(t) \in Nat
      /\ Minute(t) < DayLen /\ DayLen \in Nat /\ WeekLen \in Nat
  BY Calendar, Lengths
<1>6. d * DayLen \in Nat /\ DayLen <= d * DayLen
  <2>1. 1 * DayLen <= d * DayLen /\ 1 * DayLen = DayLen /\ d * DayLen \in Nat
    BY <1>2, <1>5, Product
  <2> QED BY <2>1
<1>7. \A k \in Nat : Weekday(t + k * DayLen) = (Day(t) + k) % WeekLen
  BY DaysLater
<1>8. \A k \in 1 .. d - 1 : OnDay(S, (Day(t) + k) % WeekLen) = {}
  <2> SUFFICES ASSUME NEW k \in 1 .. d - 1 PROVE OnDay(S, (Day(t) + k) % WeekLen) = {}
    OBVIOUS
  <2>1. k \in 1 .. WeekLen /\ k \in Nat /\ ~(d <= k)
    BY <1>2, <1>5
  <2>2. k \notin Bearing(S, t)
    BY <1>1, <2>1
  <2> QED BY <1>7, <2>1, <2>2 DEF Bearing
<1>9. D = OnDay(S, (Day(t) + d) % WeekLen)
  BY <1>2, <1>7
<1> HIDE DEF d, D, f
<1>10. ASSUME NEW x \in Nat, t <= x, x < Midnight(t) + d * DayLen + f
       PROVE  RateAt(S, x) = RateAt(S, t)
  <2>1. x < Midnight(t) + d * DayLen + DayLen
    BY <1>4, <1>5, <1>6, <1>10
  <2>2. PICK k \in 0 .. d : /\ Midnight(x) = Midnight(t) + k * DayLen
                            /\ Weekday(x) = (Day(t) + k) % WeekLen
    BY <1>2, <1>10, <2>1, Within
  <2>3. x = Midnight(x) + Minute(x) /\ Minute(x) \in Nat /\ Minute(x) < DayLen
    BY MinuteIs
  <2>4. CASE k = 0
    <3>1. Midnight(x) = Midnight(t)
      BY <1>5, <2>2, <2>4
    <3>2. x < Midnight(t) + DayLen
      BY <1>5, <2>3, <3>1
    <3>3. Covering(S, x) = {}
      BY <1>10, <3>2, GapToday
    <3> QED BY <3>3 DEF RateAt
  <2>5. CASE k \in 1 .. d - 1
    <3>1. Covering(S, x) = {}
      BY <1>8, <2>2, <2>5 DEF Covering
    <3> QED BY <3>1 DEF RateAt
  <2>6. CASE k = d
    <3>1. Minute(x) < f
      BY <1>4, <1>5, <1>6, <1>10, <2>2, <2>3, <2>6
    <3>2. ASSUME NEW s \in D PROVE ~(s.from <= Minute(x))
      <4>1. s.from \in Nat /\ f <= s.from
        BY <1>3, <1>4, SlotFields
      <4> QED BY <1>4, <2>3, <3>1, <4>1
    <3>3. Covering(S, x) = {}
      BY <1>9, <2>2, <2>6, <3>2 DEF Covering
    <3> QED BY <3>3 DEF RateAt
  <2> QED BY <1>2, <2>2, <2>4, <2>5, <2>6
<1>11. Midnight(t) + d * DayLen + f \in Nat /\ t < Midnight(t) + d * DayLen + f
  BY <1>4, <1>5, <1>6
<1> QED BY <1>10, <1>11 DEF d, D, f

LEMMA NoSlotEver ==
    ASSUME NEW S \in SUBSET Slot, NEW t \in Nat, NEW x \in Nat,
           Bearing(S, t) = {}
    PROVE  RateAt(S, x) = Absent
<1>1. Day(t) \in Nat /\ Weekday(x) \in 0 .. WeekLen - 1
  BY Calendar
<1>2. PICK d \in 1 .. WeekLen : (Day(t) + d) % WeekLen = Weekday(x)
  BY <1>1, WeekRound
<1>3. Weekday(t + d * DayLen) = Weekday(x)
  BY <1>2, DaysLater
<1>4. OnDay(S, Weekday(x)) = {}
  BY <1>3 DEF Bearing
<1> QED BY <1>4 DEF RateAt, Covering

\* The rate holds until the boundary _slot_rate_and_bound gives.
Steady(S, t) ==
    LET b == SlotRateAndBound(S, t).bound
    IN  /\ b \in Nat \cup {Never} /\ (b # Never => t < b)
        /\ \A x \in Nat : t <= x /\ (b = Never \/ x < b) => RateAt(S, x) = RateAt(S, t)

LEMMA SlotsSteady ==
    ASSUME NEW S \in SUBSET Slot, NEW t \in Nat
    PROVE  Steady(S, t)
<1>1. ASSUME NEW b \in Nat, SlotRateAndBound(S, t).bound = b, t < b,
             \A x \in Nat : t <= x /\ x < b => RateAt(S, x) = RateAt(S, t)
      PROVE  Steady(S, t)
  <2>1. b # Never
    BY DEF Never
  <2> QED BY <1>1, <2>1 DEF Steady
<1>2. CASE Covering(S, t) # {}
  BY <1>1, <1>2, Resolved, CoveredUntil
<1>3. CASE Covering(S, t) = {} /\ Upcoming(S, t) # {}
  BY <1>1, <1>3, Resolved, GapUntilToday
<1>4. CASE Covering(S, t) = {} /\ Upcoming(S, t) = {} /\ Bearing(S, t) # {}
  BY <1>1, <1>4, Resolved, GapUntilLater DEF Bearing
<1>5. CASE Covering(S, t) = {} /\ Upcoming(S, t) = {} /\ Bearing(S, t) = {}
  <2>1. SlotRateAndBound(S, t).bound = Never
    BY <1>5, Resolved DEF Bearing
  <2>2. \A x \in Nat : RateAt(S, x) = Absent
    BY <1>5, NoSlotEver
  <2> QED BY <2>1, <2>2 DEF Steady
<1> QED BY <1>2, <1>3, <1>4, <1>5
-----------------------------------------------------------------------------
(* The price in force.                                                     *)

\* A finite set has a member with the largest value.
LEMMA Largest ==
    ASSUME NEW S, IsFiniteSet(S), S # {}, NEW f \in [S -> Nat]
    PROVE  \E x \in S : \A y \in S : f[y] <= f[x]
<1> DEFINE A == {a \in SUBSET S : \E n \in S : a = {m \in S : f[n] <= f[m]}}
<1>1. A \in SUBSET SUBSET S
  OBVIOUS
<1>2. A # {}
  <2>1. PICK n \in S : TRUE
    OBVIOUS
  <2>2. {m \in S : f[n] <= f[m]} \in A
    OBVIOUS
  <2> QED BY <2>2
<1> HIDE DEF A
<1>3. PICK a \in A : \A b \in A : b \subseteq a => b = a
  BY <1>1, <1>2, LeastSubset
<1>4. PICK n \in S : a = {m \in S : f[n] <= f[m]}
  BY <1>3 DEF A
<1>5. ASSUME NEW y \in S, f[n] < f[y] PROVE FALSE
  <2> DEFINE b == {m \in S : f[y] <= f[m]}
  <2>1. b \in A
    BY DEF A
  <2>2. n \in a /\ n \notin b
    BY <1>4, <1>5
  <2>3. b \subseteq a
    BY <1>4, <1>5
  <2> HIDE DEF b
  <2> QED BY <1>3, <2>1, <2>2, <2>3
<1>6. \A y \in S : f[y] <= f[n]
  BY <1>5
<1> QED BY <1>6

LEMMA MaxIs ==
    ASSUME NEW T \in SUBSET Nat, NEW x \in T, \A y \in T : y <= x
    PROVE  Max(T) \in Nat /\ \A y \in T : y <= Max(T)
<1>1. \A y \in T : x >= y
  OBVIOUS
<1>2. Max(T) \in T /\ \A y \in T : Max(T) >= y
  BY <1>1 DEF Max
<1> QED BY <1>2

\* The dearest of a set of slots and a flat price.
LEMMA Dearest ==
    ASSUME NEW R \in SUBSET Slot, IsFiniteSet(R), NEW p \in Nat
    PROVE  LET M == {p} \cup {s.price : s \in R}
           IN  Max(M) \in Nat /\ \A n \in M : n <= Max(M)
<1> DEFINE M == {p} \cup {s.price : s \in R}
<1>1. M \in SUBSET Nat
  BY SlotFields
<1>2. \E x \in M : \A y \in M : y <= x
  <2>1. CASE R = {}
    BY <2>1
  <2>2. CASE R # {}
    <3> DEFINE f == [s \in R |-> s.price]
    <3>1. f \in [R -> Nat]
      BY SlotFields
    <3>2. PICK s \in R : \A r \in R : f[r] <= f[s]
      BY <2>2, <3>1, Largest
    <3>3. s.price \in M /\ s.price \in Nat /\ \A r \in R : r.price <= s.price
      BY <3>2, SlotFields
    <3>4. CASE p <= s.price
      BY <3>3, <3>4
    <3>5. CASE s.price < p
      <4>1. \A r \in R : r.price \in Nat /\ r.price <= p
        BY <3>3, <3>5, SlotFields
      <4> QED BY <4>1
    <3> QED BY <3>3, <3>4, <3>5
  <2> QED BY <2>1, <2>2
<1> HIDE DEF M
<1>3. Max(M) \in Nat /\ \A n \in M : n <= Max(M)
  BY <1>1, <1>2, MaxIs
<1> QED BY <1>3 DEF M

\* The rows of the tables; a link never dangles.
Tables ==
    /\ price \in [Tariffs -> Prices \cup {DefaultRate, Absent}]
    /\ slots \in [Tariffs -> SUBSET Slot]
    /\ \A t \in Tariffs : IsFiniteSet(slots[t])
    /\ \A t \in Tariffs : price[t] = Absent => slots[t] = {}
    /\ link \in [Levels -> Tariffs \cup {NoTariff}]
    /\ \A l \in Levels : link[l] # NoTariff => price[link[l]] # Absent

LEMMA EffectiveIs ==
    ASSUME Tables
    PROVE  /\ Effective \in Tariffs \cup {NoTariff}
           /\ Effective # NoTariff => /\ Effective \in Tariffs
                                      /\ price[Effective] \in Nat
                                      /\ slots[Effective] \in SUBSET Slot
                                      /\ IsFiniteSet(slots[Effective])
<1>1. "plug" \in Levels /\ "group" \in Levels /\ "tenant" \in Levels
  BY DEF Levels
<1>2. PICK l \in Levels : Effective = link[l]
  BY <1>1 DEF Effective
<1>3. Effective \in Tariffs \cup {NoTariff} /\ (Effective # NoTariff => price[Effective] # Absent)
  BY <1>2 DEF Tables
<1>4. ASSUME Effective # NoTariff
      PROVE  Effective \in Tariffs /\ price[Effective] \in Nat
  <2>1. Effective \in Tariffs
    BY <1>3, <1>4
  <2>2. price[Effective] \in Prices \cup {DefaultRate, Absent} /\ price[Effective] # Absent
    BY <1>3, <1>4, <2>1 DEF Tables
  <2> QED BY <2>1, <2>2, Lengths
<1> QED BY <1>3, <1>4 DEF Tables

LEMMA RateAtIs ==
    ASSUME NEW S \in SUBSET Slot, NEW t
    PROVE  /\ RateAt(S, t) \in Nat \cup {Absent}
           /\ RateAt(S, t) # Absent => \E s \in Covering(S, t) : RateAt(S, t) = s.price
<1>1. Covering(S, t) \in SUBSET Slot
  BY DEF Covering, OnDay
<1>2. ASSUME Covering(S, t) # {} PROVE \E s \in Covering(S, t) : RateAt(S, t) = s.price
  BY <1>1, <1>2, EarliestIs DEF RateAt
<1>3. \A s \in Covering(S, t) : s.price \in Nat
  BY <1>1, SlotFields
<1> QED BY <1>2, <1>3 DEF RateAt

\* resolve_rate_window.
LEMMA WindowIs ==
    ASSUME Tables, NEW t
    PROVE  /\ Effective = NoTariff
                => RateWindow(t).rate = DefaultRate /\ RateWindow(t).bound = Never
           /\ Effective # NoTariff
                => /\ RateWindow(t).bound = SlotRateAndBound(slots[Effective], t).bound
                   /\ RateWindow(t).rate = IF RateAt(slots[Effective], t) = Absent
                                           THEN price[Effective]
                                           ELSE RateAt(slots[Effective], t)
           /\ RateWindow(t) = [rate |-> RateWindow(t).rate, bound |-> RateWindow(t).bound]
<1>1. CASE Effective = NoTariff
  BY <1>1 DEF RateWindow
<1>2. CASE Effective # NoTariff
  <2>1. PICK w : w = SlotRateAndBound(slots[Effective], t)
    OBVIOUS
  <2>2. w.rate = RateAt(slots[Effective], t) /\ w = [rate |-> w.rate, bound |-> w.bound]
    BY <2>1, Resolved
  <2>3. RateWindow(t) = [rate |-> IF w.rate = Absent THEN price[Effective] ELSE w.rate,
                         bound |-> w.bound]
    <3>1. RateWindow(t) = [w EXCEPT !.rate = IF w.rate = Absent THEN price[Effective] ELSE w.rate]
      BY <1>2, <2>1 DEF RateWindow
    <3> QED BY <2>2, <3>1
  <2> QED BY <1>2, <2>1, <2>2, <2>3
<1> QED BY <1>1, <1>2

\* The rate of every instant, under the tables as they stand.
Rates == [x \in Nat |-> RateWindow(x).rate]

\* A window's rate holds until its bound.
LEMMA WindowSteady ==
    ASSUME Tables, NEW t \in Nat
    PROVE  /\ RateWindow(t).rate = Rates[t] /\ Rates[t] \in Nat
           /\ RateWindow(t).bound \in Nat \cup {Never}
           /\ RateWindow(t).bound # Never => t < RateWindow(t).bound
           /\ \A x \in Nat :
                t <= x /\ (RateWindow(t).bound = Never \/ x < RateWindow(t).bound)
                  => Rates[x] = Rates[t]
<1>1. \A x \in Nat : Rates[x] = RateWindow(x).rate
  BY DEF Rates
<1>2. CASE Effective = NoTariff
  BY <1>1, <1>2, WindowIs, Lengths
<1>3. CASE Effective # NoTariff
  <2>1. PICK S \in SUBSET Slot, p \in Nat : S = slots[Effective] /\ p = price[Effective]
    BY <1>3, EffectiveIs
  <2>2. \A x \in Nat : Rates[x] = IF RateAt(S, x) = Absent THEN p ELSE RateAt(S, x)
    BY <1>1, <1>3, <2>1, WindowIs
  <2>3. RateWindow(t).bound = SlotRateAndBound(S, t).bound
    BY <1>3, <2>1, WindowIs
  <2>4. RateAt(S, t) \in Nat \cup {Absent}
    BY RateAtIs
  <2>5. Steady(S, t)
    BY SlotsSteady
  <2>6. Rates[t] \in Nat /\ RateWindow(t).rate = Rates[t]
    BY <1>1, <2>2, <2>4
  <2>7. /\ RateWindow(t).bound \in Nat \cup {Never}
        /\ RateWindow(t).bound # Never => t < RateWindow(t).bound
    BY <2>3, <2>5 DEF Steady
  <2>8. \A x \in Nat :
           t <= x /\ (RateWindow(t).bound = Never \/ x < RateWindow(t).bound)
             => RateAt(S, x) = RateAt(S, t)
    BY <2>3, <2>5 DEF Steady
  <2> QED BY <2>2, <2>6, <2>7, <2>8
<1> QED BY <1>2, <1>3

\* max_rate_over_window is not exceeded within the window.
LEMMA HoldCovers ==
    ASSUME Tables, NEW t \in Nat, NEW dur \in Nat
    PROVE  /\ MaxRateOver(t, dur) \in Nat
           /\ \A x \in Nat : t <= x /\ (dur = 0 \/ x < t + dur)
                => Rates[x] <= MaxRateOver(t, dur)
<1>1. CASE Effective = NoTariff
  BY <1>1, WindowIs, WindowSteady, Lengths DEF MaxRateOver
<1>2. CASE Effective # NoTariff
  <2>1. PICK S \in SUBSET Slot, p \in Nat :
           S = slots[Effective] /\ p = price[Effective] /\ IsFiniteSet(S)
    BY <1>2, EffectiveIs
  <2> DEFINE span == IF dur = 0 THEN DayLen ELSE dur
             touched == {d \in 0 .. (t + span) \div DayLen : d >= t \div DayLen}
             meets(s) == \E d \in touched :
                /\ (d % WeekLen) \in s.days
                /\ d * DayLen + s.from < t + span
                /\ d * DayLen + s.to > t
             R == {r \in S : span >= DayLen \/ meets(r)}
             M == {p} \cup {s.price : s \in R}
  <2>2. MaxRateOver(t, dur) = Max(M)
    BY <1>2, <2>1 DEF MaxRateOver
  <2>3. R \in SUBSET Slot /\ IsFiniteSet(R)
    BY <2>1, FS_Subset
  <2>5. Max(M) \in Nat /\ \A n \in M : n <= Max(M)
    <3> HIDE DEF R
    <3> QED BY <2>3, Dearest
  <2>6. ASSUME NEW x \in Nat, t <= x, dur = 0 \/ x < t + dur PROVE Rates[x] \in M
    <3>1. Rates[x] = IF RateAt(S, x) = Absent THEN p ELSE RateAt(S, x)
      BY <1>2, <2>1, WindowIs DEF Rates
    <3>2. CASE RateAt(S, x) = Absent
      BY <3>1, <3>2
    <3>3. CASE RateAt(S, x) # Absent
      <4>1. PICK s \in Covering(S, x) : RateAt(S, x) = s.price
        BY <3>3, RateAtIs
      <4>2. /\ s \in S /\ Weekday(x) \in s.days /\ s.from <= Minute(x) /\ Minute(x) < s.to
            /\ s.from \in Nat /\ s.to \in Nat
        BY SlotFields DEF Covering, OnDay
      <4>3. CASE dur = 0
        <5>1. s \in R
          BY <4>2, <4>3, Lengths
        <5> HIDE DEF R
        <5> QED BY <3>1, <3>3, <4>1, <5>1
      <4>4. CASE dur # 0
        <5>1. span = dur /\ x < t + dur
          BY <2>6, <4>4
        <5> HIDE DEF span
        <5>2. Day(x) \in touched
          <6>1. /\ Day(x) \in Nat /\ Day(t) \in Nat /\ Day(t + dur) \in Nat /\ t + dur \in Nat
            BY Calendar
          <6>2. Day(t) <= Day(x) /\ Day(x) <= Day(t + dur)
            BY <2>6, <5>1, <6>1, DayGrows
          <6> QED BY <5>1, <6>1, <6>2 DEF Day
        <5>3. meets(s)
          <6>1. /\ Day(x) % WeekLen = Weekday(x)
                /\ x = Day(x) * DayLen + Minute(x) /\ Day(x) * DayLen \in Nat /\ Minute(x) \in Nat
            BY Calendar, MinuteIs
          <6>2. Day(x) * DayLen + s.from < t + span /\ Day(x) * DayLen + s.to > t
            BY <2>6, <4>2, <5>1, <6>1
          <6> HIDE DEF touched
          <6> QED BY <4>2, <5>2, <6>1, <6>2
        <5> HIDE DEF meets, touched
        <5>4. s \in R
          BY <4>2, <5>3
        <5> HIDE DEF R
        <5> QED BY <3>1, <3>3, <4>1, <5>4
      <4> QED BY <4>3, <4>4
    <3> QED BY <3>2, <3>3
  <2> HIDE DEF M
  <2> QED BY <2>2, <2>5, <2>6
<1> QED BY <1>1, <1>2
-----------------------------------------------------------------------------
(* The sessions.                                                           *)

BusyRow(r) == r.st \in {"resolved", "active"}

\* Energy metered so far is billed at the rates it was metered at, and covers
\* the counter's last reading with what was banked.
Balanced(r) ==
    /\ r.from <= r.energy /\ r.settled + (r.energy - r.from) * r.rate = r.owed
    /\ r.offset + r.last <= r.energy

\* The rate of the row is the one in force until the row falls due.
Ahead(r) ==
    \A x \in Nat : now <= x /\ (r.until = Never \/ x < r.until) => Rates[x] = r.rate

\* From a on no rate of the session's own window exceeds what its hold was
\* sized with.
HeldFrom(r, a) ==
    \A x \in Nat : a <= x /\ (r.ends = Never \/ x < r.ends) => Rates[x] <= r.maxRate
HeldNow(r) == r.ends = Never \/ now < r.ends => r.rate <= r.maxRate

\* What a frame's handler carries is the segment of the row, or late.
Carried(r) == \A p \in r.push : ~p.late => p.seg = Segment(r)

Pending(r) == \E p \in r.push : p.new /\ ~p.late

RowSound(r) ==
    /\ Balanced(r) /\ (BusyRow(r) => Carried(r))
    /\ BusyRow(r) /\ ~r.lost => Ahead(r)
    /\ BusyRow(r) /\ ~r.edited => HeldFrom(r, now) /\ HeldNow(r)

\* The reaper's instant has passed, and the sessions it found had begun.
ScanSound ==
    \A s \in scan.ids :
       /\ scan.at \in 0 .. now
       /\ sess[s].st \in {"active", "done"}
       /\ sess[s].st = "active" /\ ~sess[s].edited => HeldFrom(sess[s], scan.at)

OneBusy == \A r, s \in Sessions : BusyRow(sess[r]) /\ BusyRow(sess[s]) => r = s

\* A mirror not left behind is the segment of the session.
Mirrored ==
    \A s \in Sessions :
       Active(s) /\ sess[s].todo = {} /\ ~skew /\ ~Pending(sess[s]) => Segment(sess[s]) = live

CheckedShape == \A c \in checked : c.tariff \in Tariffs /\ c.new \in Slot

PricingShape ==
    /\ now \in 0 .. MaxTime /\ edits \in 0 .. MaxEdits /\ skew \in BOOLEAN
    /\ sess \in [Sessions -> Row]
    /\ live \in [rate : Nat \cup {Absent}, settled : Nat, from : 0 .. MaxEnergy]
    /\ scan \in [at : (0 .. MaxTime) \cup {Never}, ids : SUBSET Sessions]

RowsSound == \A s \in Sessions : RowSound(sess[s])

PricingInv ==
    /\ Tables /\ CheckedShape /\ PricingShape
    /\ RowsSound /\ ScanSound /\ OneBusy /\ Mirrored

LEMMA Positive ==
    ASSUME NEW n \in Nat PROVE Max({0, n}) = n
<1>1. n \in {0, n} /\ \A y \in {0, n} : n >= y
  OBVIOUS
<1>2. Max({0, n}) \in {0, n} /\ \A y \in {0, n} : Max({0, n}) >= y
  BY <1>1 DEF Max
<1> QED BY <1>2

LEMMA Distributes ==
    ASSUME NEW a \in Nat, NEW b \in Nat, NEW c \in Nat, NEW n \in Nat, a <= b, b <= c
    PROVE  /\ (b - a) * n \in Nat /\ (c - b) * n \in Nat
           /\ (c - a) * n = (b - a) * n + (c - b) * n
<1>1. PICK j \in Nat : b = a + j
  <2>1. b - a \in Nat /\ b = a + (b - a)
    OBVIOUS
  <2> QED BY <2>1
<1>2. PICK k \in Nat : c = b + k
  <2>1. c - b \in Nat /\ c = b + (c - b)
    OBVIOUS
  <2> QED BY <2>1
<1>3. b - a = j /\ c - b = k /\ c - a = j + k
  BY <1>1, <1>2
<1>4. j * n \in Nat /\ k * n \in Nat /\ (j + k) * n = j * n + k * n
  BY Product
<1> QED BY <1>3, <1>4

\* session_cost of a balanced row is what it owes.
LEMMA CostIs ==
    ASSUME NEW r \in Row, Balanced(r)
    PROVE  /\ r.energy - r.from \in Nat /\ (r.energy - r.from) * r.rate \in Nat
           /\ r.settled + Max({0, r.energy - r.from}) * r.rate = r.owed
           /\ SessionCost(r) = r.owed
<1>1. r.energy \in Nat /\ r.from \in Nat /\ r.rate \in Nat /\ r.settled \in Nat
  BY PricingAssumption DEF Row
<1>2. r.energy - r.from \in Nat
  BY <1>1 DEF Balanced
<1>3. Max({0, r.energy - r.from}) = r.energy - r.from
  BY <1>2, Positive
<1>4. (r.energy - r.from) * r.rate \in Nat
  BY <1>1, <1>2, Product
<1> QED BY <1>2, <1>3, <1>4 DEF Balanced, SessionCost

\* reprice_session_if_due: what was metered stays billed as it was.
SameStart(q, r) ==
    /\ q.st = r.st /\ q.todo = r.todo /\ q.push = r.push /\ q.energy = r.energy
    /\ q.first = r.first /\ q.offset = r.offset /\ q.last = r.last
    /\ q.maxRate = r.maxRate /\ q.ends = r.ends /\ q.owed = r.owed /\ q.edited = r.edited

LEMMA RepriceIs ==
    ASSUME Tables, NEW r \in Row, Balanced(r), NEW at \in Nat
    PROVE  /\ Reprice(r, at) \in Row /\ Balanced(Reprice(r, at))
           /\ SameStart(Reprice(r, at), r)
           /\ ~Due(r, at) => Reprice(r, at) = r
           /\ Due(r, at) => /\ Reprice(r, at).rate = Rates[at]
                            /\ Reprice(r, at).until = RateWindow(at).bound
           /\ Reprice(r, at).rate = r.rate => Segment(Reprice(r, at)) = Segment(r)
<1>1. PICK w : w = RateWindow(at)
  OBVIOUS
<1>2. w.rate = Rates[at] /\ w.rate \in Nat /\ w.bound \in Nat \cup {Never}
  BY <1>1, WindowSteady
<1>3. CASE ~Due(r, at)
  BY <1>3 DEF Reprice, SameStart
<1>4. CASE Due(r, at) /\ w.rate = r.rate
  <2>1. Reprice(r, at) = [r EXCEPT !.lost = FALSE, !.until = w.bound]
    BY <1>1, <1>4 DEF Reprice
  <2>2. PICK q : q = [r EXCEPT !.lost = FALSE, !.until = w.bound]
    OBVIOUS
  <2>3. q \in Row /\ SameStart(q, r) /\ q.until = w.bound /\ q.rate = r.rate
        /\ q.settled = r.settled /\ q.from = r.from
    BY <1>2, <2>2 DEF Row, SameStart
  <2> QED BY <1>1, <1>2, <1>4, <2>1, <2>2, <2>3 DEF Balanced, Segment, SameStart
<1>5. CASE Due(r, at) /\ w.rate # r.rate
  <2>1. PICK d : d = r.settled + Max({0, r.energy - r.from}) * r.rate
    OBVIOUS
  <2>2. d = r.owed
    BY <2>1, CostIs
  <2>3. Reprice(r, at) = [r EXCEPT !.lost = FALSE, !.settled = d, !.from = r.energy,
                                   !.rate = w.rate, !.until = w.bound]
    BY <1>1, <1>5, <2>1 DEF Reprice, CloseOut, Row
  <2>4. PICK q : q = [r EXCEPT !.lost = FALSE, !.settled = d, !.from = r.energy,
                               !.rate = w.rate, !.until = w.bound]
    OBVIOUS
  <2>5. q \in Row /\ SameStart(q, r) /\ q.until = w.bound /\ q.rate = w.rate
        /\ q.settled = r.owed /\ q.from = r.energy
    BY <1>2, <2>2, <2>4 DEF Row, SameStart
  <2>6. Balanced(q)
    <3>1. r.energy \in Nat /\ r.owed \in Nat /\ q.rate \in Nat
      BY <1>2, <2>5, PricingAssumption DEF Row
    <3>2. (r.energy - r.energy) * q.rate = 0
      BY <3>1
    <3> QED BY <2>5, <3>1, <3>2 DEF Balanced, SameStart
  <2> QED BY <1>1, <1>2, <1>5, <2>3, <2>4, <2>5, <2>6
<1> QED BY <1>3, <1>4, <1>5

\* A change of what RowSound does not read.
LEMMA SoundSame ==
    ASSUME NEW r, NEW q, RowSound(r), Balanced(q), BusyRow(q) => Carried(q),
           BusyRow(q) => BusyRow(r),
           q.rate = r.rate /\ q.until = r.until /\ q.lost = r.lost,
           q.ends = r.ends /\ q.maxRate = r.maxRate /\ q.edited = r.edited
    PROVE  RowSound(q)
BY DEF RowSound, Ahead, HeldFrom, HeldNow

\* The handlers' other notes play no part in what a row carries for the mirror.
LEMMA CarriedSame ==
    ASSUME NEW r, NEW q, BusyRow(r) => Carried(r), BusyRow(q) => BusyRow(r),
           q.push \subseteq r.push, Segment(q) = Segment(r)
    PROVE  BusyRow(q) => Carried(q)
BY DEF Carried

LEMMA OvertakenIs ==
    ASSUME NEW r \in Row, NEW q \in Row, Carried(r),
           q.rate = r.rate => Segment(q) = Segment(r)
    PROVE  /\ Overtaken(r, q) \in SUBSET Push
           /\ \A p \in Overtaken(r, q) : ~p.late => p.seg = Segment(q)
<1>1. r.push \in SUBSET Push
  BY DEF Row
<1>2. CASE q.rate = r.rate
  BY <1>1, <1>2 DEF Overtaken, Carried
<1>3. CASE q.rate # r.rate
  <2>1. Overtaken(r, q) = {[p EXCEPT !.late = TRUE] : p \in r.push}
    BY <1>3 DEF Overtaken
  <2>2. ASSUME NEW p \in r.push
        PROVE  [p EXCEPT !.late = TRUE] \in Push /\ [p EXCEPT !.late = TRUE].late = TRUE
    BY <1>1 DEF Push
  <2> QED BY <2>1, <2>2
<1> QED BY <1>2, <1>3

\* A reprice, and what the handlers then carry.
CarriedFor(c, a) == c \subseteq Push /\ \A p \in c : ~p.late => p.seg = Segment(a)

Repriced(q, r, a, c) ==
    /\ q \in Row /\ RowSound(q) /\ q.push = c /\ Segment(q) = Segment(a)
    /\ q.st = r.st /\ q.todo = r.todo /\ q.ends = r.ends
    /\ q.maxRate = r.maxRate /\ q.edited = r.edited

LEMMA RepriceSound ==
    ASSUME Tables, NEW r \in Row, RowSound(r), NEW at \in Nat, now \in Nat, at <= now,
           BusyRow(r) /\ ~r.edited => HeldFrom(r, at),
           NEW a, a = Reprice(r, at), NEW c, CarriedFor(c, a),
           NEW q, q = [a EXCEPT !.push = c]
    PROVE  Repriced(q, r, a, c)
<1>2. Balanced(r)
  BY DEF RowSound
<1>3. /\ a \in Row /\ Balanced(a) /\ SameStart(a, r)
      /\ ~Due(r, at) => a = r
      /\ Due(r, at) => a.rate = Rates[at] /\ a.until = RateWindow(at).bound
  BY <1>2, RepriceIs
<1>4. /\ q \in Row /\ q.push = c /\ q.st = a.st /\ q.todo = a.todo /\ q.rate = a.rate
      /\ q.until = a.until /\ q.maxRate = a.maxRate /\ q.ends = a.ends /\ q.from = a.from
      /\ q.energy = a.energy /\ q.settled = a.settled /\ q.owed = a.owed
      /\ q.lost = a.lost /\ q.edited = a.edited /\ q.offset = a.offset /\ q.last = a.last
  BY <1>3 DEF Row, CarriedFor
<1>5. Segment(q) = Segment(a) /\ Carried(q) /\ Balanced(q)
  <2>1. Segment(q) = Segment(a)
    BY <1>4 DEF Segment
  <2>2. Carried(q)
    BY <1>4, <2>1 DEF Carried, CarriedFor
  <2>3. Balanced(q)
    BY <1>3, <1>4 DEF Balanced
  <2> QED BY <2>1, <2>2, <2>3
<1>6. BusyRow(q) <=> BusyRow(r)
  BY <1>3, <1>4 DEF SameStart, BusyRow
<1>7. RowSound(q)
  <2>1. CASE ~Due(r, at)
    <3>1. /\ q.rate = r.rate /\ q.until = r.until /\ q.lost = r.lost /\ q.ends = r.ends
          /\ q.maxRate = r.maxRate /\ q.edited = r.edited
      BY <1>3, <1>4, <2>1
    <3> QED BY <1>5, <1>6, <3>1, SoundSame
  <2>2. CASE Due(r, at)
    <3>1. Ahead(q)
      <4> SUFFICES ASSUME NEW x \in Nat, now <= x, q.until = Never \/ x < q.until
                   PROVE  Rates[x] = q.rate
        BY DEF Ahead
      <4>1. at <= x
        OBVIOUS
      <4> QED BY <1>3, <1>4, <2>2, <4>1, WindowSteady
    <3>2. ASSUME BusyRow(q), ~q.edited PROVE HeldFrom(q, now) /\ HeldNow(q)
      <4>1. BusyRow(r) /\ ~r.edited /\ q.ends = r.ends /\ q.maxRate = r.maxRate
        BY <1>3, <1>4, <1>6, <3>2 DEF SameStart
      <4>2. HeldFrom(r, at) /\ HeldFrom(r, now)
        BY <4>1 DEF RowSound
      <4>3. HeldFrom(q, now)
        BY <4>1, <4>2 DEF HeldFrom
      <4>4. HeldNow(q)
        <5> SUFFICES ASSUME q.ends = Never \/ now < q.ends PROVE q.rate <= q.maxRate
          BY DEF HeldNow
        <5>1. r.ends = Never \/ at < r.ends
          <6>1. r.ends \in Nat \cup {Never}
            BY DEF Row
          <6> QED BY <4>1, <6>1
        <5>2. Rates[at] <= r.maxRate
          BY <4>2, <5>1 DEF HeldFrom
        <5> QED BY <1>3, <1>4, <2>2, <4>1, <5>2
      <4> QED BY <4>3, <4>4
    <3> QED BY <1>5, <3>1, <3>2 DEF RowSound
  <2> QED BY <2>1, <2>2
<1> QED BY <1>3, <1>4, <1>5, <1>7 DEF SameStart, Repriced

LEMMA SameRates ==
    ASSUME price' = price, slots' = slots, link' = link PROVE Rates' = Rates
<1>1. Effective' = Effective
  BY DEF Effective
<1>2. ASSUME NEW x PROVE RateWindow(x)' = RateWindow(x)
  BY <1>1 DEF RateWindow
<1> QED BY <1>2 DEF Rates

-----------------------------------------------------------------------------
(* One session's row changes.                                              *)

LEMMA RowStep ==
    ASSUME PricingShape, RowsSound, OneBusy, NEW s \in Sessions, NEW q \in Row,
           sess' = [sess EXCEPT ![s] = q], now' = now, Rates' = Rates, RowSound(q),
           BusyRow(q) => BusyRow(sess[s]) \/ \A r \in Sessions : ~BusyRow(sess[r])
    PROVE  sess' \in [Sessions -> Row] /\ RowsSound' /\ OneBusy'
<1>1. /\ sess' \in [Sessions -> Row] /\ sess'[s] = q
      /\ \A r \in Sessions \ {s} : sess'[r] = sess[r]
  BY DEF PricingShape
<1>2. ASSUME NEW r PROVE RowSound(r)' <=> RowSound(r)
  BY DEF RowSound, Balanced, BusyRow, Ahead, HeldFrom, HeldNow, Carried, Segment
<1>3. RowsSound'
  BY <1>1, <1>2 DEF RowsSound
<1>4. OneBusy'
  BY <1>1 DEF OneBusy
<1> QED BY <1>1, <1>3, <1>4

LEMMA ScanStep ==
    ASSUME PricingShape, ScanSound, NEW s \in Sessions, NEW q \in Row,
           sess' = [sess EXCEPT ![s] = q], now' = now, Rates' = Rates,
           scan'.ids # {} => scan'.at = scan.at, scan'.ids \subseteq scan.ids,
           s \in scan'.ids =>
              \/ q.st = "done"
              \/ /\ q.st = "active" /\ sess[s].st = "active" /\ q.ends = sess[s].ends
                 /\ q.maxRate = sess[s].maxRate /\ q.edited = sess[s].edited
    PROVE  ScanSound'
<1>1. sess'[s] = q /\ \A r \in Sessions \ {s} : sess'[r] = sess[r]
  BY DEF PricingShape
<1>2. scan.ids \subseteq Sessions
  BY DEF PricingShape
<1>3. ASSUME NEW r \in scan'.ids
      PROVE  /\ scan'.at \in 0 .. now'
             /\ sess'[r].st \in {"active", "done"}
             /\ sess'[r].st = "active" /\ ~sess'[r].edited => HeldFrom(sess[r], scan.at)'
  <2>1. /\ scan.at \in 0 .. now
        /\ sess[r].st \in {"active", "done"}
        /\ sess[r].st = "active" /\ ~sess[r].edited => HeldFrom(sess[r], scan.at)
    BY DEF ScanSound
  <2>2. CASE r # s
    <3>1. sess'[r] = sess[r]
      BY <1>1, <1>2, <2>2
    <3> QED BY <2>1, <3>1 DEF HeldFrom
  <2>3. CASE r = s
    BY <1>1, <2>1, <2>3 DEF HeldFrom
  <2> QED BY <2>2, <2>3
<1> QED BY <1>3 DEF ScanSound

\* No row changes; the clock may move on.
LEMMA StillStep ==
    ASSUME PricingShape, RowsSound, ScanSound, OneBusy, Mirrored,
           UNCHANGED <<sess, live, skew, scan>>, now' \in {now, now + 1}, Rates' = Rates
    PROVE  RowsSound' /\ ScanSound' /\ OneBusy' /\ Mirrored'
<1>1. now \in Nat /\ now' \in Nat /\ now <= now' /\ sess \in [Sessions -> Row]
  BY PricingAssumption DEF PricingShape
<1>2. ASSUME NEW s \in Sessions PROVE RowSound(sess[s])'
  <2>1. PICK r \in Row : r = sess[s]
    BY <1>1, <1>2
  <2>2. RowSound(r)
    BY <2>1 DEF RowsSound
  <2>3. r.ends \in Nat \cup {Never}
    BY DEF Row
  <2>4. Ahead(r) => Ahead(r)'
    BY <1>1 DEF Ahead
  <2>5. HeldFrom(r, now) => HeldFrom(r, now)'
    BY <1>1 DEF HeldFrom
  <2>6. HeldNow(r) => HeldNow(r)'
    BY <1>1, <2>3 DEF HeldNow, Never
  <2> QED BY <2>1, <2>2, <2>4, <2>5, <2>6 DEF RowSound, Balanced, BusyRow, Carried, Segment
<1>3. ScanSound'
  <2> SUFFICES ASSUME NEW s \in scan.ids
               PROVE  /\ scan.at \in 0 .. now' /\ sess[s].st \in {"active", "done"}
                      /\ sess[s].st = "active" /\ ~sess[s].edited => HeldFrom(sess[s], scan.at)'
    BY DEF ScanSound
  <2> QED BY <1>1 DEF ScanSound, HeldFrom
<1>4. OneBusy' /\ Mirrored'
  BY DEF OneBusy, BusyRow, Mirrored, Active, Pending, Segment
<1> QED BY <1>2, <1>3, <1>4 DEF RowsSound

-----------------------------------------------------------------------------
(* The operator edits prices.                                              *)

\* What an edit does to a row.
LEMMA EditedRow ==
    ASSUME PricingShape, MarkForReprice \/ Unmarked, NEW s \in Sessions
    PROVE  \E q \in Row :
              /\ q = sess'[s] /\ q.edited
              /\ q.st = sess[s].st /\ q.todo = sess[s].todo /\ q.energy = sess[s].energy
              /\ q.rate = sess[s].rate /\ q.settled = sess[s].settled
              /\ q.from = sess[s].from /\ q.owed = sess[s].owed /\ q.push = sess[s].push
              /\ q.offset = sess[s].offset /\ q.last = sess[s].last
              /\ BusyRow(q) /\ ~q.lost => q.until = now
<1>1. PICK r \in Row : r = sess[s]
  BY DEF PricingShape
<1>2. now \in Nat
  BY PricingAssumption DEF PricingShape
<1>3. r.lost \in BOOLEAN
  BY DEF Row
<1>4. CASE MarkForReprice
  <2>1. PICK u \in Nat \cup {Never}, b \in BOOLEAN :
           /\ u = IF r.st = "active" THEN now ELSE r.until
           /\ b = (r.lost \/ r.st = "resolved")
    BY <1>2, <1>3 DEF Row
  <2>2. sess'[s] = [r EXCEPT !.until = u, !.lost = b, !.edited = TRUE]
    BY <1>1, <1>4, <2>1 DEF MarkForReprice, Active
  <2>3. PICK q : q = [r EXCEPT !.until = u, !.lost = b, !.edited = TRUE]
    OBVIOUS
  <2>4. /\ q \in Row /\ q.edited = TRUE /\ q.until = u /\ q.lost = b
        /\ q.st = r.st /\ q.todo = r.todo /\ q.energy = r.energy /\ q.rate = r.rate
        /\ q.settled = r.settled /\ q.from = r.from /\ q.owed = r.owed /\ q.push = r.push
        /\ q.offset = r.offset /\ q.last = r.last
    BY <2>3 DEF Row
  <2>5. BusyRow(q) /\ ~q.lost => q.until = now
    BY <2>1, <2>4 DEF BusyRow
  <2>6. q \in Row
    BY <2>4
  <2> WITNESS q \in Row
  <2> QED BY <1>1, <2>2, <2>3, <2>4, <2>5
<1>5. CASE Unmarked
  <2>1. PICK b \in BOOLEAN : b = (r.lost \/ r.st \in {"resolved", "active"})
    BY <1>3
  <2>2. sess'[s] = [r EXCEPT !.lost = b, !.edited = TRUE]
    BY <1>1, <1>5, <2>1 DEF Unmarked
  <2>3. PICK q : q = [r EXCEPT !.lost = b, !.edited = TRUE]
    OBVIOUS
  <2>4. /\ q \in Row /\ q.edited = TRUE /\ q.lost = b
        /\ q.st = r.st /\ q.todo = r.todo /\ q.energy = r.energy /\ q.rate = r.rate
        /\ q.settled = r.settled /\ q.from = r.from /\ q.owed = r.owed /\ q.push = r.push
        /\ q.offset = r.offset /\ q.last = r.last
    BY <2>3 DEF Row
  <2>5. BusyRow(q) /\ ~q.lost => q.until = now
    BY <2>1, <2>4 DEF BusyRow
  <2>6. q \in Row
    BY <2>4
  <2> WITNESS q \in Row
  <2> QED BY <1>1, <2>2, <2>3, <2>4, <2>5
<1> QED BY <1>4, <1>5

LEMMA EditStep ==
    ASSUME PricingShape, RowsSound, ScanSound, OneBusy, Mirrored,
           UNCHANGED <<now, live, skew, scan>>, MarkForReprice \/ Unmarked
    PROVE  sess' \in [Sessions -> Row] /\ RowsSound' /\ ScanSound' /\ OneBusy' /\ Mirrored'
<1>1. now \in Nat /\ now # Never /\ scan.ids \subseteq Sessions
  BY PricingAssumption DEF PricingShape, Never
<1>2. sess' \in [Sessions -> Row]
  <2>1. sess' = [s \in Sessions |-> sess'[s]]
    BY DEF MarkForReprice, Unmarked
  <2> QED BY <2>1, EditedRow
<1>3. ASSUME NEW s \in Sessions PROVE RowSound(sess[s])'
  <2>1. PICK q \in Row :
              /\ q = sess'[s] /\ q.edited
              /\ q.st = sess[s].st /\ q.todo = sess[s].todo /\ q.energy = sess[s].energy
              /\ q.rate = sess[s].rate /\ q.settled = sess[s].settled
              /\ q.from = sess[s].from /\ q.owed = sess[s].owed /\ q.push = sess[s].push
              /\ q.offset = sess[s].offset /\ q.last = sess[s].last
              /\ BusyRow(q) /\ ~q.lost => q.until = now
    BY EditedRow
  <2>2. Balanced(sess[s])
    BY DEF RowsSound, RowSound
  <2>3. Balanced(q)
    BY <2>1, <2>2 DEF Balanced
  <2>4. ASSUME q.until = now PROVE Ahead(q)'
    BY <1>1, <2>4 DEF Ahead
  <2>6. BusyRow(q) => Carried(q)
    BY <2>1 DEF RowsSound, RowSound, BusyRow, Carried, Segment
  <2>5. RowSound(q)'
    BY <2>1, <2>3, <2>4, <2>6 DEF RowSound, Balanced, BusyRow, Carried, Segment
  <2> QED BY <2>1, <2>5
<1>4. \A s \in Sessions : /\ sess'[s].edited /\ sess'[s].st = sess[s].st
                          /\ sess'[s].todo = sess[s].todo /\ sess'[s].push = sess[s].push
                          /\ Segment(sess'[s]) = Segment(sess[s])
  BY EditedRow DEF Segment
<1>5. ScanSound'
  BY <1>1, <1>4 DEF ScanSound
<1>6. OneBusy'
  BY <1>4 DEF OneBusy, BusyRow
<1>7. Mirrored'
  BY <1>4 DEF Mirrored, Active, Segment, Pending
<1> QED BY <1>2, <1>3, <1>5, <1>6, <1>7 DEF RowsSound

\* What an edit leaves of the invariant, once its tables are seen to be sound.
LEMMA Edited ==
    ASSUME PricingInv, Tables', CheckedShape', edits' \in 0 .. MaxEdits,
           UNCHANGED <<now, live, skew, scan>>,
           MarkForReprice \/ Unmarked \/ (sess' = sess /\ Rates' = Rates)
    PROVE  PricingInv'
<1>1. CASE MarkForReprice \/ Unmarked
  <2>1. sess' \in [Sessions -> Row] /\ RowsSound' /\ ScanSound' /\ OneBusy' /\ Mirrored'
    BY <1>1, EditStep DEF PricingInv
  <2> QED BY <2>1 DEF PricingInv, PricingShape
<1>2. CASE sess' = sess /\ Rates' = Rates
  <2>1. RowsSound' /\ ScanSound' /\ OneBusy' /\ Mirrored'
    BY <1>2, StillStep DEF PricingInv
  <2> QED BY <1>2, <2>1 DEF PricingInv, PricingShape
<1> QED BY <1>1, <1>2

LEMMA EditCounts ==
    ASSUME PricingShape, Edit PROVE edits' \in 0 .. MaxEdits
BY PricingAssumption DEF PricingShape, Edit

LEMMA UpdateTariffKeeps ==
    ASSUME PricingInv, NEW t \in Tariffs, NEW p \in Prices, UpdateTariff(t, p)
    PROVE  PricingInv'
<1>1. /\ price[t] # Absent /\ price' = [price EXCEPT ![t] = p]
      /\ slots' = slots /\ link' = link /\ checked' = checked
  BY DEF UpdateTariff
<1>2. p # Absent
  BY Lengths DEF Absent
<1>3. Tables'
  BY <1>1, <1>2 DEF PricingInv, Tables
<1>4. CheckedShape'
  BY <1>1 DEF PricingInv, CheckedShape
<1>5. edits' \in 0 .. MaxEdits
  BY EditCounts DEF UpdateTariff, PricingInv
<1> QED BY <1>3, <1>4, <1>5, Edited DEF UpdateTariff

LEMMA CreateTariffKeeps ==
    ASSUME PricingInv, NEW t \in Tariffs, NEW p \in Prices, CreateTariff(t, p)
    PROVE  PricingInv'
<1>1. /\ price[t] = Absent /\ price' = [price EXCEPT ![t] = p]
      /\ slots' = slots /\ link' = link /\ checked' = checked
  BY DEF CreateTariff
<1>2. p # Absent
  BY Lengths DEF Absent
<1>3. Tables'
  BY <1>1, <1>2 DEF PricingInv, Tables
<1>4. CheckedShape'
  BY <1>1 DEF PricingInv, CheckedShape
<1>5. edits' \in 0 .. MaxEdits
  BY EditCounts DEF CreateTariff, PricingInv
<1>6. Effective' = Effective
  BY <1>1 DEF Effective
<1>7. Effective # NoTariff => Effective \in Tariffs /\ Effective # t
  BY <1>1, EffectiveIs DEF PricingInv, Absent
<1>8. Effective # NoTariff => price'[Effective] = price[Effective]
  BY <1>1, <1>7 DEF PricingInv, Tables
<1>9. ASSUME NEW x PROVE RateWindow(x)' = RateWindow(x)
  BY <1>1, <1>6, <1>8 DEF RateWindow
<1>10. Rates' = Rates
  BY <1>9 DEF Rates
<1> QED BY <1>3, <1>4, <1>5, <1>10, Edited DEF CreateTariff

LEMMA DeleteTariffKeeps ==
    ASSUME PricingInv, NEW t \in Tariffs, DeleteTariff(t)
    PROVE  PricingInv'
<1>1. /\ price' = [price EXCEPT ![t] = Absent] /\ slots' = [slots EXCEPT ![t] = {}]
      /\ link' = [l \in Levels |-> IF link[l] = t THEN NoTariff ELSE link[l]]
      /\ checked' = checked
  BY DEF DeleteTariff
<1>2. IsFiniteSet({}) /\ {} \in SUBSET Slot
  BY FS_EmptySet
<1>3. Tables'
  BY <1>1, <1>2 DEF PricingInv, Tables
<1>4. CheckedShape'
  BY <1>1 DEF PricingInv, CheckedShape
<1>5. edits' \in 0 .. MaxEdits
  BY EditCounts DEF DeleteTariff, PricingInv
<1> QED BY <1>3, <1>4, <1>5, Edited DEF DeleteTariff

LEMMA AssignKeeps ==
    ASSUME PricingInv, NEW l \in Levels, NEW t \in Tariffs \cup {NoTariff}, Assign(l, t)
    PROVE  PricingInv'
<1>1. /\ t # NoTariff => price[t] # Absent
      /\ link' = [link EXCEPT ![l] = t]
      /\ price' = price /\ slots' = slots /\ checked' = checked
  BY DEF Assign
<1>3. Tables'
  BY <1>1 DEF PricingInv, Tables
<1>4. CheckedShape'
  BY <1>1 DEF PricingInv, CheckedShape
<1>5. edits' \in 0 .. MaxEdits
  BY EditCounts DEF Assign, PricingInv
<1> QED BY <1>3, <1>4, <1>5, Edited DEF Assign

\* A set of slots replaces another in the table.
LEMMA SlotsReplaced ==
    ASSUME Tables, NEW t \in Tariffs, NEW S \in SUBSET Slot, IsFiniteSet(S),
           price[t] # Absent, slots' = [slots EXCEPT ![t] = S], UNCHANGED <<price, link>>
    PROVE  Tables'
BY DEF Tables

LEMMA ValidateSlotKeeps ==
    ASSUME PricingInv, NEW t \in Tariffs, NEW old, NEW new \in Offered,
           ValidateSlot(t, old, new)
    PROVE  PricingInv'
<1>1. /\ new.from < new.to
      /\ checked' = checked \cup {[tariff |-> t, old |-> old, new |-> new]}
      /\ price' = price /\ slots' = slots /\ link' = link /\ edits' = edits
  BY DEF ValidateSlot
<1>2. Tables'
  BY <1>1 DEF PricingInv, Tables
<1>3. CheckedShape'
  BY <1>1 DEF PricingInv, CheckedShape, Slot
<1>4. edits' \in 0 .. MaxEdits
  BY <1>1 DEF PricingInv, PricingShape
<1>5. Rates' = Rates
  BY <1>1, SameRates
<1> QED BY <1>2, <1>3, <1>4, <1>5, Edited DEF ValidateSlot

LEMMA WriteSlotKeeps ==
    ASSUME PricingInv, NEW c \in checked, WriteSlot(c)
    PROVE  PricingInv'
<1>1. /\ checked' = checked \ {c}
      /\ UNCHANGED <<now, live, skew, scan>> /\ price' = price /\ link' = link
  BY DEF WriteSlot
<1>2. c.tariff \in Tariffs /\ c.new \in Slot
  BY DEF PricingInv, CheckedShape
<1>3. CheckedShape'
  BY <1>1 DEF PricingInv, CheckedShape
<1>4. CASE /\ price[c.tariff] # Absent
           /\ slots' = [slots EXCEPT ![c.tariff] = (slots[c.tariff] \ c.old) \cup {c.new}]
           /\ Edit /\ MarkForReprice
  <2>1. PICK S : S = (slots[c.tariff] \ c.old) \cup {c.new}
    OBVIOUS
  <2>2. slots[c.tariff] \in SUBSET Slot /\ IsFiniteSet(slots[c.tariff])
    BY <1>2 DEF PricingInv, Tables
  <2>3. IsFiniteSet(slots[c.tariff] \ c.old)
    BY <2>2, FS_Subset
  <2>4. S \in SUBSET Slot /\ IsFiniteSet(S)
    BY <1>2, <2>1, <2>2, <2>3, FS_AddElement
  <2>5. Tables'
    BY <1>1, <1>2, <1>4, <2>1, <2>4, SlotsReplaced DEF PricingInv
  <2>6. edits' \in 0 .. MaxEdits
    BY <1>4, EditCounts DEF PricingInv
  <2> QED BY <1>1, <1>3, <1>4, <2>5, <2>6, Edited
<1>5. CASE UNCHANGED <<slots, sess, edits>>
  <2>1. Tables'
    BY <1>1, <1>5 DEF PricingInv, Tables
  <2>2. edits' \in 0 .. MaxEdits
    BY <1>5 DEF PricingInv, PricingShape
  <2>3. Rates' = Rates
    BY <1>1, <1>5, SameRates
  <2> QED BY <1>1, <1>3, <1>5, <2>1, <2>2, <2>3, Edited
<1> QED BY <1>4, <1>5 DEF WriteSlot

LEMMA DeleteSlotKeeps ==
    ASSUME PricingInv, NEW t \in Tariffs, NEW s \in slots[t], DeleteSlot(t, s)
    PROVE  PricingInv'
<1>1. /\ slots' = [slots EXCEPT ![t] = slots[t] \ {s}]
      /\ price' = price /\ link' = link /\ checked' = checked
  BY DEF DeleteSlot
<1>2. slots[t] \in SUBSET Slot /\ IsFiniteSet(slots[t]) /\ price[t] # Absent
  BY DEF PricingInv, Tables
<1>3. PICK S : S = slots[t] \ {s}
  OBVIOUS
<1>4. S \in SUBSET Slot /\ IsFiniteSet(S)
  BY <1>2, <1>3, FS_Subset
<1>5. Tables'
  BY <1>1, <1>2, <1>3, <1>4, SlotsReplaced DEF PricingInv
<1>6. CheckedShape'
  BY <1>1 DEF PricingInv, CheckedShape
<1>7. edits' \in 0 .. MaxEdits
  BY EditCounts DEF DeleteSlot, PricingInv
<1> QED BY <1>5, <1>6, <1>7, Edited DEF DeleteSlot

-----------------------------------------------------------------------------
(* The steps of a session.                                                 *)

\* The mirror is left alone, nobody's, known to be behind, or nobody else's.
SessionStep(s, q) ==
    /\ sess' = [sess EXCEPT ![s] = q]
    /\ UNCHANGED <<now, price, slots, link, checked, edits>>
    /\ BusyRow(q) => BusyRow(sess[s]) \/ \A r \in Sessions : ~BusyRow(sess[r])
    /\ scan'.ids # {} => scan'.at = scan.at
    /\ scan'.ids \subseteq scan.ids
    /\ s \in scan'.ids =>
          \/ q.st = "done"
          \/ /\ q.st = "active" /\ sess[s].st = "active" /\ q.ends = sess[s].ends
             /\ q.maxRate = sess[s].maxRate /\ q.edited = sess[s].edited
    /\ q.st = "active" /\ q.todo = {} /\ ~skew' /\ ~Pending(q) => Segment(q) = live'
    /\ \/ live' = live /\ (skew => skew')
       \/ \A r \in Sessions : ~Active(r)
       \/ skew'
       \/ BusyRow(sess[s])

LEMMA SessionStepKeeps ==
    ASSUME PricingInv, NEW s \in Sessions, NEW q \in Row, SessionStep(s, q), RowSound(q),
           skew' \in BOOLEAN,
           live' \in [rate : Nat \cup {Absent}, settled : Nat, from : 0 .. MaxEnergy],
           scan' \in [at : (0 .. MaxTime) \cup {Never}, ids : SUBSET Sessions]
    PROVE  PricingInv'
<1>1. Rates' = Rates
  BY SameRates DEF SessionStep
<1>2. sess' \in [Sessions -> Row] /\ RowsSound' /\ OneBusy'
  BY <1>1, RowStep DEF PricingInv, SessionStep
<1>3. ScanSound'
  BY <1>1, ScanStep DEF PricingInv, SessionStep
<1>4. Tables' /\ CheckedShape'
  BY DEF PricingInv, SessionStep, Tables, CheckedShape
<1>5. PricingShape'
  BY <1>2 DEF PricingInv, SessionStep, PricingShape
<1>6. sess'[s] = q /\ \A r \in Sessions \ {s} : sess'[r] = sess[r]
  BY DEF PricingInv, PricingShape, SessionStep
<1>7. ASSUME NEW r \in Sessions, Active(r)', sess'[r].todo = {}, ~skew', ~Pending(sess'[r])
      PROVE  Segment(sess'[r]) = live'
  <2>1. CASE r = s
    BY <1>6, <1>7, <2>1 DEF SessionStep, Active
  <2>2. CASE r # s
    <3>1. sess'[r] = sess[r] /\ sess[r].st = "active" /\ BusyRow(sess[r])
      BY <1>6, <1>7, <2>2 DEF Active, BusyRow
    <3>2. ~BusyRow(sess[s])
      BY <2>2, <3>1 DEF PricingInv, OneBusy
    <3>3. live' = live /\ ~skew
      BY <1>7, <3>1, <3>2 DEF SessionStep, Active
    <3> QED BY <1>7, <3>1, <3>3 DEF PricingInv, Mirrored, Active
  <2> QED BY <2>1, <2>2
<1>8. Mirrored'
  BY <1>7 DEF Mirrored, Segment, Pending
<1> QED BY <1>2, <1>3, <1>4, <1>5, <1>8 DEF PricingInv

LEMMA RowOf ==
    ASSUME PricingInv, NEW s \in Sessions
    PROVE  /\ sess[s] \in Row /\ RowSound(sess[s]) /\ Balanced(sess[s])
           /\ BusyRow(sess[s]) => Carried(sess[s])
           /\ s \in scan.ids => sess[s].st \in {"active", "done"}
BY DEF PricingInv, PricingShape, RowsSound, RowSound, ScanSound

LEMMA ShapeOf ==
    ASSUME PricingInv
    PROVE  /\ now \in Nat /\ now <= MaxTime /\ MaxTime \in Nat
           /\ skew \in BOOLEAN /\ 0 \in 0 .. MaxEnergy
           /\ live \in [rate : Nat \cup {Absent}, settled : Nat, from : 0 .. MaxEnergy]
           /\ scan \in [at : (0 .. MaxTime) \cup {Never}, ids : SUBSET Sessions]
           /\ NotTracked \in [rate : Nat \cup {Absent}, settled : Nat, from : 0 .. MaxEnergy]
BY PricingAssumption DEF PricingInv, PricingShape, NotTracked

LEMMA UnbornIs ==
    /\ Unborn \in Row /\ Balanced(Unborn) /\ ~BusyRow(Unborn) /\ Unborn.push = {}
<1>1. 0 \in 0 .. MaxEnergy
  BY PricingAssumption
<1>2. Unborn \in Row
  BY <1>1 DEF Unborn, Row
<1>3. (0 - 0) * 0 = 0
  OBVIOUS
<1> QED BY <1>2, <1>3 DEF Unborn, Balanced, BusyRow, Carried

LEMMA ResolveStartKeeps ==
    ASSUME PricingInv, NEW s \in Sessions, NEW dur \in Durations, ResolveStart(s, dur)
    PROVE  PricingInv'
<1>1. /\ ~Busy /\ sess[s].st = "none"
      /\ UNCHANGED <<now, price, slots, link, checked, live, skew, scan, edits>>
  BY DEF ResolveStart
<1>2. dur \in Nat /\ now \in Nat /\ Tables
  BY ShapeOf, PricingAssumption DEF PricingInv
<1>3. PICK n \in Nat, u \in Nat \cup {Never}, m \in Nat :
         n = RateWindow(now).rate /\ u = RateWindow(now).bound /\ m = MaxRateOver(now, dur)
  BY <1>2, WindowSteady, HoldCovers
<1>4. /\ n = Rates[now]
      /\ \A x \in Nat : now <= x /\ (u = Never \/ x < u) => Rates[x] = n
      /\ \A x \in Nat : now <= x /\ (dur = 0 \/ x < now + dur) => Rates[x] <= m
  BY <1>2, <1>3, WindowSteady, HoldCovers
<1>5. PICK e \in Nat \cup {Never} : e = IF dur = 0 THEN Never ELSE now + dur
  <2>1. now + dur \in Nat
    BY <1>2
  <2>2. (IF dur = 0 THEN Never ELSE now + dur) \in Nat \cup {Never}
    BY <2>1
  <2> QED BY <2>2
<1>6. PICK q : q = [Unborn EXCEPT !.st = "resolved", !.rate = n, !.first = n, !.until = u,
                                  !.maxRate = m, !.ends = e]
  OBVIOUS
<1>7. /\ q \in Row /\ q.st = "resolved" /\ q.rate = n /\ q.until = u /\ q.maxRate = m
      /\ q.ends = e /\ q.from = 0 /\ q.energy = 0 /\ q.settled = 0 /\ q.owed = 0
      /\ q.push = {} /\ q.offset = 0 /\ q.last = 0
  <2>1. q \in Row
    BY <1>6, UnbornIs DEF Row
  <2> QED BY <1>6, <2>1 DEF Unborn
<1>8. e = Never <=> dur = 0
  BY <1>2, <1>5 DEF Never
<1>9. RowSound(q)
  <2>1. Balanced(q)
    <3>1. (0 - 0) * n = 0
      OBVIOUS
    <3> QED BY <1>7, <3>1 DEF Balanced
  <2>2. Ahead(q)
    BY <1>4, <1>7 DEF Ahead
  <2>3. HeldFrom(q, now)
    BY <1>4, <1>5, <1>7, <1>8 DEF HeldFrom
  <2>4. HeldNow(q)
    BY <1>2, <1>4, <1>5, <1>7, <1>8 DEF HeldNow
  <2>5. Carried(q)
    BY <1>7 DEF Carried
  <2> QED BY <2>1, <2>2, <2>3, <2>4, <2>5 DEF RowSound
<1>10. sess' = [sess EXCEPT ![s] = q]
  BY <1>3, <1>5, <1>6 DEF ResolveStart
<1>11. s \notin scan.ids
  BY <1>1, RowOf
<1>12. SessionStep(s, q)
  BY <1>1, <1>7, <1>10, <1>11 DEF SessionStep, Busy, BusyRow
<1> QED BY <1>1, <1>7, <1>9, <1>12, SessionStepKeeps, ShapeOf

LEMMA CommitStartKeeps ==
    ASSUME PricingInv, NEW s \in Sessions, CommitStart(s)
    PROVE  PricingInv'
<1>1. /\ sess[s].st = "resolved"
      /\ UNCHANGED <<now, price, slots, link, checked, live, skew, scan, edits>>
  BY DEF CommitStart
<1>2. PICK r \in Row : r = sess[s] /\ RowSound(r) /\ Balanced(r)
  BY RowOf
<1>3. PICK q : q = [r EXCEPT !.st = "active", !.todo = {"start"}]
  OBVIOUS
<1>4. /\ q \in Row /\ q.st = "active" /\ q.todo = {"start"} /\ q.rate = r.rate
      /\ q.until = r.until /\ q.maxRate = r.maxRate /\ q.ends = r.ends /\ q.from = r.from
      /\ q.energy = r.energy /\ q.settled = r.settled /\ q.owed = r.owed
      /\ q.lost = r.lost /\ q.edited = r.edited /\ q.offset = r.offset /\ q.last = r.last /\ q.push = r.push
  BY <1>3 DEF Row
<1>5. Balanced(q) /\ Segment(q) = Segment(r)
  BY <1>2, <1>4 DEF Balanced, Segment
<1>6. BusyRow(r)
  BY <1>1, <1>2 DEF BusyRow
<1>7. RowSound(q)
  <2>1. BusyRow(q) => Carried(q)
    BY <1>2, <1>4, <1>5, <1>6, CarriedSame DEF RowSound
  <2> QED BY <1>2, <1>4, <1>5, <1>6, <2>1, SoundSame
<1>8. sess' = [sess EXCEPT ![s] = q]
  BY <1>2, <1>3 DEF CommitStart, PricingInv, PricingShape
<1>9. s \notin scan.ids
  BY <1>1, RowOf
<1>10. SessionStep(s, q)
  BY <1>1, <1>2, <1>4, <1>6, <1>8, <1>9 DEF SessionStep
<1> QED BY <1>1, <1>4, <1>7, <1>10, SessionStepKeeps, ShapeOf

LEMMA StartMirrorKeeps ==
    ASSUME PricingInv, NEW s \in Sessions, StartMirror(s)
    PROVE  PricingInv'
<1>1. /\ live' = [rate |-> sess[s].first, settled |-> 0, from |-> 0]
      /\ skew' = ~(Active(s) /\ Segment(sess[s]) = live')
      /\ UNCHANGED <<now, price, slots, link, checked, scan, edits>>
  BY DEF StartMirror
<1>2. PICK r \in Row : r = sess[s] /\ RowSound(r) /\ Balanced(r)
  BY RowOf
<1>3. PICK q : q = [r EXCEPT !.todo = r.todo \ {"start"}, !.first = 0]
  OBVIOUS
<1>4. /\ q \in Row /\ q.st = r.st /\ q.rate = r.rate
      /\ q.until = r.until /\ q.maxRate = r.maxRate /\ q.ends = r.ends /\ q.from = r.from
      /\ q.energy = r.energy /\ q.settled = r.settled /\ q.owed = r.owed
      /\ q.lost = r.lost /\ q.edited = r.edited /\ q.offset = r.offset /\ q.last = r.last /\ q.push = r.push
  BY <1>3 DEF Row
<1>5. Balanced(q) /\ (BusyRow(q) <=> BusyRow(r)) /\ Segment(q) = Segment(r)
  BY <1>2, <1>4 DEF Balanced, BusyRow, Segment
<1>6. RowSound(q)
  <2>1. BusyRow(q) => Carried(q)
    BY <1>2, <1>4, <1>5, CarriedSame DEF RowSound
  <2> QED BY <1>2, <1>4, <1>5, <2>1, SoundSame
<1>7. sess' = [sess EXCEPT ![s] = q]
  <2>1. sess' = [sess EXCEPT ![s] = [r EXCEPT !.todo = r.todo \ {"start"}, !.first = 0]]
    BY <1>2 DEF StartMirror, PricingInv, PricingShape
  <2> QED BY <1>3, <2>1
<1>8. skew' \/ (BusyRow(r) /\ Segment(q) = live')
  BY <1>1, <1>2, <1>5 DEF Active, BusyRow
<1>9. SessionStep(s, q)
  <2>1. s \in scan.ids => q.st \in {"active", "done"}
    BY <1>2, <1>4, RowOf
  <2> QED BY <1>1, <1>2, <1>4, <1>5, <1>7, <1>8, <2>1 DEF SessionStep
<1>10. live' \in [rate : Nat \cup {Absent}, settled : Nat, from : 0 .. MaxEnergy]
  BY <1>1, <1>2, ShapeOf DEF Row
<1>11. skew' \in BOOLEAN
  BY <1>1
<1> QED BY <1>1, <1>4, <1>6, <1>9, <1>10, <1>11, SessionStepKeeps, ShapeOf

LEMMA Larger ==
    ASSUME NEW a \in Nat, NEW b \in Nat PROVE Max({a, b}) = IF a <= b THEN b ELSE a
<1>1. PICK m \in {a, b} : \A y \in {a, b} : m >= y
  <2>1. CASE a <= b
    BY <2>1
  <2>2. CASE ~(a <= b)
    BY <2>2
  <2> QED BY <2>1, <2>2
<1>2. Max({a, b}) \in {a, b} /\ \A y \in {a, b} : Max({a, b}) >= y
  BY <1>1 DEF Max
<1> QED BY <1>2

\* The row a frame leaves, before it is repriced.
CountedRow(m, r, k) ==
    /\ m.energy \in Nat /\ m.offset \in Nat /\ m.last \in {r.last, k}
    /\ r.energy <= m.energy /\ k <= m.energy /\ m.offset + m.last <= m.energy
    /\ m.energy \in {r.energy, m.offset + k}
    /\ r.offset = 0 /\ r.energy <= k => m.energy = k
    /\ m.rate = r.rate /\ m.settled = r.settled /\ m.from = r.from

OwedRow(m, r) ==
    /\ m = [r EXCEPT !.energy = m.energy, !.offset = m.offset, !.last = m.last, !.owed = m.owed]
    /\ m.owed = r.owed + (m.energy - r.energy) * r.rate

LEMMA MeteredIs ==
    ASSUME NEW r \in Row, Balanced(r), NEW k \in Nat, NEW offline \in BOOLEAN,
           NEW m, m = Metered(r, k, offline)
    PROVE  CountedRow(m, r, k) /\ OwedRow(m, r)
<1>1. r.energy \in Nat /\ r.offset \in Nat /\ r.last \in Nat /\ r.offset + r.last <= r.energy
  BY PricingAssumption DEF Row, Balanced
<1>2. PICK d \in Nat : d = IF ~offline /\ k < r.last THEN r.last - k ELSE 0
  <2>1. CASE ~offline /\ k < r.last
    <3>1. r.last - k \in Nat
      BY <1>1, <2>1
    <3> QED BY <2>1, <3>1
  <2>2. CASE ~(~offline /\ k < r.last)
    BY <2>2
  <2> QED BY <2>1, <2>2
<1>3. PICK o \in Nat : o = r.offset + d
  BY <1>1
<1>4. PICK e \in Nat : e = Max({r.energy, o + k}) /\ e = IF r.energy <= o + k THEN o + k ELSE r.energy
  BY <1>1, Larger
<1>5. PICK l \in {r.last, k} : l = IF offline THEN r.last ELSE k
  OBVIOUS
<1>10. PICK w : w = r.owed + (e - r.energy) * r.rate
  OBVIOUS
<1>6. m = [r EXCEPT !.energy = e, !.offset = o, !.last = l, !.owed = w]
  <2>1. PICK x : x = Max({r.energy, r.offset + d + k})
    OBVIOUS
  <2>2. x = e
    BY <1>3, <1>4, <2>1
  <2>3. m = [r EXCEPT !.energy = x, !.offset = r.offset + d, !.last = l,
                      !.owed = r.owed + (x - r.energy) * r.rate]
    BY <1>2, <1>5, <2>1, Zenon DEF Metered
  <2> QED BY <1>3, <1>10, <2>2, <2>3, Zenon
<1>11. /\ m.energy = e /\ m.offset = o /\ m.last = l /\ m.owed = w
       /\ m.rate = r.rate /\ m.settled = r.settled /\ m.from = r.from
  BY <1>6 DEF Row
<1>7. r.energy <= e /\ k <= e /\ e \in {r.energy, o + k}
  <2>1. PICK g \in Nat : g = r.energy
    BY <1>1
  <2>2. e = IF g <= o + k THEN o + k ELSE g
    BY <1>4, <2>1
  <2>3. g <= e /\ k <= e /\ e \in {g, o + k}
    BY <2>2
  <2> QED BY <2>1, <2>3
<1>8. o + l <= e
  <2>1. CASE offline
    <3>1. d = 0 /\ l = r.last
      BY <1>2, <1>5, <2>1
    <3> QED BY <1>1, <1>3, <1>7, <3>1
  <2>2. CASE ~offline
    <3>1. l = k /\ o + k <= e
      BY <1>1, <1>4, <1>5, <2>2
    <3> QED BY <3>1
  <2> QED BY <2>1, <2>2
<1>9. ASSUME r.offset = 0, r.energy <= k PROVE e = k
  <2>1. ~(k < r.last)
    BY <1>1, <1>9
  <2>2. d = 0
    BY <1>2, <2>1
  <2> QED BY <1>1, <1>3, <1>4, <1>9, <2>2
<1>12. m.owed = r.owed + (m.energy - r.energy) * r.rate
  BY <1>10, <1>11
<1>13. m = [r EXCEPT !.energy = m.energy, !.offset = m.offset, !.last = m.last, !.owed = m.owed]
  BY <1>6, <1>11, Zenon
<1>14. CountedRow(m, r, k)
  BY <1>7, <1>8, <1>9, <1>11 DEF CountedRow
<1>15. OwedRow(m, r)
  BY <1>12, <1>13, Zenon DEF OwedRow
<1> QED BY <1>14, <1>15

LEMMA FrameKeeps ==
    ASSUME PricingInv, NEW s \in Sessions, NEW k \in 0 .. MaxEnergy, NEW offline \in BOOLEAN,
           Frame(s, k, offline)
    PROVE  PricingInv'
<1>1. PICK r \in Row : r = sess[s] /\ RowSound(r) /\ Balanced(r)
  BY RowOf
<1>2. PICK m : m = Metered(r, k, offline)
  OBVIOUS
<1>3. PICK a : a = Reprice(m, now)
  OBVIOUS
<1>4. PICK p : p = [seg |-> Segment(a), new |-> a.rate # m.rate, late |-> FALSE]
  OBVIOUS
<1>5. PICK q : q = [a EXCEPT !.push = Overtaken(m, a) \cup {p}]
  OBVIOUS
<1>6. /\ r.st = "active" /\ m.offset + k <= MaxEnergy
      /\ sess' = [sess EXCEPT ![s] = q]
      /\ UNCHANGED <<now, price, slots, link, checked, live, skew, scan, edits>>
  BY <1>1, <1>2, <1>3, <1>4, <1>5 DEF Frame, Active
<1>7. /\ k \in Nat /\ MaxEnergy \in Nat /\ r.energy \in Nat /\ r.from \in Nat /\ r.rate \in Nat
      /\ r.settled \in Nat /\ r.owed \in Nat /\ r.last \in Nat
      /\ r.from <= r.energy /\ r.energy <= MaxEnergy /\ r.last <= MaxEnergy
  BY <1>1, PricingAssumption DEF Row, Balanced
<1>27. PICK e, o, l, d : e = m.energy /\ o = m.offset /\ l = m.last /\ d = m.owed
  OBVIOUS
<1>28. CountedRow(m, r, k) /\ OwedRow(m, r)
  BY <1>1, <1>2, <1>7, MeteredIs
<1>8. /\ e \in Nat /\ o \in Nat /\ l \in {r.last, k}
      /\ r.energy <= e /\ o + l <= e /\ e \in {r.energy, o + k}
  BY <1>27, <1>28 DEF CountedRow
<1>29. m = [r EXCEPT !.energy = e, !.offset = o, !.last = l, !.owed = d]
  BY <1>27, <1>28, Zenon DEF OwedRow
<1>9. d = r.owed + (e - r.energy) * r.rate
  BY <1>27, <1>28, Zenon DEF OwedRow
<1>10. /\ (r.energy - r.from) * r.rate \in Nat /\ (e - r.energy) * r.rate \in Nat
       /\ (e - r.from) * r.rate = (r.energy - r.from) * r.rate + (e - r.energy) * r.rate
  BY <1>7, <1>8, Distributes
<1>11. d \in Nat
  BY <1>7, <1>9, <1>10
<1>12. o + k <= MaxEnergy
  BY <1>6, <1>27
<1>13. e \in 0 .. MaxEnergy /\ o \in 0 .. MaxEnergy /\ l \in 0 .. MaxEnergy
  BY <1>7, <1>8, <1>12
<1>14. /\ m \in Row /\ m.st = r.st /\ m.todo = r.todo /\ m.push = r.push /\ m.energy = e
       /\ m.rate = r.rate /\ m.settled = r.settled /\ m.from = r.from /\ m.until = r.until
       /\ m.maxRate = r.maxRate /\ m.ends = r.ends /\ m.owed = d /\ m.lost = r.lost
       /\ m.edited = r.edited /\ m.offset = o /\ m.last = l
  BY <1>11, <1>13, <1>29 DEF Row
<1>15. Balanced(m)
  <2>1. r.settled + (r.energy - r.from) * r.rate = r.owed
    BY <1>1 DEF Balanced
  <2>2. r.settled + (e - r.from) * r.rate = d
    BY <1>7, <1>9, <1>10, <2>1
  <2> QED BY <1>7, <1>8, <1>14, <2>2 DEF Balanced
<1>16. BusyRow(m) /\ BusyRow(r) /\ Segment(m) = Segment(r)
  BY <1>6, <1>14 DEF BusyRow, Segment
<1>17. RowSound(m) /\ Carried(m)
  <2>1. Carried(m)
    BY <1>1, <1>14, <1>16, CarriedSame DEF RowSound
  <2> QED BY <1>1, <1>14, <1>15, <1>16, <2>1, SoundSame
<1>18. now \in Nat /\ Tables /\ now <= now
  BY ShapeOf DEF PricingInv
<1>19. a \in Row /\ (a.rate = m.rate => Segment(a) = Segment(m))
  BY <1>3, <1>14, <1>15, <1>18, RepriceIs
<1>20. PICK c \in SUBSET Push :
          c = Overtaken(m, a) /\ \A x \in c : ~x.late => x.seg = Segment(a)
  BY <1>14, <1>17, <1>19, OvertakenIs
<1>21. p \in Push /\ p.seg = Segment(a) /\ p.new = (a.rate # m.rate) /\ p.late = FALSE
  <2>1. Segment(a) \in [rate : Nat, settled : Nat, from : 0 .. MaxEnergy]
    BY <1>19 DEF Segment, Row
  <2> QED BY <1>4, <2>1 DEF Push
<1>22. PICK w \in SUBSET Push : w = Overtaken(m, a) \cup {p} /\ w = c \cup {p}
  BY <1>20, <1>21
<1>23. \A x \in w : ~x.late => x.seg = Segment(a)
  BY <1>20, <1>21, <1>22
<1>24. /\ q \in Row /\ RowSound(q) /\ q.push = w /\ Segment(q) = Segment(a)
       /\ q.st = m.st /\ q.todo = m.todo /\ q.ends = m.ends
       /\ q.maxRate = m.maxRate /\ q.edited = m.edited
  <2>1. BusyRow(m) /\ ~m.edited => HeldFrom(m, now)
    BY <1>17 DEF RowSound
  <2>2. q = [a EXCEPT !.push = w]
    BY <1>5, <1>22
  <2>3. m \in Row
    BY <1>14
  <2>4. CarriedFor(w, a)
    BY <1>22, <1>23 DEF CarriedFor
  <2>5. Repriced(q, m, a, w)
    BY <1>3, <1>17, <1>18, <2>1, <2>2, <2>3, <2>4, RepriceSound
  <2> QED BY <2>5 DEF Repriced
<1>25. ASSUME q.todo = {}, ~skew, ~Pending(q) PROVE Segment(q) = live
  <2>1. a.rate = m.rate
    BY <1>21, <1>22, <1>24, <1>25 DEF Pending
  <2>2. c = r.push
    BY <1>14, <1>20, <2>1 DEF Overtaken
  <2>3. ~Pending(r)
    BY <1>22, <1>24, <1>25, <2>2 DEF Pending
  <2>4. r.todo = {}
    BY <1>14, <1>24, <1>25
  <2>5. Segment(r) = live
    BY <1>1, <1>6, <1>25, <2>3, <2>4 DEF PricingInv, Mirrored, Active
  <2> QED BY <1>16, <1>19, <1>24, <2>1, <2>5
<1>26. SessionStep(s, q)
  BY <1>1, <1>6, <1>14, <1>16, <1>24, <1>25 DEF SessionStep
<1> QED BY <1>6, <1>24, <1>26, SessionStepKeeps, ShapeOf

LEMMA TellMirrorKeeps ==
    ASSUME PricingInv, NEW s \in Sessions, NEW p \in sess[s].push, TellMirror(s, p)
    PROVE  PricingInv'
<1>1. PICK r \in Row : r = sess[s] /\ RowSound(r) /\ Balanced(r)
  BY RowOf
<1>2. p \in Push /\ p.late \in BOOLEAN
  BY <1>1 DEF Row, Push
<1>3. PICK t \in BOOLEAN : t <=> (live = NotTracked \/ p.new)
  OBVIOUS
<1>4. /\ live' = IF t THEN p.seg ELSE live
      /\ skew' = IF t THEN p.late \/ ~(r.st = "active") ELSE skew
      /\ UNCHANGED <<now, price, slots, link, checked, scan, edits>>
  BY <1>1, <1>3 DEF TellMirror, Active
<1>5. PICK q : q = [r EXCEPT !.push = r.push \ {p}]
  OBVIOUS
<1>6. /\ q \in Row /\ q.st = r.st /\ q.todo = r.todo /\ q.rate = r.rate
      /\ q.until = r.until /\ q.maxRate = r.maxRate /\ q.ends = r.ends /\ q.from = r.from
      /\ q.energy = r.energy /\ q.settled = r.settled /\ q.owed = r.owed
      /\ q.lost = r.lost /\ q.edited = r.edited /\ q.offset = r.offset /\ q.last = r.last
      /\ q.push = r.push \ {p}
  BY <1>5 DEF Row
<1>7. Balanced(q) /\ (BusyRow(q) <=> BusyRow(r)) /\ Segment(q) = Segment(r)
  BY <1>1, <1>6 DEF Balanced, BusyRow, Segment
<1>8. RowSound(q)
  <2>1. BusyRow(q) => Carried(q)
    BY <1>1, <1>6, <1>7, CarriedSame DEF RowSound
  <2> QED BY <1>1, <1>6, <1>7, <2>1, SoundSame
<1>9. sess' = [sess EXCEPT ![s] = q]
  <2>1. sess' = [sess EXCEPT ![s] = [r EXCEPT !.push = r.push \ {p}]]
    BY <1>1 DEF TellMirror, PricingInv, PricingShape
  <2> QED BY <1>5, <2>1
<1>10. ASSUME q.st = "active", q.todo = {}, ~skew', ~Pending(q) PROVE Segment(q) = live'
  <2>1. r.st = "active" /\ r.todo = {}
    BY <1>6, <1>10
  <2>2. CASE t
    <3>1. ~p.late /\ live' = p.seg
      BY <1>4, <1>10, <2>2
    <3>2. Carried(r)
      BY <1>1, <2>1 DEF RowSound, BusyRow
    <3> QED BY <1>1, <1>7, <3>1, <3>2 DEF Carried
  <2>3. CASE ~t
    <3>1. live' = live /\ ~skew /\ ~p.new
      BY <1>3, <1>4, <1>10, <2>3
    <3>2. ~Pending(r)
      BY <1>6, <1>10, <3>1 DEF Pending
    <3> QED BY <1>1, <1>7, <2>1, <3>1, <3>2 DEF PricingInv, Mirrored, Active
  <2> QED BY <2>2, <2>3
<1>11. (live' = live /\ (skew => skew')) \/ skew' \/ BusyRow(r)
  BY <1>3, <1>4 DEF BusyRow
<1>12. SessionStep(s, q)
  <2>1. s \in scan.ids => q.st \in {"active", "done"}
    BY <1>1, <1>6, RowOf
  <2> QED BY <1>1, <1>4, <1>6, <1>7, <1>9, <1>10, <1>11, <2>1 DEF SessionStep
<1>13. live' \in [rate : Nat \cup {Absent}, settled : Nat, from : 0 .. MaxEnergy]
  <2>1. p.seg \in [rate : Nat \cup {Absent}, settled : Nat, from : 0 .. MaxEnergy]
    BY <1>2 DEF Push
  <2> QED BY <1>4, <2>1, ShapeOf
<1>14. skew' \in BOOLEAN
  BY <1>2, <1>4, ShapeOf
<1> QED BY <1>4, <1>6, <1>8, <1>12, <1>13, <1>14, SessionStepKeeps, ShapeOf

LEMMA StopKeeps ==
    ASSUME PricingInv, NEW s \in Sessions, Stop(s)
    PROVE  PricingInv'
<1>1. PICK r \in Row : r = sess[s]
  BY RowOf
<1>2. PICK f \in Nat, d \in SUBSET {"start", "end"}, c \in SUBSET Push :
         f = r.first /\ d = r.todo \cup {"end"} /\ c = r.push
  BY DEF Row
<1>3. PICK q : q = [Unborn EXCEPT !.st = "done", !.first = f, !.todo = d, !.push = c]
  OBVIOUS
<1>4. /\ r.st = "active" /\ sess' = [sess EXCEPT ![s] = q]
      /\ UNCHANGED <<now, price, slots, link, checked, live, skew, scan, edits>>
  BY <1>1, <1>2, <1>3 DEF Stop, Active
<1>5. q \in Row /\ q.st = "done" /\ Balanced(q)
  <2>1. q \in Row /\ q.st = "done"
    BY <1>3, UnbornIs DEF Row
  <2>2. /\ q.from = 0 /\ q.energy = 0 /\ q.settled = 0 /\ q.rate = 0 /\ q.owed = 0
        /\ q.offset = 0 /\ q.last = 0
    BY <1>3 DEF Unborn
  <2>3. (0 - 0) * 0 = 0
    OBVIOUS
  <2> QED BY <2>1, <2>2, <2>3 DEF Balanced
<1>6. RowSound(q) /\ ~BusyRow(q)
  BY <1>5 DEF RowSound, BusyRow
<1>7. SessionStep(s, q)
  BY <1>4, <1>5, <1>6 DEF SessionStep
<1> QED BY <1>4, <1>5, <1>6, <1>7, SessionStepKeeps, ShapeOf

LEMMA EndMirrorKeeps ==
    ASSUME PricingInv, NEW s \in Sessions, EndMirror(s)
    PROVE  PricingInv'
<1>1. /\ live' = NotTracked /\ skew' = \E r \in Sessions : Active(r)
      /\ UNCHANGED <<now, price, slots, link, checked, scan, edits>>
  BY DEF EndMirror
<1>2. PICK r \in Row : r = sess[s] /\ RowSound(r) /\ Balanced(r)
  BY RowOf
<1>3. PICK q : q = [r EXCEPT !.todo = r.todo \ {"end"}]
  OBVIOUS
<1>4. /\ q \in Row /\ q.st = r.st /\ q.rate = r.rate
      /\ q.until = r.until /\ q.maxRate = r.maxRate /\ q.ends = r.ends /\ q.from = r.from
      /\ q.energy = r.energy /\ q.settled = r.settled /\ q.owed = r.owed
      /\ q.lost = r.lost /\ q.edited = r.edited /\ q.offset = r.offset /\ q.last = r.last /\ q.push = r.push
  BY <1>3 DEF Row
<1>5. Balanced(q) /\ (BusyRow(q) <=> BusyRow(r)) /\ Segment(q) = Segment(r)
  BY <1>2, <1>4 DEF Balanced, BusyRow, Segment
<1>6. RowSound(q)
  <2>1. BusyRow(q) => Carried(q)
    BY <1>2, <1>4, <1>5, CarriedSame DEF RowSound
  <2> QED BY <1>2, <1>4, <1>5, <2>1, SoundSame
<1>7. sess' = [sess EXCEPT ![s] = q]
  <2>1. sess' = [sess EXCEPT ![s] = [r EXCEPT !.todo = r.todo \ {"end"}]]
    BY <1>2 DEF EndMirror, PricingInv, PricingShape
  <2> QED BY <1>3, <2>1
<1>8. SessionStep(s, q)
  <2>1. s \in scan.ids => q.st \in {"active", "done"}
    BY <1>2, <1>4, RowOf
  <2>2. skew' \/ \A x \in Sessions : ~Active(x)
    BY <1>1
  <2>3. q.st = "active" => skew'
    BY <1>1, <1>2, <1>4 DEF Active
  <2> QED BY <1>1, <1>2, <1>4, <1>5, <1>7, <2>1, <2>2, <2>3 DEF SessionStep
<1>9. skew' \in BOOLEAN
  BY <1>1
<1> QED BY <1>1, <1>4, <1>6, <1>8, <1>9, SessionStepKeeps, ShapeOf

LEMMA ReaperRepriceKeeps ==
    ASSUME PricingInv, NEW s \in Sessions, ReaperReprice(s)
    PROVE  PricingInv'
<1>1. PICK r \in Row : r = sess[s] /\ RowSound(r) /\ Balanced(r)
  BY RowOf
<1>2. PICK a : a = Reprice(r, scan.at)
  OBVIOUS
<1>8. PICK q : q = [a EXCEPT !.push = Overtaken(r, a)]
  OBVIOUS
<1>3. /\ s \in scan.ids
      /\ scan' = [at |-> IF scan.ids = {s} THEN Never ELSE scan.at, ids |-> scan.ids \ {s}]
      /\ sess' = IF r.st = "active" THEN [sess EXCEPT ![s] = q] ELSE sess
      /\ skew' = (skew \/ (r.st = "active" /\ a.rate # r.rate))
      /\ UNCHANGED <<now, price, slots, link, checked, live, edits>>
  BY <1>1, <1>2, <1>8 DEF ReaperReprice, Active
<1>4. /\ scan' \in [at : (0 .. MaxTime) \cup {Never}, ids : SUBSET Sessions]
      /\ s \notin scan'.ids /\ scan'.ids \subseteq scan.ids
      /\ scan'.ids # {} => scan'.at = scan.at
  BY <1>3, ShapeOf
<1>5. skew' \in BOOLEAN
  BY <1>3, ShapeOf
<1>6. CASE r.st = "active"
  <2>1. now \in Nat /\ scan.at \in Nat /\ scan.at <= now /\ Tables
    BY <1>3, ShapeOf DEF PricingInv, ScanSound
  <2>2. a \in Row /\ SameStart(a, r) /\ (a.rate = r.rate => Segment(a) = Segment(r))
    BY <1>1, <1>2, <2>1, RepriceIs
  <2>3. BusyRow(r) /\ ~r.edited => HeldFrom(r, scan.at)
    BY <1>1, <1>3, <1>6 DEF PricingInv, ScanSound
  <2>5. BusyRow(r) /\ Carried(r)
    BY <1>1, <1>6 DEF BusyRow, RowSound
  <2>8. PICK c \in SUBSET Push :
           c = Overtaken(r, a) /\ \A p \in c : ~p.late => p.seg = Segment(a)
    BY <1>1, <2>2, <2>5, OvertakenIs
  <2>4. /\ q \in Row /\ RowSound(q) /\ q.push = c /\ Segment(q) = Segment(a)
        /\ q.st = r.st /\ q.todo = r.todo /\ q.ends = r.ends /\ q.maxRate = r.maxRate
        /\ q.edited = r.edited
    <3>1. q = [a EXCEPT !.push = c]
      BY <1>8, <2>8
    <3>2. CarriedFor(c, a)
      BY <2>8 DEF CarriedFor
    <3>3. Repriced(q, r, a, c)
      BY <1>1, <1>2, <2>1, <2>3, <3>1, <3>2, RepriceSound
    <3> QED BY <3>3 DEF Repriced
  <2>6. ASSUME q.todo = {}, ~skew', ~Pending(q) PROVE Segment(q) = live'
    <3>1. live' = live /\ ~skew /\ a.rate = r.rate
      BY <1>3, <1>6, <2>6
    <3>2. r.todo = {} /\ c = r.push
      BY <2>4, <2>6, <2>8, <3>1 DEF Overtaken
    <3>3. ~Pending(r)
      BY <2>4, <2>6, <3>2 DEF Pending
    <3> QED BY <1>1, <1>6, <2>2, <2>4, <3>1, <3>2, <3>3 DEF PricingInv, Mirrored, Active
  <2>7. SessionStep(s, q)
    BY <1>1, <1>3, <1>4, <1>6, <2>5, <2>6 DEF SessionStep
  <2> QED BY <1>3, <1>4, <1>5, <2>4, <2>7, SessionStepKeeps, ShapeOf
<1>7. CASE r.st # "active"
  <2>1. sess' = [sess EXCEPT ![s] = r]
    BY <1>1, <1>3, <1>7 DEF PricingInv, PricingShape
  <2>2. SessionStep(s, r)
    BY <1>1, <1>3, <1>4, <1>7, <2>1 DEF SessionStep
  <2> QED BY <1>1, <1>3, <1>4, <1>5, <2>2, SessionStepKeeps, ShapeOf
<1> QED BY <1>6, <1>7

\* What the reaper finds, and what a restart of the backend leaves.
LEMMA ReaperScanKeeps ==
    ASSUME PricingInv, ReaperScan
    PROVE  PricingInv'
<1>1. PICK D : D = {s \in Sessions : Active(s) /\ Due(sess[s], now) /\ sess[s].until # now}
  OBVIOUS
<1>2. /\ scan' = [at |-> now, ids |-> D]
      /\ UNCHANGED <<now, price, slots, link, checked, sess, live, skew, edits>>
  BY <1>1 DEF ReaperScan
<1>3. Rates' = Rates
  BY <1>2, SameRates
<1>4. now \in Nat /\ now \in 0 .. now /\ now \in 0 .. MaxTime
  BY ShapeOf
<1>5. ASSUME NEW s \in D
      PROVE  /\ sess[s].st = "active"
             /\ ~sess[s].edited => HeldFrom(sess[s], now)
  <2>1. s \in Sessions /\ sess[s].st = "active"
    BY <1>1 DEF Active
  <2> QED BY <2>1, RowOf DEF RowSound, BusyRow
<1>6. ScanSound'
  <2> SUFFICES ASSUME NEW s \in D
               PROVE  /\ now \in 0 .. now /\ sess[s].st \in {"active", "done"}
                      /\ sess[s].st = "active" /\ ~sess[s].edited => HeldFrom(sess[s], now)'
    BY <1>2 DEF ScanSound, HeldFrom
  <2> QED BY <1>2, <1>3, <1>4, <1>5 DEF HeldFrom
<1>7. RowsSound'
  BY <1>2, <1>3 DEF PricingInv, RowsSound, RowSound, Balanced, BusyRow, Ahead, HeldFrom, HeldNow,
     Carried, Segment
<1>8. OneBusy'
  BY <1>2 DEF PricingInv, OneBusy, BusyRow
<1>9. Mirrored'
  BY <1>2 DEF PricingInv, Mirrored, Active, Segment, Pending
<1>10. Tables' /\ CheckedShape'
  BY <1>2 DEF PricingInv, Tables, CheckedShape
<1>11. PricingShape'
  BY <1>1, <1>2, <1>4 DEF PricingInv, PricingShape
<1> QED BY <1>6, <1>7, <1>8, <1>9, <1>10, <1>11 DEF PricingInv

LEMMA RestartKeeps ==
    ASSUME PricingInv, Restart
    PROVE  PricingInv'
<1>1. /\ live' = NotTracked /\ scan' = [at |-> Never, ids |-> {}]
      /\ skew' = \E s \in Sessions : Active(s)
      /\ checked' = {}
      /\ UNCHANGED <<now, price, slots, link, edits>>
  BY DEF Restart
<1>2. Rates' = Rates
  BY <1>1, SameRates
<1>3. ASSUME NEW s \in Sessions
      PROVE  /\ sess'[s] \in Row /\ RowSound(sess[s])'
             /\ BusyRow(sess'[s]) => BusyRow(sess[s])
             /\ sess'[s].st = "active" => sess[s].st = "active"
  <2>1. PICK r \in Row : r = sess[s] /\ RowSound(r) /\ Balanced(r)
    BY RowOf
  <2>2. PICK q : q = IF r.st = "resolved" THEN Unborn ELSE [r EXCEPT !.todo = {}, !.push = {}]
    OBVIOUS
  <2>3. q = sess'[s]
    BY <2>1, <2>2 DEF Restart
  <2>4. q \in Row /\ RowSound(q) /\ (BusyRow(q) => BusyRow(r)) /\ (q.st = "active" => r.st = "active")
    <3>1. CASE r.st = "resolved"
      <4>1. q = Unborn
        BY <2>2, <3>1
      <4> QED BY <4>1, UnbornIs DEF RowSound, BusyRow
    <3>2. CASE r.st # "resolved"
      <4>1. q = [r EXCEPT !.todo = {}, !.push = {}]
        BY <2>2, <3>2
      <4>2. /\ q \in Row /\ q.st = r.st /\ q.rate = r.rate
            /\ q.until = r.until /\ q.maxRate = r.maxRate /\ q.ends = r.ends /\ q.from = r.from
            /\ q.energy = r.energy /\ q.settled = r.settled /\ q.owed = r.owed
            /\ q.lost = r.lost /\ q.edited = r.edited /\ q.offset = r.offset /\ q.last = r.last /\ q.push = {}
        BY <4>1 DEF Row
      <4>3. Balanced(q) /\ (BusyRow(q) => BusyRow(r)) /\ Carried(q)
        BY <2>1, <4>2 DEF Balanced, BusyRow, Carried
      <4> QED BY <2>1, <4>2, <4>3, SoundSame
    <3> QED BY <3>1, <3>2
  <2>5. RowSound(q)'
    BY <1>1, <1>2, <2>4 DEF RowSound, Balanced, BusyRow, Ahead, HeldFrom, HeldNow, Carried, Segment
  <2> QED BY <2>1, <2>3, <2>4, <2>5
<1>4. sess' \in [Sessions -> Row]
  <2>1. sess' = [s \in Sessions |-> sess'[s]]
    BY DEF Restart
  <2> QED BY <1>3, <2>1
<1>5. RowsSound'
  BY <1>3 DEF RowsSound
<1>6. OneBusy'
  BY <1>3 DEF PricingInv, OneBusy
<1>7. ScanSound' /\ CheckedShape'
  BY <1>1 DEF ScanSound, CheckedShape
<1>8. Mirrored'
  BY <1>1, <1>3 DEF Mirrored, Active
<1>9. Tables'
  BY <1>1 DEF PricingInv, Tables
<1>10. PricingShape'
  BY <1>1, <1>4, ShapeOf DEF PricingInv, PricingShape
<1> QED BY <1>5, <1>6, <1>7, <1>8, <1>9, <1>10 DEF PricingInv

LEMMA TickKeeps ==
    ASSUME PricingInv, Tick \/ UNCHANGED pricingVars
    PROVE  PricingInv'
<1>1. /\ UNCHANGED <<price, slots, link, checked, sess, live, skew, scan, edits>>
      /\ now' \in {now, now + 1} /\ now' \in 0 .. MaxTime
  BY ShapeOf DEF Tick, pricingVars
<1>2. Rates' = Rates
  BY <1>1, SameRates
<1>3. RowsSound' /\ ScanSound' /\ OneBusy' /\ Mirrored'
  BY <1>1, <1>2, StillStep DEF PricingInv
<1>4. Tables' /\ CheckedShape'
  BY <1>1 DEF PricingInv, Tables, CheckedShape
<1>5. PricingShape'
  BY <1>1 DEF PricingInv, PricingShape
<1> QED BY <1>3, <1>4, <1>5 DEF PricingInv

LEMMA PricingStarts ==
    ASSUME PricingInit PROVE PricingInv
<1>1. (CHOOSE x \in Tariffs : TRUE) \in Tariffs
  BY PricingAssumption
<1>2. PICK T \in {{}, {CHOOSE x \in Tariffs : TRUE}},
           S \in SUBSET Slot :
        /\ IsFiniteSet(S)
        /\ T = {} => S = {}
        /\ price = [x \in Tariffs |-> IF x \in T THEN DefaultRate ELSE Absent]
        /\ slots = [x \in Tariffs |-> IF x \in T THEN S ELSE {}]
        /\ link = [l \in Levels |-> IF l = "tenant" /\ T # {} THEN CHOOSE x \in T : TRUE
                                    ELSE NoTariff]
  BY DEF PricingInit, Slot
<1>4. IsFiniteSet(S) /\ IsFiniteSet({})
  BY <1>2, FS_EmptySet
<1>5. PICK c \in Tariffs : T \in {{}, {c}}
  BY <1>1, <1>2
<1>6. link = [l \in Levels |-> IF l = "tenant" /\ T # {} THEN c ELSE NoTariff]
  <2>1. T # {} => (CHOOSE x \in T : TRUE) = c
    BY <1>5
  <2> QED BY <1>2, <2>1
<1>7. DefaultRate # Absent
  BY Lengths DEF Absent
<1>8. Tables
  BY <1>2, <1>4, <1>5, <1>6, <1>7 DEF Tables
<1>9. /\ now = 0 /\ checked = {} /\ sess = [s \in Sessions |-> Unborn]
      /\ live = NotTracked /\ skew = FALSE /\ scan = [at |-> Never, ids |-> {}] /\ edits = 0
  BY DEF PricingInit
<1>10. 0 \in 0 .. MaxTime /\ 0 \in 0 .. MaxEdits /\ 0 \in 0 .. MaxEnergy
  BY PricingAssumption
<1>11. PricingShape
  <2>1. sess \in [Sessions -> Row]
    BY <1>9, UnbornIs
  <2> QED BY <1>9, <1>10, <2>1 DEF PricingShape, NotTracked
<1>12. RowsSound /\ OneBusy
  BY <1>9, UnbornIs DEF RowsSound, RowSound, OneBusy
<1>14. \A s \in Sessions : ~Active(s)
  BY <1>9 DEF Active, Unborn
<1>13. CheckedShape /\ ScanSound /\ Mirrored
  BY <1>9, <1>14 DEF CheckedShape, ScanSound, Mirrored
<1> QED BY <1>8, <1>11, <1>12, <1>13 DEF PricingInv

LEMMA PricingStep ==
    ASSUME PricingInv, [PricingNext]_pricingVars PROVE PricingInv'
<1>1. CASE Tick \/ UNCHANGED pricingVars
  BY <1>1, TickKeeps
<1>2. CASE Pricing
  BY <1>2, CreateTariffKeeps, UpdateTariffKeeps, DeleteTariffKeeps, AssignKeeps,
     ValidateSlotKeeps, WriteSlotKeeps, DeleteSlotKeeps DEF Pricing
<1>3. CASE Charging
  BY <1>3, ResolveStartKeeps, CommitStartKeeps, StartMirrorKeeps, FrameKeeps, TellMirrorKeeps, StopKeeps,
     EndMirrorKeeps, ReaperRepriceKeeps DEF Charging
<1>4. CASE ReaperScan
  BY <1>4, ReaperScanKeeps
<1>5. CASE Restart
  BY <1>5, RestartKeeps
<1> QED BY <1>1, <1>2, <1>3, <1>4, <1>5 DEF PricingNext

\* Tables whose links do not dangle, rows whose rate is in force until they
\* fall due and whose cost is what was metered at the rates of the time, a hold
\* that covers every rate of the session's window, and a mirror that follows:
\* the inductive invariant behind the three properties of the module.
THEOREM PricingInvariant == PricingSpec => []PricingInv
<1>1. PricingInit => PricingInv
  BY PricingStarts
<1>2. PricingInv /\ [PricingNext]_pricingVars => PricingInv'
  BY PricingStep
<1> QED BY <1>1, <1>2, PTL DEF PricingSpec

-----------------------------------------------------------------------------
(* The properties of the module.                                           *)

\* Whatever the operator edits and whichever of the telemetry handler and the
\* reaper reprices, a session that is not due charges the price that
\* resolve_rate_window gives for the instant.
THEOREM ChargesThePriceHolds == PricingSpec => []ChargesThePrice
<1>1. ASSUME PricingInv PROVE PricingTypeOK
  <2>1. Slot \subseteq Offered
    BY DEF Slot
  <2> QED BY <1>1, <2>1 DEF PricingInv, Tables, PricingShape, PricingTypeOK
<1>2. ASSUME PricingInv PROVE RateIsCurrent
  <2> SUFFICES ASSUME NEW s \in Sessions, Active(s), ~sess[s].lost, ~Due(sess[s], now)
               PROVE  sess[s].rate = RateWindow(now).rate
    BY DEF RateIsCurrent
  <2>1. now \in Nat /\ sess[s] \in Row /\ Ahead(sess[s])
    BY <1>2, ShapeOf, RowOf DEF RowSound, BusyRow, Active
  <2>2. sess[s].until = Never \/ now < sess[s].until
    BY <2>1 DEF Due, Row, Never
  <2>3. Rates[now] = sess[s].rate
    BY <2>1, <2>2 DEF Ahead
  <2> QED BY <2>1, <2>3 DEF Rates
<1>3. PricingInv => ChargesThePrice
  BY <1>1, <1>2 DEF ChargesThePrice
<1> QED BY <1>3, PricingInvariant, PTL

\* However often and by whichever path a session is repriced, session_cost is
\* what was metered at the rates of the time, and without an edit the rate stays
\* within the one max_rate_over_window sized the hold with.
THEOREM SegmentsBilledWithinHoldHolds == PricingSpec => []SegmentsBilledWithinHold
<1>1. ASSUME PricingInv PROVE PastEnergyKeepsItsPrice
  BY <1>1, RowOf, CostIs DEF PastEnergyKeepsItsPrice
<1>2. ASSUME PricingInv PROVE HoldCoversSlots
  BY <1>2, RowOf DEF HoldCoversSlots, RowSound, BusyRow, HeldNow, Active
<1>3. PricingInv => SegmentsBilledWithinHold
  BY <1>1, <1>2 DEF SegmentsBilledWithinHold
<1> QED BY <1>3, PricingInvariant, PTL

\* As no link dangles, the listing's chain ends where the resolver's does.
LEMMA PickIs ==
    ASSUME Tables PROVE PickTariff = Effective
<1>1. "plug" \in Levels /\ "group" \in Levels /\ "tenant" \in Levels
  BY DEF Levels
<1>2. \A l \in Levels : link[l] # NoTariff => price[link[l]] # Absent
  BY DEF Tables
<1> QED BY <1>1, <1>2 DEF PickTariff, Effective

LEMMA BatchIs ==
    ASSUME Tables, NEW t PROVE PriceDisplayBatch(t) = PriceDisplay(t)
<1> DEFINE x == PickTariff
           at(u) == IF x = NoTariff THEN [rate |-> DefaultRate, bound |-> Never]
                    ELSE LET w == SlotRateAndBound(slots[x], u)
                         IN  [w EXCEPT !.rate = IF @ = Absent THEN price[x] ELSE @]
           hides == at(t).bound = Never \/ Midnight(at(t).bound) # Midnight(t)
                    \/ at(at(t).bound).rate = at(t).rate
<1>1. \A u : at(u) = RateWindow(u)
  BY PickIs DEF RateWindow
<1>2. PriceDisplayBatch(t) =
        IF hides THEN [rate |-> at(t).rate, bound |-> Never, next |-> Absent]
        ELSE [rate |-> at(t).rate, bound |-> at(t).bound, next |-> at(at(t).bound).rate]
  BY DEF PriceDisplayBatch
<1> HIDE DEF at
<1> QED BY <1>1, <1>2 DEF PriceDisplay

\* resolve_price_display: a price is announced only with its instant, later the
\* same day.
LEMMA DisplayIs ==
    ASSUME NEW t
    PROVE  LET d == PriceDisplay(t)
               w == RateWindow(t)
           IN  /\ d.rate = w.rate
               /\ d.bound # Never =>
                    /\ w.bound # Never /\ Midnight(w.bound) = Midnight(t)
                    /\ d.bound = w.bound
                    /\ d.next = RateWindow(w.bound).rate /\ d.next # w.rate
BY DEF PriceDisplay

LEMMA PreviewIs ==
    ASSUME Tables, NEW t PROVE TariffPreview(t).now = RateWindow(t).rate
<1>1. CASE Effective = NoTariff
  BY <1>1, WindowIs DEF TariffPreview
<1>2. CASE Effective # NoTariff
  <2>1. SlotRateAndBound(slots[Effective], t).rate = RateAt(slots[Effective], t)
    BY Resolved
  <2> QED BY <1>2, <2>1, WindowIs DEF TariffPreview
<1> QED BY <1>1, <1>2

LEMMA AnnouncedIsTrue ==
    ASSUME Tables, NEW t \in Nat, PriceDisplay(t).bound # Never
    PROVE  LET d == PriceDisplay(t)
           IN  /\ t < d.bound /\ d.bound < Midnight(t) + DayLen
               /\ \A x \in t .. d.bound - 1 : RateWindow(x).rate = d.rate
               /\ RateWindow(d.bound).rate = d.next /\ d.next # d.rate
<1>1. PICK d : d = PriceDisplay(t)
  OBVIOUS
<1>2. PICK b : b = RateWindow(t).bound
  OBVIOUS
<1>3. /\ d.rate = RateWindow(t).rate /\ b # Never /\ Midnight(b) = Midnight(t) /\ d.bound = b
      /\ d.next = RateWindow(b).rate /\ d.next # d.rate
  BY <1>1, <1>2, DisplayIs
<1>4. /\ b \in Nat /\ t < b /\ d.rate = Rates[t]
      /\ \A x \in Nat : t <= x /\ x < b => Rates[x] = Rates[t]
  BY <1>2, <1>3, WindowSteady
<1>5. b < Midnight(t) + DayLen
  <2>1. Minute(b) \in Nat /\ Minute(b) < DayLen /\ Midnight(b) \in Nat /\ b = Midnight(b) + Minute(b)
    BY <1>4, MinuteIs
  <2> QED BY <1>3, <2>1, Lengths
<1>6. ASSUME NEW x \in t .. b - 1 PROVE RateWindow(x).rate = d.rate
  <2>1. x \in Nat /\ t <= x /\ x < b
    BY <1>4
  <2> QED BY <1>4, <2>1 DEF Rates
<1> QED BY <1>1, <1>3, <1>4, <1>5, <1>6

\* The price shown, by whichever of the three paths, is the price charged; one
\* announced for later the same day is charged from the instant announced
\* (resolve_price_display, resolve_price_display_batch, get_plug_tariff_preview).
THEOREM DisplayIsTrueHolds == PricingSpec => []DisplayIsTrue
<1>1. ASSUME PricingInv PROVE DisplayIsTrue
  <2>1. Tables /\ now \in Nat /\ now + DayLen \in Nat
    BY <1>1, ShapeOf, Lengths DEF PricingInv
  <2>2. PriceDisplayBatch(now) = PriceDisplay(now)
    BY <2>1, BatchIs
  <2>3. TariffPreview(now).now = PriceDisplay(now).rate
    BY <2>1, PreviewIs, DisplayIs
  <2>4. ASSUME NEW t \in {now, now + DayLen}
        PROVE  LET d == PriceDisplay(t)
               IN  d.bound # Never =>
                     /\ t < d.bound /\ d.bound < Midnight(t) + DayLen
                     /\ \A x \in t .. d.bound - 1 : RateWindow(x).rate = d.rate
                     /\ RateWindow(d.bound).rate = d.next /\ d.next # d.rate
    <3>1. t \in Nat
      BY <2>1
    <3> QED BY <2>1, <3>1, AnnouncedIsTrue
  <2> QED BY <2>2, <2>3, <2>4 DEF DisplayIsTrue
<1> QED BY <1>1, PricingInvariant, PTL

LEMMA MoreEnergy ==
    ASSUME NEW a \in Nat, NEW b \in Nat, NEW f \in Nat, NEW n \in Nat, a <= b
    PROVE  /\ Max({0, a - f}) * n \in Nat /\ Max({0, b - f}) * n \in Nat
           /\ Max({0, a - f}) * n <= Max({0, b - f}) * n
<1>1. ASSUME NEW z \in Nat PROVE Max({0, z - f}) = IF f <= z THEN z - f ELSE 0
  <2>1. CASE f <= z
    <3>1. z - f \in Nat
      BY <2>1
    <3> QED BY <2>1, <3>1, Positive
  <2>2. CASE ~(f <= z)
    <3>1. 0 \in {0, z - f} /\ \A y \in {0, z - f} : 0 >= y
      BY <2>2
    <3>2. Max({0, z - f}) \in {0, z - f} /\ \A y \in {0, z - f} : Max({0, z - f}) >= y
      BY <3>1 DEF Max
    <3> QED BY <2>2, <3>1, <3>2
  <2> QED BY <2>1, <2>2
<1>2. PICK i \in Nat, j \in Nat : i = Max({0, a - f}) /\ j = Max({0, b - f}) /\ i <= j
  <2>1. Max({0, a - f}) = IF f <= a THEN a - f ELSE 0
    BY <1>1
  <2>2. Max({0, b - f}) = IF f <= b THEN b - f ELSE 0
    BY <1>1
  <2> QED BY <2>1, <2>2
<1>3. i * n \in Nat /\ j * n \in Nat
  BY Product
<1>4. i * n <= j * n
  <2>1. (i - 0) * n \in Nat /\ (j - i) * n \in Nat /\ (j - 0) * n = (i - 0) * n + (j - i) * n
    BY <1>2, Distributes
  <2>2. i - 0 = i /\ j - 0 = j
    OBVIOUS
  <2> QED BY <1>3, <2>1, <2>2
<1> QED BY <1>2, <1>3, <1>4

\* Once started, a session streams its own cost, never more than its bill and
\* exactly its bill while the counter has not been set back, unless the mirror
\* was lost, left behind by the reaper or overwritten by a late call
\* (TelemetryStore.update, hydrate_session, set_segment_state).
THEOREM LiveCostFollowsHolds == PricingSpec => []LiveCostFollows
<1>1. ASSUME PricingInv, NEW s \in Sessions, Active(s), sess[s].todo = {}, ~skew,
             ~PushPending(s)
      PROVE  live # NotTracked /\ CostsAgree(s)
  <2>1. PICK r \in Row : r = sess[s] /\ Balanced(r)
    BY <1>1, RowOf
  <2>2. Segment(r) = live
    BY <1>1, <2>1 DEF PricingInv, Mirrored, PushPending, Pending
  <2>3. /\ live.rate = r.rate /\ live.settled = r.settled /\ live.from = r.from
        /\ r.rate \in Nat /\ r.settled \in Nat /\ r.from \in Nat
    BY <2>2, PricingAssumption DEF Segment, Row
  <2>4. live # NotTracked
    BY <2>3 DEF NotTracked, Absent
  <2>5. ASSUME NEW k \in 0 .. MaxEnergy + 1, NEW offline \in BOOLEAN
        PROVE  /\ LiveCost(k) <= SessionCost(Metered(r, k, offline))
               /\ r.offset = 0 /\ r.energy <= k =>
                     LiveCost(k) = SessionCost(Metered(r, k, offline))
    <3>1. k \in Nat
      BY PricingAssumption
    <3>2. PICK m : m = Metered(r, k, offline)
      OBVIOUS
    <3>10. CountedRow(m, r, k)
      BY <2>1, <3>1, <3>2, MeteredIs
    <3>3. PICK e \in Nat : e = m.energy /\ k <= e
      BY <3>10 DEF CountedRow
    <3>4. /\ r.offset = 0 /\ r.energy <= k => e = k
          /\ m.energy = e /\ m.rate = r.rate /\ m.settled = r.settled /\ m.from = r.from
      BY <3>3, <3>10 DEF CountedRow
    <3>5. LiveCost(k) = r.settled + Max({0, k - r.from}) * r.rate
      BY <2>3, <2>4 DEF LiveCost
    <3>6. SessionCost(m) = r.settled + Max({0, e - r.from}) * r.rate
      BY <3>4 DEF SessionCost
    <3>7. PICK i \in Nat, j \in Nat : /\ i = Max({0, k - r.from}) * r.rate
                                      /\ j = Max({0, e - r.from}) * r.rate /\ i <= j
      <4>1. r.rate \in Nat /\ r.from \in Nat /\ k \in Nat /\ e \in Nat /\ k <= e
        BY <2>3, <3>1, <3>3
      <4> QED BY <4>1, MoreEnergy
    <3>8. LiveCost(k) <= SessionCost(m)
      BY <2>3, <3>5, <3>6, <3>7
    <3>9. ASSUME r.offset = 0, r.energy <= k PROVE LiveCost(k) = SessionCost(m)
      <4>1. e = k
        BY <3>4, <3>9
      <4> QED BY <3>5, <3>6, <4>1
    <3> QED BY <3>2, <3>8, <3>9
  <2> QED BY <2>1, <2>4, <2>5 DEF CostsAgree
<1>2. PricingInv => LiveCostFollows
  BY <1>1 DEF LiveCostFollows
<1> QED BY <1>2, PricingInvariant, PTL
=============================================================================
