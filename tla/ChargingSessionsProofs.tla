----------------------- MODULE ChargingSessionsProofs -----------------------
(***************************************************************************)
(* Proofs about ChargingSessions, for every number of users, plugs and     *)
(* sessions and every value of the other constants.                        *)
(***************************************************************************)
EXTENDS ChargingSessions, SumTheorems

\* A publish is in flight only for a row that has been committed.
PublishingHasRow == \A s \in publishing : sess[s] # NoRow

TypeInv == TypeOK /\ PublishingHasRow

\* What a finalize collects is a number of coins the wallet has, and it is
\* covered by the hold and by the metered cost.
LEMMA CollectedBounds ==
    ASSUME TypeOK, NEW s \in Sessions, Active(s)
    PROVE  /\ sess[s] \in SessionRow
           /\ Collected(s) \in Nat
           /\ Collected(s) <= balance[sess[s].user]
           /\ Collected(s) <= sess[s].hold
           /\ Collected(s) <= Cost(sess[s].energy)
<1>1. sess[s] \in SessionRow
    BY DEF TypeOK, Active, NoRow
<1>2. /\ sess[s].energy \in Nat /\ sess[s].hold \in Nat
      /\ balance[sess[s].user] \in Nat
    BY <1>1 DEF SessionRow, TypeOK
<1>3. Cost(sess[s].energy) \in Nat
    BY <1>2, ConstantsAssumption DEF Cost
<1> QED
    BY <1>1, <1>2, <1>3 DEF Collected, Lesser

\* A finalize keeps every column in its domain.
LEMMA FinalizeType ==
    ASSUME TypeInv, NEW s \in Sessions, Finalize(s)
    PROVE  /\ balance' \in [Users -> Nat] /\ net' \in [Users -> Int]
           /\ plugStatus' \in [Plugs -> PlugStatus]
           /\ sess' \in [Sessions -> SessionRow \cup {NoRow}]
           /\ debits' \in [Sessions -> [rows : Nat, coins : Nat]]
           /\ silent' \subseteq Sessions /\ overdue' \subseteq Sessions
           /\ \A t \in Sessions : sess[t] # NoRow => sess'[t] # NoRow
<1> DEFINE c == Collected(s)
<1>1. Active(s)
    BY DEF Finalize
<1>2. /\ sess[s] \in SessionRow /\ c \in Nat /\ c <= balance[sess[s].user]
    BY <1>1, CollectedBounds DEF TypeInv
<1> HIDE DEF c
<1>3. balance' \in [Users -> Nat] /\ net' \in [Users -> Int]
    <2>1. /\ balance' = [balance EXCEPT ![sess[s].user] = @ - c]
          /\ net' = [net EXCEPT ![sess[s].user] = @ - c]
        BY DEF Finalize, c
    <2> QED
        BY <1>2, <2>1 DEF TypeInv, TypeOK, SessionRow
<1>4. plugStatus' \in [Plugs -> PlugStatus]
    BY <1>2 DEF Finalize, TypeInv, TypeOK, PlugStatus
<1>5. /\ sess' \in [Sessions -> SessionRow \cup {NoRow}]
      /\ \A t \in Sessions : sess[t] # NoRow => sess'[t] # NoRow
    <2>1. sess' = [sess EXCEPT ![s].status = "COMPLETED", ![s].spent = c]
        BY DEF Finalize, c
    <2>2. [[sess[s] EXCEPT !.status = "COMPLETED"] EXCEPT !.spent = c] \in SessionRow
        BY <1>2 DEF SessionRow
    <2>3. /\ sess'[s] \in SessionRow
          /\ \A t \in Sessions : t # s => sess'[t] = sess[t]
        BY <2>1, <2>2 DEF TypeInv, TypeOK
    <2>4. \A r \in SessionRow : r # NoRow
        BY DEF SessionRow, NoRow
    <2> QED
        BY <2>1, <2>3, <2>4 DEF TypeInv, TypeOK
<1>6. debits' \in [Sessions -> [rows : Nat, coins : Nat]]
    <2>1. debits' = [debits EXCEPT ![s] = [rows |-> @.rows + 1, coins |-> @.coins + c]]
        BY DEF Finalize, c
    <2> QED
        BY <1>2, <2>1 DEF TypeInv, TypeOK
<1>7. silent' \subseteq Sessions /\ overdue' \subseteq Sessions
    BY DEF Finalize, TypeInv, TypeOK
<1> QED
    BY <1>3, <1>4, <1>5, <1>6, <1>7

\* A frame or an edit of the limits: steps that keep a session running.
RunningStep(s) ==
    \/ \E reading \in 0 .. MaxEnergy : TelemetryFrame(s, reading)
    \/ \E limit \in KwhLimits : UpdateEnergyLimit(s, limit)
    \/ UpdateDurationLimit(s)

\* Such a step touches one ACTIVE row, which stays ACTIVE for the same user and
\* plug; it writes neither the ledger nor the plug.
LEMMA RunningRow ==
    ASSUME TypeInv, NEW s \in Sessions, RunningStep(s)
    PROVE  /\ Active(s) /\ sess[s] \in SessionRow /\ sess'[s].status = "ACTIVE"
           /\ sess'[s].user = sess[s].user /\ sess'[s].plug = sess[s].plug
           /\ \A t \in Sessions : t # s => sess'[t] = sess[t]
           /\ UNCHANGED <<debits, plugStatus, clearing>>
<1>1. Active(s)
    BY DEF RunningStep, TelemetryFrame, UpdateEnergyLimit, UpdateDurationLimit
<1>2. sess[s] \in SessionRow
    BY <1>1 DEF Active, NoRow, TypeInv, TypeOK
<1> USE <1>1, <1>2 DEF plugVars, TypeInv, TypeOK, SessionRow, Active
<1>3. ASSUME NEW reading \in 0 .. MaxEnergy, TelemetryFrame(s, reading)
      PROVE  /\ sess'[s].status = "ACTIVE"
             /\ sess'[s].user = sess[s].user /\ sess'[s].plug = sess[s].plug
             /\ \A t \in Sessions : t # s => sess'[t] = sess[t]
    BY <1>3 DEF TelemetryFrame
<1>4. ASSUME NEW limit \in KwhLimits, UpdateEnergyLimit(s, limit)
      PROVE  /\ sess'[s].status = "ACTIVE"
             /\ sess'[s].user = sess[s].user /\ sess'[s].plug = sess[s].plug
             /\ \A t \in Sessions : t # s => sess'[t] = sess[t]
    BY <1>4 DEF UpdateEnergyLimit
<1>5. CASE UpdateDurationLimit(s)
    BY <1>5 DEF UpdateDurationLimit
<1>6. UNCHANGED <<debits, plugStatus, clearing>>
    BY DEF RunningStep, TelemetryFrame, UpdateEnergyLimit, UpdateDurationLimit
<1> QED
    BY <1>3, <1>4, <1>5, <1>6 DEF RunningStep

\* A finalize completes one ACTIVE row and frees its plug.
LEMMA FinalizedRow ==
    ASSUME TypeInv, NEW s \in Sessions, Finalize(s)
    PROVE  /\ Active(s) /\ sess[s] \in SessionRow /\ sess'[s].status = "COMPLETED"
           /\ \A t \in Sessions : t # s => sess'[t] = sess[t] /\ debits'[t] = debits[t]
           /\ \A p \in Plugs : p # sess[s].plug => plugStatus'[p] = plugStatus[p]
<1>1. Active(s) /\ sess[s] \in SessionRow
    BY CollectedBounds DEF Finalize, TypeInv
<1> QED
    BY <1>1 DEF Finalize, TypeInv, TypeOK, SessionRow

\* A start gives out a new ACTIVE row on an AVAILABLE plug.
LEMMA StartedRow ==
    ASSUME TypeInv, NEW s \in Sessions, NEW u \in Users, NEW p \in Plugs,
           NEW limit \in KwhLimits \cup {NoLimit}, StartSession(s, u, p, limit)
    PROVE  /\ sess[s].status = "NONE" /\ sess'[s].status = "ACTIVE"
           /\ sess'[s].user = u /\ sess'[s].plug = p
           /\ \A t \in Sessions : t # s => sess'[t] = sess[t]
           /\ UNCHANGED <<debits, clearing>>
    BY DEF StartSession, NoRow, TypeInv, TypeOK

\* A rolled back start cancels its row, whatever the row had become.
LEMMA CancelledRow ==
    ASSUME TypeInv, NEW s \in Sessions, PublishFails(s)
    PROVE  /\ sess'[s] = [sess[s] EXCEPT !.status = "CANCELLED"]
           /\ sess'[s].status = "CANCELLED" /\ sess[s] \in SessionRow
           /\ \A t \in Sessions : t # s => sess'[t] = sess[t]
           /\ UNCHANGED debits
<1>1. sess[s] \in SessionRow
    BY DEF PublishFails, TypeInv, TypeOK, PublishingHasRow
<1> QED
    BY <1>1 DEF PublishFails, TypeInv, TypeOK, SessionRow

-----------------------------------------------------------------------------
(* Type correctness *)

\* The empty database is well typed.
LEMMA TypeInit == Init => TypeInv
    BY ConstantsAssumption
    DEF Init, TypeInv, TypeOK, PublishingHasRow, NoRow, PlugStatus

\* Top-ups, claw-backs and account closure keep every column in its domain.
LEMMA TypeWallet ==
    ASSUME TypeInv, NEW u \in Users, WalletStep(u)
    PROVE  TypeInv'
<1> USE DEF TypeInv, TypeOK, PublishingHasRow, plugVars, flightVars
<1>1. ASSUME NEW amount \in Amounts, Credit(u, amount) PROVE TypeInv'
    BY <1>1, ConstantsAssumption DEF Credit
<1>2. ASSUME NEW amount \in Amounts, ClawBack(u, amount) PROVE TypeInv'
    <2>1. /\ amount \in Nat /\ balance[u] \in Nat /\ net[u] \in Int
        BY ConstantsAssumption
    <2>2. /\ balance[u] - Lesser(amount, balance[u]) \in Nat
          /\ net[u] - Lesser(amount, balance[u]) \in Int
        BY <2>1 DEF Lesser
    <2> QED
        BY <1>2, <2>2 DEF ClawBack
<1>3. CASE CloseAccountCheck(u)
    BY <1>3 DEF CloseAccountCheck
<1>4. CASE CloseAccount(u)
    BY <1>4 DEF CloseAccount
<1> QED
    BY <1>1, <1>2, <1>3, <1>4 DEF WalletStep

\* A step of a session - start, publish, frame, limits edit, stop - keeps every
\* column in its domain.
LEMMA TypeSession ==
    ASSUME TypeInv, NEW s \in Sessions, SessionStep(s)
    PROVE  TypeInv'
<1> USE DEF TypeInv, TypeOK, PublishingHasRow, plugVars, walletVars, flightVars
<1>0. \A r \in SessionRow : r # NoRow
    BY DEF SessionRow, NoRow
<1>1. ASSUME NEW u \in Users, NEW p \in Plugs, NEW limit \in KwhLimits \cup {NoLimit},
             StartSession(s, u, p, limit)
      PROVE  TypeInv'
    <2>1. PICK available \in MinStart .. MaxCoins :
              sess' = [sess EXCEPT ![s] =
                         [status |-> "ACTIVE", user |-> u, plug |-> p, energy |-> 0,
                          hold |-> StartHold(available, limit), limit |-> limit,
                          spent |-> 0]]
        BY <1>1 DEF StartSession
    <2>2. available \in Nat /\ limit \in Nat \cup {NoLimit}
        BY ConstantsAssumption
    <2>3. StartHold(available, limit) \in Nat
        <3>1. limit # NoLimit => Cost(limit) \in Nat
            BY <2>2, ConstantsAssumption DEF Cost
        <3> QED
            BY <2>2, <3>1 DEF StartHold, Lesser
    <2>4. sess'[s] \in SessionRow /\ \A t \in Sessions : t # s => sess'[t] = sess[t]
        BY <2>1, <2>2, <2>3 DEF SessionRow
    <2>5. sess' \in [Sessions -> SessionRow \cup {NoRow}]
        BY <2>1, <2>4
    <2> QED
        BY <1>0, <1>1, <2>4, <2>5 DEF StartSession, PlugStatus
<1>2. CASE PublishSucceeds(s)
    BY <1>2 DEF PublishSucceeds
<1>3. CASE PublishFails(s)
    <2>1. sess[s] \in SessionRow
        BY <1>3 DEF PublishFails
    <2>2. /\ sess'[s] \in SessionRow
          /\ \A t \in Sessions : t # s => sess'[t] = sess[t]
          /\ sess' \in [Sessions -> SessionRow \cup {NoRow}]
        BY <1>3, <2>1 DEF PublishFails, SessionRow
    <2>3. plugStatus' \in [Plugs -> PlugStatus]
        BY <1>3, <2>1 DEF PublishFails, SessionRow, PlugStatus
    <2> QED
        BY <1>0, <1>3, <2>2, <2>3 DEF PublishFails
<1>4. ASSUME NEW reading \in 0 .. MaxEnergy, TelemetryFrame(s, reading) PROVE TypeInv'
    <2>1. sess[s] \in SessionRow
        BY <1>4 DEF TelemetryFrame, Active, NoRow
    <2>2. Greater(sess[s].energy, reading) \in Nat
        BY <2>1, ConstantsAssumption DEF Greater, SessionRow
    <2>3. sess' = [sess EXCEPT ![s].energy = Greater(sess[s].energy, reading)]
        BY <1>4 DEF TelemetryFrame
    <2>4. /\ sess'[s] \in SessionRow
          /\ \A t \in Sessions : t # s => sess'[t] = sess[t]
          /\ sess' \in [Sessions -> SessionRow \cup {NoRow}]
        BY <2>1, <2>2, <2>3 DEF SessionRow
    <2> QED
        BY <1>0, <1>4, <2>4 DEF TelemetryFrame
<1>5. CASE FallSilent(s)
    BY <1>5 DEF FallSilent
<1>6. CASE PassDeadline(s)
    BY <1>6 DEF PassDeadline
<1>7. ASSUME NEW limit \in Nat \cup {NoLimit}, NEW headroom \in Int, Active(s)
      PROVE  ResizedHold(s, limit, headroom) \in Nat
    <2>1. sess[s] \in SessionRow
        BY <1>7 DEF Active, NoRow
    <2>2. Cost(sess[s].energy) \in Nat /\ (limit # NoLimit => Cost(limit) \in Nat)
        BY <2>1, ConstantsAssumption DEF Cost, SessionRow
    <2> QED
        BY <2>1, <2>2 DEF ResizedHold, Greater, Lesser, SessionRow
<1>8. ASSUME NEW limit \in KwhLimits, UpdateEnergyLimit(s, limit) PROVE TypeInv'
    <2>1. PICK headroom \in -MaxCoins .. MaxCoins :
              sess' = [sess EXCEPT ![s].limit = limit,
                                   ![s].hold = ResizedHold(s, limit, headroom)]
        BY <1>8 DEF UpdateEnergyLimit
    <2>2. sess[s] \in SessionRow
        BY <1>8 DEF UpdateEnergyLimit, Active, NoRow
    <2>3. ResizedHold(s, limit, headroom) \in Nat /\ limit \in Nat
        BY <1>7, <1>8, ConstantsAssumption DEF UpdateEnergyLimit
    <2>4. /\ sess'[s] \in SessionRow
          /\ \A t \in Sessions : t # s => sess'[t] = sess[t]
          /\ sess' \in [Sessions -> SessionRow \cup {NoRow}]
        BY <2>1, <2>2, <2>3 DEF SessionRow
    <2> QED
        BY <1>0, <1>8, <2>4 DEF UpdateEnergyLimit
<1>9. CASE UpdateDurationLimit(s)
    <2>1. PICK headroom \in -MaxCoins .. MaxCoins :
              sess' = [sess EXCEPT ![s].hold = ResizedHold(s, sess[s].limit, headroom)]
        BY <1>9 DEF UpdateDurationLimit
    <2>2. sess[s] \in SessionRow
        BY <1>9 DEF UpdateDurationLimit, Active, NoRow
    <2>3. ResizedHold(s, sess[s].limit, headroom) \in Nat
        BY <1>7, <1>9, <2>2, ConstantsAssumption DEF UpdateDurationLimit, SessionRow
    <2>4. /\ sess'[s] \in SessionRow
          /\ \A t \in Sessions : t # s => sess'[t] = sess[t]
          /\ sess' \in [Sessions -> SessionRow \cup {NoRow}]
        BY <2>1, <2>2, <2>3 DEF SessionRow
    <2> QED
        BY <1>0, <1>9, <2>4 DEF UpdateDurationLimit
<1>10. CASE StopSession(s)
    BY <1>10, FinalizeType DEF StopSession
<1>11. CASE AutoStop(s)
    BY <1>11, FinalizeType DEF AutoStop, NothingFinalized
<1> QED
    BY <1>1, <1>2, <1>3, <1>4, <1>5, <1>6, <1>8, <1>9, <1>10, <1>11 DEF SessionStep

\* Alarm handlers and operator writes keep every column in its domain.
LEMMA TypePlug ==
    ASSUME TypeInv, NEW p \in Plugs, PlugStep(p)
    PROVE  TypeInv'
<1> USE DEF TypeInv, TypeOK, PublishingHasRow, plugVars, walletVars, flightVars, PlugStatus
<1>1. CASE SoftCutoff(p)
    BY <1>1 DEF SoftCutoff, ActiveOn
<1>2. CASE CutoffAlarm(p)
    BY <1>2 DEF CutoffAlarm, ActiveOn
<1>3. CASE CutoffSettle(p)
    <2>1. cutoff' \in [Plugs -> Sessions \cup {"idle", "maintain"}]
        BY <1>3 DEF CutoffSettle
    <2>2. CASE \E s \in Sessions : Finalize(s)
        BY <1>3, <2>1, <2>2, FinalizeType DEF CutoffSettle
    <2>3. CASE NothingFinalized
        BY <1>3, <2>1, <2>3 DEF CutoffSettle, NothingFinalized
    <2> QED
        BY <1>3, <2>2, <2>3 DEF CutoffSettle
<1>4. CASE CutoffMaintain(p)
    BY <1>4 DEF CutoffMaintain
<1>5. CASE MaintenanceEnter(p)
    BY <1>5 DEF MaintenanceEnter
<1>6. CASE MaintenanceClearCheck(p)
    BY <1>6 DEF MaintenanceClearCheck
<1>7. CASE MaintenanceClear(p)
    BY <1>7 DEF MaintenanceClear
<1>8. ASSUME NEW status \in PlugStatus, UpdatePlug(p, status) PROVE TypeInv'
    BY <1>8 DEF UpdatePlug
<1> QED
    BY <1>1, <1>2, <1>3, <1>4, <1>5, <1>6, <1>7, <1>8 DEF PlugStep

\* TypeInv is inductive.
LEMMA TypeStep == TypeInv /\ [Next]_vars => TypeInv'
<1> SUFFICES ASSUME TypeInv, [Next]_vars PROVE TypeInv'
    OBVIOUS
<1>1. CASE ReaperScan
    BY <1>1 DEF ReaperScan, TypeInv, TypeOK, PublishingHasRow, walletVars, plugVars
<1>2. CASE UNCHANGED vars
    BY <1>2 DEF vars, walletVars, plugVars, flightVars, TypeInv, TypeOK, PublishingHasRow
<1> QED
    BY <1>1, <1>2, TypeWallet, TypeSession, TypePlug DEF Next

\* In every reachable state every column holds a value of its domain; no wallet
\* is negative, whatever finalizers, refunds and edits interleave.
THEOREM TypeCorrect == Spec => []TypeOK
<1>1. Init => TypeInv
    BY TypeInit
<1>2. TypeInv /\ [Next]_vars => TypeInv'
    BY TypeStep
<1>3. TypeInv => TypeOK
    BY DEF TypeInv
<1> QED
    BY <1>1, <1>2, <1>3, PTL DEF Spec
-----------------------------------------------------------------------------
(* Settlement *)

\* SettledOnce says of an unsettled session only that it has no debit row; for
\* the amount of the first row to be the amount of the receipt, the total of its
\* rows must be zero as well.
Settlement ==
    \A s \in Sessions :
        /\ debits[s].rows <= 1
        /\ sess[s].status \in {"NONE", "ACTIVE"} => debits[s] = [rows |-> 0, coins |-> 0]
        /\ sess[s].status = "COMPLETED" => debits[s] = [rows |-> 1, coins |-> sess[s].spent]

BillInv == Settlement /\ NeverOvercharged

\* A finalize settles a session that has not been settled, and touches no other.
LEMMA FinalizeBill ==
    ASSUME TypeInv, BillInv, NEW s \in Sessions, Finalize(s)
    PROVE  BillInv'
<1> DEFINE c == Collected(s)
<1>1. Active(s)
    BY DEF Finalize
<1>2. /\ sess[s] \in SessionRow /\ c \in Nat
      /\ c <= sess[s].hold /\ c <= Cost(sess[s].energy)
    BY <1>1, CollectedBounds DEF TypeInv
<1>3. debits[s] = [rows |-> 0, coins |-> 0]
    BY <1>1 DEF BillInv, Settlement, Active
<1> HIDE DEF c
<1>4. /\ debits' = [debits EXCEPT ![s] = [rows |-> @.rows + 1, coins |-> @.coins + c]]
      /\ sess' = [sess EXCEPT ![s].status = "COMPLETED", ![s].spent = c]
    BY DEF Finalize, c
<1>5. debits'[s] = [rows |-> 1, coins |-> c]
    BY <1>2, <1>3, <1>4 DEF TypeInv, TypeOK
<1>6. /\ sess'[s].status = "COMPLETED" /\ sess'[s].spent = c
      /\ sess'[s].hold = sess[s].hold /\ sess'[s].energy = sess[s].energy
    BY <1>2, <1>4 DEF TypeInv, TypeOK, SessionRow
<1>7. \A t \in Sessions : t # s => debits'[t] = debits[t] /\ sess'[t] = sess[t]
    BY <1>4 DEF TypeInv, TypeOK
<1>8. Settlement'
    BY <1>5, <1>6, <1>7 DEF BillInv, Settlement
<1>9. NeverOvercharged'
    BY <1>2, <1>6, <1>7 DEF BillInv, NeverOvercharged, Cost
<1> QED
    BY <1>8, <1>9 DEF BillInv

\* A step that writes no debit row and changes a session only while it is not
\* settled, or only cancels it, keeps every bill.
LEMMA NoBillStep ==
    ASSUME BillInv, UNCHANGED debits,
           \A s \in Sessions :
               \/ sess'[s] = sess[s]
               \/ sess[s].status \in {"NONE", "ACTIVE"} /\ sess'[s].status = "ACTIVE"
               \/ sess'[s].status = "CANCELLED"
    PROVE  BillInv'
    BY DEF BillInv, Settlement, NeverOvercharged, Cost

\* BillInv is inductive, relative to TypeInv.
LEMMA BillStep == TypeInv /\ BillInv /\ [Next]_vars => BillInv'
<1> SUFFICES ASSUME TypeInv, BillInv, [Next]_vars PROVE BillInv'
    OBVIOUS
<1> USE DEF walletVars, plugVars, flightVars
<1>1. ASSUME UNCHANGED <<sess, debits>> PROVE BillInv'
    BY <1>1, NoBillStep
<1>2. ASSUME NEW u \in Users, WalletStep(u) PROVE BillInv'
    BY <1>1, <1>2 DEF WalletStep, Credit, ClawBack, CloseAccountCheck, CloseAccount
<1>3. ASSUME NEW s \in Sessions, SessionStep(s) PROVE BillInv'
    <2>1. ASSUME NEW u \in Users, NEW p \in Plugs, NEW limit \in KwhLimits \cup {NoLimit},
                 StartSession(s, u, p, limit)
          PROVE  BillInv'
        BY <2>1, StartedRow, NoBillStep
    <2>2. CASE PublishFails(s)
        BY <2>2, CancelledRow, NoBillStep
    <2>3. CASE RunningStep(s)
        BY <2>3, RunningRow, NoBillStep DEF Active
    <2>4. CASE StopSession(s) \/ AutoStop(s)
        BY <1>1, <2>4, FinalizeBill DEF StopSession, AutoStop, NothingFinalized
    <2> QED
        BY <1>1, <1>3, <2>1, <2>2, <2>3, <2>4
        DEF SessionStep, RunningStep, PublishSucceeds, FallSilent, PassDeadline
<1>4. ASSUME NEW p \in Plugs, PlugStep(p) PROVE BillInv'
    <2>1. CASE CutoffSettle(p)
        BY <1>1, <2>1, FinalizeBill DEF CutoffSettle, NothingFinalized
    <2> QED
        BY <1>1, <1>4, <2>1
        DEF PlugStep, SoftCutoff, CutoffAlarm, CutoffMaintain, MaintenanceEnter,
            MaintenanceClearCheck, MaintenanceClear, UpdatePlug
<1>5. CASE ReaperScan \/ UNCHANGED vars
    BY <1>1, <1>5 DEF ReaperScan, vars
<1> QED
    BY <1>2, <1>3, <1>4, <1>5 DEF Next

\* The bills of finalize_charging_session are in order in every reachable state.
LEMMA BillAlways == Spec => [](TypeInv /\ BillInv)
<1>1. Init => TypeInv /\ BillInv
    <2>1. Init => BillInv
        BY DEF Init, BillInv, Settlement, NeverOvercharged, NoRow
    <2> QED
        BY <2>1, TypeInit
<1> QED
    BY <1>1, TypeStep, BillStep, PTL DEF Spec

\* However driver stops, auto-stops, the reaper, alarm handlers and late publish
\* failures interleave, finalize_charging_session writes at most one debit row
\* for a session, and the receipt shows its amount.
THEOREM SettledOnceHolds == Spec => []SettledOnce
<1>1. TypeInv /\ BillInv => SettledOnce
    BY DEF BillInv, Settlement, SettledOnce
<1> QED
    BY <1>1, BillAlways, PTL

\* finalize_charging_session never collects more than the session's hold or its
\* metered cost, with any edits of limits and any frames in between.
THEOREM NeverOverchargedHolds == Spec => []NeverOvercharged
<1>1. TypeInv /\ BillInv => NeverOvercharged
    BY DEF BillInv
<1> QED
    BY <1>1, BillAlways, PTL

\* finalize_charging_session debits a session once and within its hold and cost,
\* for any number of callers.
THEOREM ChargedOnceWithinHoldHolds == Spec => []ChargedOnceWithinHold
<1>1. SettledOnce /\ NeverOvercharged => ChargedOnceWithinHold
    BY DEF ChargedOnceWithinHold
<1> QED
    BY <1>1, SettledOnceHolds, NeverOverchargedHolds, PTL

\* What BillFrozen says of one step.
BillKept ==
    \A s \in Sessions : sess[s].status = "COMPLETED" =>
        /\ debits'[s] = debits[s]
        /\ <<sess'[s].energy, sess'[s].hold, sess'[s].spent>>
             = <<sess[s].energy, sess[s].hold, sess[s].spent>>

\* No step rewrites a settled bill: frames, edits and finalizers act on ACTIVE
\* rows, and a rollback writes the status only.
LEMMA BillKeptStep == TypeInv /\ [Next]_vars => BillKept
<1> SUFFICES ASSUME TypeInv, [Next]_vars PROVE BillKept
    OBVIOUS
<1> USE DEF walletVars, plugVars, flightVars
<1>1. ASSUME UNCHANGED <<sess, debits>> PROVE BillKept
    BY <1>1 DEF BillKept
<1>2. ASSUME NEW u \in Users, WalletStep(u) PROVE BillKept
    BY <1>1, <1>2 DEF WalletStep, Credit, ClawBack, CloseAccountCheck, CloseAccount
<1>3. ASSUME NEW s \in Sessions, Finalize(s) PROVE BillKept
    BY <1>3, FinalizedRow DEF BillKept, Active
<1>4. ASSUME NEW s \in Sessions, SessionStep(s) PROVE BillKept
    <2>1. ASSUME NEW u \in Users, NEW p \in Plugs, NEW limit \in KwhLimits \cup {NoLimit},
                 StartSession(s, u, p, limit)
          PROVE  BillKept
        BY <2>1, StartedRow DEF BillKept
    <2>2. CASE PublishFails(s)
        BY <2>2, CancelledRow DEF BillKept, SessionRow
    <2>3. CASE RunningStep(s)
        BY <2>3, RunningRow DEF BillKept, Active
    <2>4. CASE StopSession(s) \/ AutoStop(s)
        BY <1>1, <1>3, <2>4 DEF StopSession, AutoStop, NothingFinalized
    <2> QED
        BY <1>1, <1>4, <2>1, <2>2, <2>3, <2>4
        DEF SessionStep, RunningStep, PublishSucceeds, FallSilent, PassDeadline
<1>5. ASSUME NEW p \in Plugs, PlugStep(p) PROVE BillKept
    <2>1. CASE CutoffSettle(p)
        BY <1>1, <1>3, <2>1 DEF CutoffSettle, NothingFinalized
    <2> QED
        BY <1>1, <1>5, <2>1
        DEF PlugStep, SoftCutoff, CutoffAlarm, CutoffMaintain, MaintenanceEnter,
            MaintenanceClearCheck, MaintenanceClear, UpdatePlug
<1>6. CASE ReaperScan \/ UNCHANGED vars
    BY <1>1, <1>6 DEF ReaperScan, vars
<1> QED
    BY <1>2, <1>4, <1>5, <1>6 DEF Next

\* Once finalize_charging_session has committed, no late frame, limits edit,
\* second finalizer or publish rollback changes the energy, the hold or the
\* amount of the bill.
THEOREM BillFrozenHolds == Spec => BillFrozen
<1>1. Spec => []TypeInv
    BY TypeInit, TypeStep, PTL DEF Spec
<1>2. TypeInv /\ [Next]_vars => [BillKept]_vars
    BY BillKeptStep
<1> QED
    BY <1>1, <1>2, PTL DEF Spec, BillFrozen, BillKept

\* What LimitsNeverForgive says of one step: the amount owed under the hold does
\* not fall while a session runs.
OwedKept ==
    \A s \in Sessions : Active(s) /\ Active(s)' =>
        Lesser(Cost(sess'[s].energy), sess'[s].hold)
          >= Lesser(Cost(sess[s].energy), sess[s].hold)

\* The cost grows with the energy.
LEMMA CostMonotone ==
    ASSUME NEW a \in Nat, NEW b \in Nat, a <= b
    PROVE  Cost(a) \in Nat /\ Cost(b) \in Nat /\ Cost(a) <= Cost(b)
<1>1. Rate \in Nat
    BY ConstantsAssumption
<1>2. PICK d \in Nat : b = a + d
    BY SMT
<1>3. d * Rate \in Nat /\ a * Rate \in Nat
    BY <1>1
<1>4. b * Rate = a * Rate + d * Rate
    BY <1>1, <1>2
<1> QED
    BY <1>3, <1>4 DEF Cost

\* A frame only raises the energy under an unchanged hold; an edit of the limits
\* keeps the hold at the accrued cost or above, or leaves it alone.
LEMMA RunningOwed ==
    ASSUME TypeInv, TypeInv', NEW s \in Sessions, RunningStep(s)
    PROVE  Lesser(Cost(sess'[s].energy), sess'[s].hold)
             >= Lesser(Cost(sess[s].energy), sess[s].hold)
<1>1. sess[s] \in SessionRow /\ sess'[s] \in SessionRow
    BY RunningRow DEF TypeInv, TypeOK, NoRow
<1>2. /\ sess[s].energy \in Nat /\ sess[s].hold \in Nat
      /\ sess'[s].energy \in Nat /\ sess'[s].hold \in Nat
    BY <1>1 DEF SessionRow
<1>3. Cost(sess[s].energy) \in Nat /\ Cost(sess'[s].energy) \in Nat
    BY <1>2, CostMonotone
<1>4. ASSUME NEW reading \in 0 .. MaxEnergy, TelemetryFrame(s, reading)
      PROVE  sess'[s].energy >= sess[s].energy /\ sess'[s].hold = sess[s].hold
    BY <1>1, <1>2, <1>4, ConstantsAssumption DEF TelemetryFrame, Greater, TypeInv, TypeOK, SessionRow
<1>5. ASSUME NEW limit, NEW headroom \in -MaxCoins .. MaxCoins,
             limit \in Nat \cup {NoLimit},
             sess'[s].energy = sess[s].energy,
             sess'[s].hold = ResizedHold(s, limit, headroom)
      PROVE  \/ sess'[s].hold = sess[s].hold
             \/ sess'[s].hold >= Cost(sess[s].energy)
    <2>1. CASE limit = NoLimit
        BY <1>5, <2>1 DEF ResizedHold
    <2>2. CASE limit \in Nat
        <3>1. Cost(limit) \in Nat /\ headroom \in Int
            BY <2>2, CostMonotone, ConstantsAssumption
        <3>2. Lesser(headroom, Cost(limit)) \in Int
            BY <3>1 DEF Lesser
        <3> QED
            BY <1>3, <1>5, <2>2, <3>2, ConstantsAssumption DEF ResizedHold, Greater
    <2> QED
        BY <1>5, <2>1, <2>2
<1>6. ASSUME NEW limit \in KwhLimits, UpdateEnergyLimit(s, limit)
      PROVE  /\ sess'[s].energy = sess[s].energy
             /\ \/ sess'[s].hold = sess[s].hold
                \/ sess'[s].hold >= Cost(sess[s].energy)
    <2>1. PICK headroom \in -MaxCoins .. MaxCoins :
              sess' = [sess EXCEPT ![s].limit = limit,
                                   ![s].hold = ResizedHold(s, limit, headroom)]
        BY <1>6 DEF UpdateEnergyLimit
    <2>2. sess'[s].energy = sess[s].energy /\ sess'[s].hold = ResizedHold(s, limit, headroom)
        BY <1>1, <2>1 DEF TypeInv, TypeOK, SessionRow
    <2> QED
        BY <1>5, <2>2, ConstantsAssumption
<1>7. ASSUME UpdateDurationLimit(s)
      PROVE  /\ sess'[s].energy = sess[s].energy
             /\ \/ sess'[s].hold = sess[s].hold
                \/ sess'[s].hold >= Cost(sess[s].energy)
    <2>1. PICK headroom \in -MaxCoins .. MaxCoins :
              sess' = [sess EXCEPT ![s].hold = ResizedHold(s, sess[s].limit, headroom)]
        BY <1>7 DEF UpdateDurationLimit
    <2>2. /\ sess'[s].energy = sess[s].energy
          /\ sess'[s].hold = ResizedHold(s, sess[s].limit, headroom)
          /\ sess[s].limit \in Nat \cup {NoLimit}
        BY <1>1, <2>1 DEF TypeInv, TypeOK, SessionRow
    <2> QED
        BY <1>5, <2>2
<1>8. \/ sess'[s].energy >= sess[s].energy /\ sess'[s].hold = sess[s].hold
      \/ sess'[s].energy = sess[s].energy /\ sess'[s].hold >= Cost(sess[s].energy)
    BY <1>2, <1>4, <1>6, <1>7 DEF RunningStep
<1>9. Cost(sess[s].energy) <= Cost(sess'[s].energy)
    BY <1>2, <1>8, CostMonotone
<1> QED
    BY <1>2, <1>3, <1>8, <1>9 DEF Lesser

\* No step lowers what a running session owes under its hold.
LEMMA OwedKeptStep == TypeInv /\ TypeInv' /\ [Next]_vars => OwedKept
<1> SUFFICES ASSUME TypeInv, TypeInv', [Next]_vars PROVE OwedKept
    OBVIOUS
<1> USE DEF walletVars, plugVars, flightVars
<1>0. ASSUME NEW s \in Sessions, Active(s)
      PROVE  Lesser(Cost(sess[s].energy), sess[s].hold)
               >= Lesser(Cost(sess[s].energy), sess[s].hold)
    <2>1. sess[s].energy \in Nat /\ sess[s].hold \in Nat
        BY <1>0 DEF Active, NoRow, TypeInv, TypeOK, SessionRow
    <2> QED
        BY <2>1, CostMonotone DEF Lesser
<1>1. ASSUME \A s \in Sessions : Active(s) /\ Active(s)' => sess'[s] = sess[s]
      PROVE  OwedKept
    BY <1>0, <1>1 DEF OwedKept
<1>2. ASSUME NEW u \in Users, WalletStep(u) PROVE OwedKept
    BY <1>1, <1>2 DEF WalletStep, Credit, ClawBack, CloseAccountCheck, CloseAccount
<1>3. ASSUME NEW s \in Sessions, Finalize(s) PROVE OwedKept
    BY <1>1, <1>3, FinalizedRow DEF Active
<1>4. ASSUME NEW s \in Sessions, SessionStep(s) PROVE OwedKept
    <2>1. ASSUME NEW u \in Users, NEW p \in Plugs, NEW limit \in KwhLimits \cup {NoLimit},
                 StartSession(s, u, p, limit)
          PROVE  OwedKept
        BY <1>1, <2>1, StartedRow DEF Active
    <2>2. CASE PublishFails(s)
        BY <1>1, <2>2, CancelledRow DEF Active
    <2>3. CASE RunningStep(s)
        BY <1>0, <2>3, RunningRow, RunningOwed DEF OwedKept
    <2>4. CASE StopSession(s) \/ AutoStop(s)
        BY <1>1, <1>3, <2>4 DEF StopSession, AutoStop, NothingFinalized
    <2> QED
        BY <1>1, <1>4, <2>1, <2>2, <2>3, <2>4
        DEF SessionStep, RunningStep, PublishSucceeds, FallSilent, PassDeadline
<1>5. ASSUME NEW p \in Plugs, PlugStep(p) PROVE OwedKept
    <2>1. CASE CutoffSettle(p)
        BY <1>1, <1>3, <2>1 DEF CutoffSettle, NothingFinalized
    <2> QED
        BY <1>1, <1>5, <2>1
        DEF PlugStep, SoftCutoff, CutoffAlarm, CutoffMaintain, MaintenanceEnter,
            MaintenanceClearCheck, MaintenanceClear, UpdatePlug
<1>6. CASE ReaperScan \/ UNCHANGED vars
    BY <1>1, <1>6 DEF ReaperScan, vars
<1> QED
    BY <1>2, <1>4, <1>5, <1>6 DEF Next

\* No sequence of PATCHed limits lets a driver owe less than the energy already
\* delivered under the hold: the floor in update_session_limits is sufficient,
\* for every tariff and every headroom.
THEOREM LimitsNeverForgiveHolds == Spec => LimitsNeverForgive
<1>1. Spec => []TypeInv
    BY TypeInit, TypeStep, PTL DEF Spec
<1>2. TypeInv /\ TypeInv' /\ [Next]_vars => [OwedKept]_vars
    BY OwedKeptStep
<1> QED
    BY <1>1, <1>2, PTL DEF Spec, LimitsNeverForgive, OwedKept
-----------------------------------------------------------------------------
(* The wallet and its ledger *)

\* The debit of a finalize and its ledger row are the same amount.
LEMMA FinalizeReconciled ==
    ASSUME TypeInv, WalletReconciled, NEW s \in Sessions, Finalize(s)
    PROVE  WalletReconciled'
    BY CollectedBounds DEF Finalize, WalletReconciled, TypeInv, TypeOK, SessionRow

\* WalletReconciled is inductive, relative to TypeInv.
LEMMA ReconciledStep == TypeInv /\ WalletReconciled /\ [Next]_vars => WalletReconciled'
<1> SUFFICES ASSUME TypeInv, WalletReconciled, [Next]_vars PROVE WalletReconciled'
    OBVIOUS
<1> USE DEF walletVars, plugVars, flightVars
<1>1. ASSUME UNCHANGED <<balance, net>> PROVE WalletReconciled'
    BY <1>1 DEF WalletReconciled
<1>2. ASSUME NEW u \in Users, WalletStep(u) PROVE WalletReconciled'
    <2>1. ASSUME NEW amount \in Amounts, Credit(u, amount) PROVE WalletReconciled'
        BY <2>1 DEF Credit, WalletReconciled, TypeInv, TypeOK
    <2>2. ASSUME NEW amount \in Amounts, ClawBack(u, amount) PROVE WalletReconciled'
        BY <2>2 DEF ClawBack, WalletReconciled, TypeInv, TypeOK
    <2>3. CASE CloseAccountCheck(u)
        BY <1>1, <2>3 DEF CloseAccountCheck
    <2>4. CASE CloseAccount(u)
        BY <2>4 DEF CloseAccount, WalletReconciled, TypeInv, TypeOK
    <2> QED
        BY <1>2, <2>1, <2>2, <2>3, <2>4 DEF WalletStep
<1>3. ASSUME NEW s \in Sessions, SessionStep(s) PROVE WalletReconciled'
    <2>1. CASE StopSession(s) \/ AutoStop(s)
        BY <1>1, <2>1, FinalizeReconciled DEF StopSession, AutoStop, NothingFinalized
    <2> QED
        BY <1>1, <1>3, <2>1
        DEF SessionStep, StartSession, PublishSucceeds, PublishFails, TelemetryFrame,
            FallSilent, PassDeadline, UpdateEnergyLimit, UpdateDurationLimit
<1>4. ASSUME NEW p \in Plugs, PlugStep(p) PROVE WalletReconciled'
    <2>1. CASE CutoffSettle(p)
        BY <1>1, <2>1, FinalizeReconciled DEF CutoffSettle, NothingFinalized
    <2> QED
        BY <1>1, <1>4, <2>1
        DEF PlugStep, SoftCutoff, CutoffAlarm, CutoffMaintain, MaintenanceEnter,
            MaintenanceClearCheck, MaintenanceClear, UpdatePlug
<1>5. CASE ReaperScan \/ UNCHANGED vars
    BY <1>1, <1>5 DEF ReaperScan, vars
<1> QED
    BY <1>2, <1>3, <1>4, <1>5 DEF Next

\* debit_wallet_clamped, credit_wallet, the claw-backs and account closure keep
\* every user's ledger rows summing to the balance.
THEOREM WalletReconciledHolds == Spec => []WalletReconciled
<1>1. Init => TypeInv /\ WalletReconciled
    BY TypeInit DEF Init, WalletReconciled
<1> QED
    BY <1>1, TypeStep, ReconciledStep, PTL DEF Spec
-----------------------------------------------------------------------------
(* The cap on concurrent sessions *)

\* Every step but a start leaves each user at most the ACTIVE sessions they had.
LEMMA ActiveShrinks ==
    ASSUME ActiveCap, NEW u \in Users, ActiveOf(u)' \subseteq ActiveOf(u)
    PROVE  Cardinality(ActiveOf(u)') <= MaxActive
<1>1. IsFiniteSet(ActiveOf(u))
    BY ConstantsAssumption, FS_Subset DEF ActiveOf
<1>2. /\ Cardinality(ActiveOf(u)') <= Cardinality(ActiveOf(u))
      /\ Cardinality(ActiveOf(u)) \in Nat /\ Cardinality(ActiveOf(u)') \in Nat
    BY <1>1, FS_Subset, FS_CardinalityType
<1>3. Cardinality(ActiveOf(u)) <= MaxActive
    BY DEF ActiveCap
<1> QED
    BY <1>2, <1>3, ConstantsAssumption

\* ActiveCap is inductive, relative to TypeInv.
LEMMA CapStep == TypeInv /\ ActiveCap /\ [Next]_vars => ActiveCap'
<1> SUFFICES ASSUME TypeInv, ActiveCap, [Next]_vars, NEW u \in Users
             PROVE  Cardinality(ActiveOf(u)') <= MaxActive
    BY DEF ActiveCap
<1> USE DEF walletVars, plugVars, flightVars
<1>1. ASSUME \A s \in Sessions : Active(s)' => Active(s) /\ sess'[s].user = sess[s].user
      PROVE  Cardinality(ActiveOf(u)') <= MaxActive
    <2>1. ActiveOf(u)' \subseteq ActiveOf(u)
        BY <1>1 DEF ActiveOf
    <2> QED
        BY <2>1, ActiveShrinks
<1>2. ASSUME UNCHANGED sess PROVE Cardinality(ActiveOf(u)') <= MaxActive
    BY <1>1, <1>2 DEF Active
<1>3. ASSUME NEW s \in Sessions, Finalize(s) PROVE Cardinality(ActiveOf(u)') <= MaxActive
    BY <1>1, <1>3, FinalizedRow DEF Active
<1>4. ASSUME NEW s \in Sessions, SessionStep(s) PROVE Cardinality(ActiveOf(u)') <= MaxActive
    <2>1. ASSUME NEW v \in Users, NEW p \in Plugs, NEW limit \in KwhLimits \cup {NoLimit},
                 StartSession(s, v, p, limit)
          PROVE  Cardinality(ActiveOf(u)') <= MaxActive
        <3>1. /\ sess'[s].user = v
              /\ \A t \in Sessions : t # s => sess'[t] = sess[t]
            BY <2>1, StartedRow
        <3>2. CASE u # v
            <4>1. ActiveOf(u)' \subseteq ActiveOf(u)
                BY <3>1, <3>2 DEF ActiveOf, Active
            <4> QED
                BY <4>1, ActiveShrinks
        <3>3. CASE u = v
            <4>1. IsFiniteSet(ActiveOf(u))
                BY ConstantsAssumption, FS_Subset DEF ActiveOf
            <4>2. ActiveOf(u)' \subseteq ActiveOf(u) \cup {s}
                BY <3>1 DEF ActiveOf, Active
            <4>3. /\ IsFiniteSet(ActiveOf(u) \cup {s})
                  /\ Cardinality(ActiveOf(u) \cup {s}) <= Cardinality(ActiveOf(u)) + 1
                <5>1. Cardinality(ActiveOf(u)) \in Nat
                    BY <4>1, FS_CardinalityType
                <5> QED
                    BY <4>1, <5>1, FS_AddElement
            <4>4. /\ Cardinality(ActiveOf(u)') <= Cardinality(ActiveOf(u) \cup {s})
                  /\ Cardinality(ActiveOf(u)') \in Nat
                  /\ Cardinality(ActiveOf(u) \cup {s}) \in Nat
                  /\ Cardinality(ActiveOf(u)) \in Nat
                BY <4>1, <4>2, <4>3, FS_Subset, FS_CardinalityType
            <4>5. Cardinality(ActiveOf(u)) < MaxActive
                BY <2>1, <3>3 DEF StartSession, MayStart
            <4> QED
                BY <4>3, <4>4, <4>5, ConstantsAssumption
        <3> QED
            BY <3>2, <3>3
    <2>2. CASE PublishFails(s)
        BY <1>1, <2>2, CancelledRow DEF Active
    <2>3. CASE RunningStep(s)
        BY <1>1, <2>3, RunningRow DEF Active
    <2>4. CASE StopSession(s) \/ AutoStop(s)
        BY <1>2, <1>3, <2>4 DEF StopSession, AutoStop, NothingFinalized
    <2> QED
        BY <1>2, <1>4, <2>1, <2>2, <2>3, <2>4
        DEF SessionStep, RunningStep, PublishSucceeds, FallSilent, PassDeadline
<1>5. ASSUME NEW p \in Plugs, PlugStep(p) PROVE Cardinality(ActiveOf(u)') <= MaxActive
    <2>1. CASE CutoffSettle(p)
        BY <1>2, <1>3, <2>1 DEF CutoffSettle, NothingFinalized
    <2> QED
        BY <1>2, <1>5, <2>1
        DEF PlugStep, SoftCutoff, CutoffAlarm, CutoffMaintain, MaintenanceEnter,
            MaintenanceClearCheck, MaintenanceClear, UpdatePlug
<1>6. ASSUME NEW v \in Users, WalletStep(v) PROVE Cardinality(ActiveOf(u)') <= MaxActive
    BY <1>2, <1>6 DEF WalletStep, Credit, ClawBack, CloseAccountCheck, CloseAccount
<1>7. CASE ReaperScan \/ UNCHANGED vars
    BY <1>2, <1>7 DEF ReaperScan, vars
<1> QED
    BY <1>4, <1>5, <1>6, <1>7 DEF Next

\* The count under the user row lock keeps every driver within
\* MAX_ACTIVE_SESSIONS_PER_USER.
THEOREM ActiveCapHolds == Spec => []ActiveCap
<1>1. Init => TypeInv /\ ActiveCap
    <2>1. ASSUME Init, NEW u \in Users PROVE Cardinality(ActiveOf(u)) <= MaxActive
        <3>1. ActiveOf(u) = {}
            BY <2>1 DEF Init, ActiveOf, Active, NoRow
        <3> QED
            BY <3>1, FS_EmptySet, ConstantsAssumption
    <2> QED
        BY <2>1, TypeInit DEF ActiveCap
<1> QED
    BY <1>1, TypeStep, CapStep, PTL DEF Spec
-----------------------------------------------------------------------------
(* Exclusive use of a plug *)

\* No ON publish fails, and no operator writes a plug's status.
Undisturbed == "publish_fails" \notin Events /\ "operator" \notin Events

ExclusiveInv == PlugExclusive /\ clearing = {}

\* Steps that leave every plug, and the plug and status of every session, alone.
LEMMA ExclusiveFrame ==
    ASSUME ExclusiveInv, UNCHANGED <<plugStatus, clearing>>,
           \A s \in Sessions : Active(s)' => Active(s) /\ sess'[s].plug = sess[s].plug
    PROVE  ExclusiveInv'
    BY DEF ExclusiveInv, PlugExclusive, Active

\* The finalized session was the only ACTIVE one on its plug, so the plug it
\* frees is really free.
LEMMA FinalizeExclusive ==
    ASSUME TypeInv, ExclusiveInv, NEW s \in Sessions, Finalize(s), UNCHANGED clearing
    PROVE  ExclusiveInv'
<1>1. /\ Active(s) /\ ~Active(s)'
      /\ \A t \in Sessions : t # s => sess'[t] = sess[t]
      /\ \A p \in Plugs : p # sess[s].plug => plugStatus'[p] = plugStatus[p]
    BY FinalizedRow DEF Active
<1>2. ASSUME NEW t \in Sessions, Active(t)'
      PROVE  /\ t # s /\ Active(t) /\ sess'[t].plug = sess[t].plug
             /\ sess[t].plug \in Plugs /\ sess[t].plug # sess[s].plug
    <2>1. t # s /\ Active(t) /\ sess'[t].plug = sess[t].plug
        BY <1>1, <1>2 DEF Active
    <2>2. sess[t].plug # sess[s].plug
        BY <1>1, <2>1 DEF ExclusiveInv, PlugExclusive
    <2>3. sess[t].plug \in Plugs
        BY <2>1, CollectedBounds DEF TypeInv, SessionRow
    <2> QED
        BY <2>1, <2>2, <2>3
<1> QED
    BY <1>1, <1>2 DEF ExclusiveInv, PlugExclusive

\* ExclusiveInv is inductive while no publish fails and no operator writes.
LEMMA ExclusiveStep ==
    ASSUME Undisturbed
    PROVE  TypeInv /\ ExclusiveInv /\ [Next]_vars => ExclusiveInv'
<1> SUFFICES ASSUME TypeInv, ExclusiveInv, [Next]_vars PROVE ExclusiveInv'
    OBVIOUS
<1> USE DEF walletVars, plugVars, flightVars
<1>1. ASSUME UNCHANGED <<sess, plugStatus, clearing>> PROVE ExclusiveInv'
    BY <1>1, ExclusiveFrame DEF Active
<1>2. ASSUME NEW u \in Users, WalletStep(u) PROVE ExclusiveInv'
    BY <1>1, <1>2 DEF WalletStep, Credit, ClawBack, CloseAccountCheck, CloseAccount
<1>3. ASSUME NEW s \in Sessions, SessionStep(s) PROVE ExclusiveInv'
    <2>1. ASSUME NEW u \in Users, NEW p \in Plugs, NEW limit \in KwhLimits \cup {NoLimit},
                 StartSession(s, u, p, limit)
          PROVE  ExclusiveInv'
        <3>1. /\ ~Active(s) /\ sess'[s].plug = p
              /\ \A t \in Sessions : t # s => sess'[t] = sess[t]
              /\ UNCHANGED clearing
            BY <2>1, StartedRow DEF Active
        <3>2. plugStatus[p] = "AVAILABLE" /\ plugStatus' = [plugStatus EXCEPT ![p] = "OCCUPIED"]
            BY <2>1 DEF StartSession, MayStart
        <3>3. /\ plugStatus'[p] = "OCCUPIED"
              /\ \A q \in Plugs : q # p => plugStatus'[q] = plugStatus[q]
            BY <3>2 DEF TypeInv, TypeOK
        <3>4. \A t \in Sessions : Active(t) => sess[t].plug \in Plugs /\ sess[t].plug # p
            BY <3>2, CollectedBounds DEF ExclusiveInv, PlugExclusive, TypeInv, SessionRow
        <3>5. \A t \in Sessions : t # s => (Active(t)' <=> Active(t))
            BY <3>1 DEF Active
        <3>6. PlugExclusive'
            <4>1. ASSUME NEW t \in Sessions, NEW r \in Sessions, Active(t)', Active(r)',
                         sess'[t].plug = sess'[r].plug
                  PROVE  t = r
                BY <3>1, <3>4, <3>5, <4>1 DEF ExclusiveInv, PlugExclusive
            <4>2. ASSUME NEW t \in Sessions, Active(t)'
                  PROVE  plugStatus'[sess'[t].plug] # "AVAILABLE"
                BY <3>1, <3>3, <3>4, <3>5, <4>2 DEF ExclusiveInv, PlugExclusive
            <4> QED
                BY <4>1, <4>2 DEF PlugExclusive
        <3> QED
            BY <3>1, <3>6 DEF ExclusiveInv
    <2>2. CASE RunningStep(s)
        <3>1. \A t \in Sessions : Active(t)' => Active(t) /\ sess'[t].plug = sess[t].plug
            BY <2>2, RunningRow DEF Active
        <3> QED
            BY <2>2, <3>1, RunningRow, ExclusiveFrame
    <2>3. CASE StopSession(s) \/ AutoStop(s)
        BY <1>1, <2>3, FinalizeExclusive DEF StopSession, AutoStop, NothingFinalized
    <2>4. ~PublishFails(s)
        BY DEF Undisturbed, PublishFails
    <2> QED
        BY <1>1, <1>3, <2>1, <2>2, <2>3, <2>4
        DEF SessionStep, RunningStep, PublishSucceeds, FallSilent, PassDeadline
<1>4. ASSUME NEW p \in Plugs, PlugStep(p) PROVE ExclusiveInv'
    <2>1. CASE SoftCutoff(p) \/ CutoffAlarm(p)
        BY <1>1, <2>1 DEF SoftCutoff, CutoffAlarm
    <2>2. CASE CutoffSettle(p)
        BY <1>1, <2>2, FinalizeExclusive DEF CutoffSettle, NothingFinalized
    <2>3. CASE CutoffMaintain(p)
        BY <2>3 DEF CutoffMaintain, ExclusiveInv, PlugExclusive, Active, TypeInv, TypeOK
    <2> QED
        BY <1>4, <2>1, <2>2, <2>3
        DEF PlugStep, Undisturbed, ExclusiveInv, MaintenanceEnter, MaintenanceClearCheck,
            MaintenanceClear, UpdatePlug
<1>5. CASE ReaperScan \/ UNCHANGED vars
    BY <1>1, <1>5 DEF ReaperScan, vars
<1> QED
    BY <1>2, <1>3, <1>4, <1>5 DEF Next

\* As long as no ON publish fails and no operator writes a plug's status, the
\* claim under the plug row lock and the settlement keep at most one ACTIVE
\* session on a plug, and none on an AVAILABLE one - safety alarms, the reaper,
\* auto-stops and limit edits included.
THEOREM PlugExclusiveHolds ==
    ASSUME Undisturbed
    PROVE  Spec => []PlugExclusive
<1>1. Init => TypeInv /\ ExclusiveInv
    BY TypeInit DEF Init, ExclusiveInv, PlugExclusive, Active, NoRow
<1>2. TypeInv /\ ExclusiveInv /\ [Next]_vars => ExclusiveInv'
    BY ExclusiveStep
<1>3. ExclusiveInv => PlugExclusive
    BY DEF ExclusiveInv
<1> QED
    BY <1>1, <1>2, <1>3, TypeStep, PTL DEF Spec
-----------------------------------------------------------------------------
(* The capacity of a circuit *)

\* The sessions running on the circuit, and what each may draw.
RunningOn == {r \in Sessions : Active(r) /\ sess[r].plug \in Circuit}
Draw      == [s \in RunningOn |-> PlugCap[sess[s].plug]]

DrawsAreNumbers ==
    /\ LoadOf(Circuit) = SumFunctionOnSet(Draw, RunningOn) /\ LoadOf(Circuit) \in Nat
    /\ IsFiniteSet(RunningOn)
    /\ \A s \in RunningOn : Draw[s] = PlugCap[sess[s].plug] /\ Draw[s] \in Nat

\* The load is a sum of numbers of amperes over a finite set.
LEMMA LoadIsSum == DrawsAreNumbers
<1>1. LoadOf(Circuit) = SumFunctionOnSet(Draw, RunningOn)
    BY DEF LoadOf, SumFunction, Draw, RunningOn
<1>2. IsFiniteSet(RunningOn)
    BY ConstantsAssumption, FS_Subset DEF RunningOn
<1>3. \A s \in RunningOn : PlugCap[sess[s].plug] \in Nat
    BY ConstantsAssumption DEF RunningOn
<1>4. \A s \in RunningOn : Draw[s] = PlugCap[sess[s].plug] /\ Draw[s] \in Nat
    BY <1>3 DEF Draw
<1> QED
    BY <1>1, <1>2, <1>4, SumNat DEF DrawsAreNumbers

\* Sessions that end, and none that starts or moves, take load off a circuit.
LEMMA LoadShrinks ==
    ASSUME \A s \in Sessions : Active(s)' /\ sess'[s].plug \in Circuit =>
               Active(s) /\ sess'[s].plug = sess[s].plug
    PROVE  LoadOf(Circuit)' <= LoadOf(Circuit)
<1>1. DrawsAreNumbers /\ DrawsAreNumbers'
    BY LoadIsSum, PTL
<1>2. RunningOn' \subseteq RunningOn /\ \A s \in RunningOn' : Draw'[s] = Draw[s]
    BY <1>1 DEF RunningOn, DrawsAreNumbers
<1> DEFINE R == RunningOn
           f == Draw
           T == RunningOn'
           g == Draw'
<1>3. /\ LoadOf(Circuit) = SumFunctionOnSet(f, R) /\ IsFiniteSet(R)
      /\ \A s \in R : f[s] \in Nat
    BY <1>1 DEF DrawsAreNumbers
<1>4. LoadOf(Circuit)' = SumFunctionOnSet(g, T) /\ IsFiniteSet(T)
    BY <1>1 DEF DrawsAreNumbers
<1>5. T \in SUBSET R /\ \A s \in T : g[s] = f[s]
    BY <1>2
<1> HIDE DEF R, f, T, g
<1>6. SumFunctionOnSet(g, T) = SumFunctionOnSet(f, T)
    BY <1>4, <1>5, SumSame
<1>7. SumFunctionOnSet(f, T) <= SumFunctionOnSet(f, R)
    BY <1>3, <1>5, SumSubset
<1> QED
    BY <1>3, <1>4, <1>6, <1>7

\* A start on an AVAILABLE plug of the circuit adds what that plug may draw to
\* the load that was admitted: no other session is running on the plug, so the
\* load the check leaves it out of is the whole load.
LEMMA LoadGrows ==
    ASSUME TypeInv, ExclusiveInv, NEW s \in Sessions, NEW u \in Users, NEW p \in Plugs,
           NEW limit \in KwhLimits \cup {NoLimit}, StartSession(s, u, p, limit), p \in Circuit
    PROVE  LoadOf(Circuit)' = LoadOf(Circuit \ {p}) + PlugCap[p]
<1>1. /\ ~Active(s) /\ Active(s)' /\ sess'[s].plug = p
      /\ \A t \in Sessions : t # s => sess'[t] = sess[t]
    BY StartedRow DEF Active
<1>2. \A t \in Sessions : Active(t) => sess[t].plug # p
    BY DEF ExclusiveInv, PlugExclusive, StartSession, MayStart
<1>3. LoadOf(Circuit \ {p}) = LoadOf(Circuit)
    <2>1. {r \in Sessions : Active(r) /\ sess[r].plug \in Circuit \ {p}} = RunningOn
        BY <1>2 DEF RunningOn
    <2> QED
        BY <2>1 DEF LoadOf, RunningOn
<1>4. DrawsAreNumbers /\ DrawsAreNumbers'
    BY LoadIsSum, PTL
<1>5. /\ RunningOn' = RunningOn \cup {s} /\ s \notin RunningOn
      /\ \A t \in RunningOn : Draw'[t] = Draw[t]
      /\ Draw'[s] = PlugCap[p]
    <2>1. RunningOn' = RunningOn \cup {s} /\ s \notin RunningOn
        BY <1>1 DEF RunningOn, Active
    <2>2. \A t \in RunningOn : Draw'[t] = Draw[t]
        BY <1>1, <1>4, <2>1 DEF DrawsAreNumbers, RunningOn
    <2>3. Draw'[s] = PlugCap[p]
        BY <1>1, <1>4, <2>1 DEF DrawsAreNumbers
    <2> QED
        BY <2>1, <2>2, <2>3
<1> DEFINE R == RunningOn
           f == Draw
           g == Draw'
           c == PlugCap[p]
<1>6. /\ LoadOf(Circuit) = SumFunctionOnSet(f, R) /\ IsFiniteSet(R)
      /\ \A t \in R : g[t] = f[t] /\ g[t] \in Int
    BY <1>4, <1>5 DEF DrawsAreNumbers
<1>7. LoadOf(Circuit)' = SumFunctionOnSet(g, R \cup {s}) /\ s \notin R /\ g[s] = c /\ c \in Int
    BY <1>4, <1>5, ConstantsAssumption DEF DrawsAreNumbers
<1> HIDE DEF R, f, g, c
<1>8. SumFunctionOnSet(g, R \cup {s}) = g[s] + SumFunctionOnSet(g, R)
    BY <1>6, <1>7, SumAdd
<1>9. SumFunctionOnSet(g, R) = SumFunctionOnSet(f, R) /\ SumFunctionOnSet(g, R) \in Int
    BY <1>6, SumSame, SumInt
<1> QED
    BY <1>3, <1>6, <1>7, <1>8, <1>9 DEF c

\* A step that is not a start gives out no row and moves no running session.
NoStart ==
    \A s \in Sessions :
        /\ Active(s)' => Active(s) /\ sess'[s].plug = sess[s].plug
        /\ sess[s] = NoRow => sess'[s] = NoRow

Starting ==
    \E s \in Sessions, u \in Users, p \in Plugs, limit \in KwhLimits \cup {NoLimit} :
        StartSession(s, u, p, limit)

\* Rows are given out by start_charging_session alone.
LEMMA OnlyStarts == TypeInv /\ [Next]_vars => Starting \/ NoStart
<1> SUFFICES ASSUME TypeInv, [Next]_vars PROVE Starting \/ NoStart
    OBVIOUS
<1> USE DEF walletVars, plugVars, flightVars
<1>1. ASSUME UNCHANGED sess PROVE NoStart
    BY <1>1 DEF NoStart, Active
<1>2. ASSUME NEW s \in Sessions, Finalize(s) PROVE NoStart
    BY <1>2, FinalizedRow DEF NoStart, Active, NoRow
<1>3. ASSUME NEW s \in Sessions, SessionStep(s) PROVE Starting \/ NoStart
    <2>1. CASE PublishFails(s)
        <3>1. sess[s] # NoRow
            BY <2>1 DEF PublishFails, TypeInv, PublishingHasRow
        <3> QED
            BY <2>1, <3>1, CancelledRow DEF NoStart, Active
    <2>2. CASE RunningStep(s)
        BY <2>2, RunningRow DEF NoStart, Active, NoRow
    <2>3. CASE StopSession(s) \/ AutoStop(s)
        BY <1>1, <1>2, <2>3 DEF StopSession, AutoStop, NothingFinalized
    <2> QED
        BY <1>1, <1>3, <2>1, <2>2, <2>3
        DEF SessionStep, Starting, RunningStep, PublishSucceeds, FallSilent, PassDeadline
<1>4. ASSUME NEW p \in Plugs, PlugStep(p) PROVE NoStart
    <2>1. CASE CutoffSettle(p)
        BY <1>1, <1>2, <2>1 DEF CutoffSettle, NothingFinalized
    <2> QED
        BY <1>1, <1>4, <2>1
        DEF PlugStep, SoftCutoff, CutoffAlarm, CutoffMaintain, MaintenanceEnter,
            MaintenanceClearCheck, MaintenanceClear, UpdatePlug
<1>5. ASSUME NEW u \in Users, WalletStep(u) PROVE NoStart
    BY <1>1, <1>5 DEF WalletStep, Credit, ClawBack, CloseAccountCheck, CloseAccount
<1>6. CASE ReaperScan \/ UNCHANGED vars
    BY <1>1, <1>6 DEF ReaperScan, vars
<1> QED
    BY <1>3, <1>4, <1>5, <1>6 DEF Next

\* CircuitWithinCapacity is inductive, relative to the exclusive use of plugs.
LEMMA CapacityStep ==
    TypeInv /\ ExclusiveInv /\ CircuitWithinCapacity /\ [Next]_vars => CircuitWithinCapacity'
<1> SUFFICES ASSUME TypeInv, ExclusiveInv, CircuitWithinCapacity, [Next]_vars
             PROVE  LoadOf(Circuit)' <= CircuitCap
    BY DEF CircuitWithinCapacity
<1>1. LoadOf(Circuit) \in Nat /\ LoadOf(Circuit)' \in Nat
    <2>1. DrawsAreNumbers /\ DrawsAreNumbers'
        BY LoadIsSum, PTL
    <2> QED
        BY <2>1 DEF DrawsAreNumbers
<1>2. ASSUME \A s \in Sessions : Active(s)' /\ sess'[s].plug \in Circuit =>
                 Active(s) /\ sess'[s].plug = sess[s].plug
      PROVE  LoadOf(Circuit)' <= CircuitCap
    BY <1>1, <1>2, LoadShrinks, ConstantsAssumption DEF CircuitWithinCapacity
<1>3. ASSUME NEW s \in Sessions, NEW u \in Users, NEW p \in Plugs,
             NEW limit \in KwhLimits \cup {NoLimit}, StartSession(s, u, p, limit)
      PROVE  LoadOf(Circuit)' <= CircuitCap
    <2>1. CASE p \in Circuit
        <3>1. LoadOf(Circuit \ {p}) + PlugCap[p] <= CircuitCap
            BY <1>3, <2>1 DEF StartSession, MayStart, CircuitAdmits, CircuitLoad
        <3> QED
            BY <1>3, <2>1, <3>1, LoadGrows
    <2>2. CASE p \notin Circuit
        BY <1>2, <1>3, <2>2, StartedRow DEF Active
    <2> QED
        BY <2>1, <2>2
<1> QED
    BY <1>2, <1>3, OnlyStarts DEF Starting, NoStart

\* _assert_within_circuit_cap, under the locks of the start: while plugs are in
\* exclusive use, the sessions running on a circuit never may draw more than its
\* max_current_a together, for every circuit and every cap of its plugs.
THEOREM CircuitWithinCapacityHolds ==
    ASSUME Undisturbed
    PROVE  Spec => []CircuitWithinCapacity
<1>1. Init => TypeInv /\ ExclusiveInv
    BY TypeInit DEF Init, ExclusiveInv, PlugExclusive, Active, NoRow
<1>2. Init => CircuitWithinCapacity
    <2>1. Init => RunningOn = {}
        BY DEF Init, RunningOn, Active, NoRow
    <2> QED
        BY <2>1, LoadIsSum, SumEmpty, ConstantsAssumption
        DEF CircuitWithinCapacity, DrawsAreNumbers
<1>3. TypeInv /\ ExclusiveInv /\ [Next]_vars => ExclusiveInv'
    BY ExclusiveStep
<1> QED
    BY <1>1, <1>2, <1>3, TypeStep, CapacityStep, PTL DEF Spec
-----------------------------------------------------------------------------
(* The hold of a start *)

\* The holds of a user's ACTIVE sessions.
HoldOf(u) == [s \in ActiveOf(u) |-> sess[s].hold]

HoldsAreNumbers ==
    \A u \in Users :
        /\ Held(u) = SumFunctionOnSet(HoldOf(u), ActiveOf(u)) /\ Held(u) \in Nat
        /\ IsFiniteSet(ActiveOf(u))
        /\ \A s \in ActiveOf(u) : HoldOf(u)[s] = sess[s].hold /\ HoldOf(u)[s] \in Nat

\* What is reserved of a wallet is a sum of numbers of coins over a finite set.
LEMMA HeldIsSum == TypeOK => HoldsAreNumbers
<1> SUFFICES ASSUME TypeOK, NEW u \in Users
             PROVE  /\ Held(u) = SumFunctionOnSet(HoldOf(u), ActiveOf(u)) /\ Held(u) \in Nat
                    /\ IsFiniteSet(ActiveOf(u))
                    /\ \A s \in ActiveOf(u) :
                          HoldOf(u)[s] = sess[s].hold /\ HoldOf(u)[s] \in Nat
    BY DEF HoldsAreNumbers
<1>1. Held(u) = SumFunctionOnSet(HoldOf(u), ActiveOf(u))
    BY DEF Held, SumFunction, HoldOf
<1>2. IsFiniteSet(ActiveOf(u))
    BY ConstantsAssumption, FS_Subset DEF ActiveOf
<1>3. \A s \in ActiveOf(u) : sess[s].hold \in Nat
    BY CollectedBounds DEF ActiveOf, SessionRow
<1>4. \A s \in ActiveOf(u) : HoldOf(u)[s] = sess[s].hold /\ HoldOf(u)[s] \in Nat
    BY <1>3 DEF HoldOf
<1> QED
    BY <1>1, <1>2, <1>4, SumNat

\* The start reserves at most what is available, whatever the limit.
LEMMA StartReserves ==
    ASSUME TypeInv, TypeInv', NEW s \in Sessions, NEW u \in Users, NEW p \in Plugs,
           NEW limit \in KwhLimits \cup {NoLimit}, StartSession(s, u, p, limit)
    PROVE  Held(u)' <= balance'[u]
<1>1. /\ ~Active(s) /\ Active(s)' /\ sess'[s].user = u
      /\ \A t \in Sessions : t # s => sess'[t] = sess[t]
      /\ balance' = balance
    <2>1. balance' = balance
        BY DEF StartSession, walletVars
    <2> QED
        BY <2>1, StartedRow DEF Active
<1>2. HoldsAreNumbers /\ HoldsAreNumbers'
    BY HeldIsSum, PTL DEF TypeInv
<1>3. /\ ActiveOf(u)' = ActiveOf(u) \cup {s} /\ s \notin ActiveOf(u)
    BY <1>1 DEF ActiveOf, Active
<1> DEFINE R == ActiveOf(u)
           f == HoldOf(u)
           g == HoldOf(u)'
           h == Held(u)
           k == sess'[s].hold
<1>4. /\ h = SumFunctionOnSet(f, R) /\ IsFiniteSet(R) /\ h \in Nat
      /\ \A t \in R : g[t] = f[t] /\ g[t] \in Int
    <2>1. \A t \in ActiveOf(u) : f[t] = sess[t].hold /\ f[t] \in Nat
        BY <1>2 DEF HoldsAreNumbers
    <2>2. \A t \in ActiveOf(u)' : g[t] = sess'[t].hold
        BY <1>2 DEF HoldsAreNumbers
    <2>3. \A t \in ActiveOf(u) : t # s /\ t \in Sessions
        BY <1>3 DEF ActiveOf
    <2>4. \A t \in R : g[t] = f[t] /\ g[t] \in Int
        BY <1>1, <1>3, <2>1, <2>2, <2>3
    <2> QED
        BY <1>2, <2>4 DEF HoldsAreNumbers
<1>5. Held(u)' = SumFunctionOnSet(g, R \cup {s}) /\ s \notin R /\ g[s] = k /\ k \in Nat
    BY <1>2, <1>3 DEF HoldsAreNumbers
<1>6. k <= balance[u] - h
    <2>1. PICK available \in MinStart .. MaxCoins :
              available = AvailableBalance(u) /\ k = StartHold(available, limit)
        BY DEF StartSession, TypeInv, TypeOK
    <2>2. available \in Int /\ available = balance[u] - h
        BY <2>1, ConstantsAssumption DEF AvailableBalance
    <2>3. k <= available
        BY <2>1, <2>2, ConstantsAssumption DEF StartHold, Lesser, Cost
    <2> QED
        BY <2>2, <2>3
<1>7. balance[u] \in Nat
    BY DEF TypeInv, TypeOK
<1> HIDE DEF R, f, g, h, k
<1>8. SumFunctionOnSet(g, R \cup {s}) = g[s] + SumFunctionOnSet(g, R)
    <2>1. g[s] \in Int
        BY <1>5
    <2> QED
        BY <1>4, <1>5, <2>1, SumAdd
<1>9. SumFunctionOnSet(g, R) = SumFunctionOnSet(f, R)
    BY <1>4, SumSame
<1> QED
    BY <1>1, <1>4, <1>5, <1>6, <1>7, <1>8, <1>9

\* What StartCovered asks of one step.
HoldCovered ==
    \A s \in Sessions, u \in Users :
        sess[s] = NoRow /\ sess'[s] # NoRow /\ sess'[s].user = u => Held(u)' <= balance'[u]

\* begin_active_session: the hold of a new session, with those of the sessions
\* already running, never exceeds the wallet - claw-backs and limit edits that
\* came before included, because the start refuses what is not available.
THEOREM StartCoveredHolds == Spec => StartCovered
<1>1. Spec => []TypeInv
    BY TypeInit, TypeStep, PTL DEF Spec
<1>2. TypeInv /\ TypeInv' /\ [Next]_vars => [HoldCovered]_vars
    <2> SUFFICES ASSUME TypeInv, TypeInv', [Next]_vars, NEW s \in Sessions, NEW u \in Users,
                        sess[s] = NoRow, sess'[s] # NoRow, sess'[s].user = u
                 PROVE  Held(u)' <= balance'[u]
        BY DEF HoldCovered
    <2>1. PICK t \in Sessions, v \in Users, p \in Plugs, limit \in KwhLimits \cup {NoLimit} :
              StartSession(t, v, p, limit)
        BY OnlyStarts DEF NoStart, Starting
    <2>2. t = s /\ v = u
        BY <2>1, StartedRow
    <2> QED
        BY <2>1, <2>2, StartReserves
<1> QED
    BY <1>1, <1>2, PTL DEF Spec, StartCovered, HoldCovered
=============================================================================
