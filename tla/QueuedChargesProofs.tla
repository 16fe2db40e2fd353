------------------------- MODULE QueuedChargesProofs -------------------------
(***************************************************************************)
(* QueuedCharges for every set of drivers, plugs and requests, every cap   *)
(* and every number of restarts.                                           *)
(*                                                                         *)
(* Three facts carry the proof.  While a request of a driver is in flight  *)
(* the driver's uncontended rows are below the cap: only the request that  *)
(* is alone inserts one.  A row that waits and is not being started has    *)
(* had no more sessions than there were restarts.  And the session the     *)
(* sweep is publishing is the one it began for its row.                    *)
(***************************************************************************)
EXTENDS QueuedCharges, SequenceTheorems, FiniteSetTheorems, TLAPS

SweepState == [at : {"rows", "publishing", "undone"}, todo : SUBSET Nat,
               row : Nat, session : Nat]

Shape ==
    /\ power \in [Plugs -> PlugPower] /\ plug \in [Plugs -> {"AVAILABLE", "OCCUPIED"}]
    /\ rows \in Seq(QueuedCharge) /\ sessions \in Seq(ChargingSession)
    /\ restarts \in Nat
    /\ sweep \in SweepState /\ sweep.todo \subseteq DOMAIN rows
    /\ DOMAIN request = Requests
    /\ \A r \in Requests : request[r] # NoRequest =>
           request[r].user \in Users /\ request[r].plug \in Plugs

\* Rows, sessions and the sweep point at each other.
Links ==
    /\ \A i \in DOMAIN rows : rows[i].session <= Len(sessions)
    /\ \A s \in DOMAIN sessions : sessions[s].row <= Len(rows)
    /\ sweep.at = "rows" => sweep.row = 0
    /\ sweep.at # "rows" => /\ sweep.row \in DOMAIN rows /\ sweep.session \in DOMAIN sessions
                            /\ sessions[sweep.session].row = sweep.row
    /\ StartedLinks

Uncontended(u) == {i \in WaitingOf(u) : ~rows[i].contended}

InFlight(u) == \E r \in Requests : request[r] # NoRequest /\ request[r].user = u

\* A request in flight has seen room for it among the uncontended rows, and
\* only a contended row can have been inserted since.
CapCounted ==
    \A u \in Users :
        /\ Cardinality(Uncontended(u)) <= MaxQueued
        /\ InFlight(u) => Cardinality(Uncontended(u)) < MaxQueued

SessionsOf(i) == {s \in DOMAIN sessions : sessions[s].row = i}

\* Each restart may have cost a waiting row one session.
StartsCounted ==
    \A i \in DOMAIN rows :
        /\ Cardinality(SessionsOf(i)) <= 1 + restarts
        /\ Waiting(i) /\ sweep.row # i => Cardinality(SessionsOf(i)) <= restarts

Inv == /\ Shape /\ Links /\ OneWaitingPerPlug /\ CapCounted /\ AutoStartWithinCap
       /\ StartsCounted
-----------------------------------------------------------------------------
(* Writes of the two tables *)

LEMMA Tables ==
    ASSUME Shape
    PROVE  /\ Len(rows) \in Nat /\ DOMAIN rows = 1 .. Len(rows)
           /\ Len(sessions) \in Nat /\ DOMAIN sessions = 1 .. Len(sessions)
           /\ \A i \in DOMAIN rows : rows[i] \in QueuedCharge
           /\ \A s \in DOMAIN sessions : sessions[s] \in ChargingSession
<1>1. rows \in Seq(QueuedCharge) /\ sessions \in Seq(ChargingSession)
  BY DEF Shape
<1> QED
  BY <1>1, LenProperties, ElementOfSeq

\* Sets of rows and of sessions are finite.
LEMMA RowsFinite == ASSUME Shape, NEW S \in SUBSET DOMAIN rows
                    PROVE  IsFiniteSet(S) /\ Cardinality(S) \in Nat
<1>1. DOMAIN rows = 1 .. Len(rows) /\ Len(rows) \in Int
  BY Tables
<1>2. IsFiniteSet(DOMAIN rows)
  BY <1>1, FS_Interval
<1> QED
  BY <1>2, FS_Subset, FS_CardinalityType

LEMMA SessionsFinite == ASSUME Shape, NEW S \in SUBSET DOMAIN sessions
                        PROVE  IsFiniteSet(S) /\ Cardinality(S) \in Nat
<1>1. DOMAIN sessions = 1 .. Len(sessions) /\ Len(sessions) \in Int
  BY Tables
<1>2. IsFiniteSet(DOMAIN sessions)
  BY <1>1, FS_Interval
<1> QED
  BY <1>2, FS_Subset, FS_CardinalityType

LEMMA ActiveFinite == ASSUME Shape, NEW u
                      PROVE  IsFiniteSet(ActiveOf(u)) /\ Cardinality(ActiveOf(u)) \in Nat
<1>1. ActiveOf(u) \in SUBSET DOMAIN sessions
  BY DEF ActiveOf, ActiveSessions
<1> QED
  BY <1>1, SessionsFinite

LEMMA ClosedIs ==
    ASSUME NEW row \in QueuedCharge, NEW st \in QueuedChargeStatus
    PROVE  LET new == Closed(row, st) IN
           /\ new \in QueuedCharge /\ new.status = st /\ ~new.contended
           /\ new.user = row.user /\ new.plug = row.plug /\ new.session = row.session
BY DEF Closed, QueuedCharge

\* A row is written: it keeps its driver and plug, waits only if it did, and is
\* marked STARTED only by the sweep, with the session it has begun for it.
RowWritten(i) ==
    /\ Waiting(i) \/ i = sweep.row
    /\ \E new \in QueuedCharge :
           /\ rows' = [rows EXCEPT ![i] = new]
           /\ new.user = rows[i].user /\ new.plug = rows[i].plug
           /\ new.status = "WAITING" => Waiting(i) /\ new.contended = rows[i].contended
           /\ \/ new.status # "STARTED" /\ new.session = rows[i].session
              \/ Starting /\ i = sweep.row /\ new.session = sweep.session

LEMMA WriteFrame ==
    ASSUME Shape, NEW i \in DOMAIN rows, RowWritten(i)
    PROVE  /\ rows' \in Seq(QueuedCharge) /\ Len(rows') = Len(rows) /\ DOMAIN rows' = DOMAIN rows
           /\ \A j \in DOMAIN rows : j # i => rows'[j] = rows[j]
           /\ rows'[i].user = rows[i].user /\ rows'[i].plug = rows[i].plug
           /\ rows'[i].status = "WAITING" => Waiting(i) /\ rows'[i].contended = rows[i].contended
           /\ \/ rows'[i].status # "STARTED" /\ rows'[i].session = rows[i].session
              \/ Starting /\ i = sweep.row /\ rows'[i].session = sweep.session
<1>1. PICK new \in QueuedCharge :
           /\ rows' = [rows EXCEPT ![i] = new]
           /\ new.user = rows[i].user /\ new.plug = rows[i].plug
           /\ new.status = "WAITING" => Waiting(i) /\ new.contended = rows[i].contended
           /\ \/ new.status # "STARTED" /\ new.session = rows[i].session
              \/ Starting /\ i = sweep.row /\ new.session = sweep.session
  BY DEF RowWritten
<1>2. rows' = [rows EXCEPT ![i] = new]
  BY <1>1
<1>3. rows \in Seq(QueuedCharge)
  BY DEF Shape
<1>4. rows' \in Seq(QueuedCharge) /\ Len(rows') = Len(rows) /\ DOMAIN rows' = DOMAIN rows
  BY <1>2, <1>3, ExceptSeq
<1>5. rows'[i] = new /\ \A j \in DOMAIN rows : j # i => rows'[j] = rows[j]
  BY <1>2, <1>3
<1> QED
  BY <1>1, <1>4, <1>5

\* queue_charge inserts a row.
RowAdded(r) ==
    /\ request[r] # NoRequest /\ ~AlreadyQueued(request[r].user, request[r].plug)
    /\ rows' = Append(rows, NewRow(r))
    /\ request' = [request EXCEPT ![r] = NoRequest]
    /\ UNCHANGED <<sessions, sweep, restarts>>

LEMMA AddFrame ==
    ASSUME Shape, NEW r \in Requests, RowAdded(r)
    PROVE  /\ rows' \in Seq(QueuedCharge) /\ Len(rows') = Len(rows) + 1
           /\ DOMAIN rows' = DOMAIN rows \cup {Len(rows) + 1} /\ Len(rows) + 1 \notin DOMAIN rows
           /\ \A j \in DOMAIN rows : rows'[j] = rows[j]
           /\ rows'[Len(rows) + 1] = NewRow(r)
           /\ NewRow(r) \in QueuedCharge
<1>1. rows \in Seq(QueuedCharge) /\ Len(rows) \in Nat /\ DOMAIN rows = 1 .. Len(rows)
  BY Tables DEF Shape
<1>2. NewRow(r) \in QueuedCharge
  BY DEF RowAdded, Shape, NewRow, QueuedCharge, QueuedChargeStatus, Contended
<1> HIDE DEF NewRow
<1> QED
  BY <1>1, <1>2, AppendProperties DEF RowAdded

\* A session is begun, by a driver below the cap; for the row the sweep is at.
SessionAdded(new) ==
    /\ new \in ChargingSession /\ new.status = "ACTIVE"
    /\ Cardinality(ActiveOf(new.user)) < MaxActive
    /\ sessions' = Append(sessions, new)

LEMMA SessionFrame ==
    ASSUME Shape, NEW new, SessionAdded(new)
    PROVE  /\ sessions' \in Seq(ChargingSession) /\ Len(sessions') = Len(sessions) + 1
           /\ DOMAIN sessions' = DOMAIN sessions \cup {Len(sessions) + 1}
           /\ Len(sessions) + 1 \notin DOMAIN sessions
           /\ \A s \in DOMAIN sessions : sessions'[s] = sessions[s]
           /\ sessions'[Len(sessions) + 1] = new
<1>1. /\ sessions \in Seq(ChargingSession) /\ Len(sessions) \in Nat
      /\ DOMAIN sessions = 1 .. Len(sessions)
  BY Tables DEF Shape
<1> QED
  BY <1>1, AppendProperties DEF SessionAdded

\* A session ends.
SessionEnded(s) ==
    \E st \in {"COMPLETED", "CANCELLED"} : sessions' = [sessions EXCEPT ![s].status = st]

LEMMA EndFrame ==
    ASSUME Shape, NEW s \in DOMAIN sessions, SessionEnded(s)
    PROVE  /\ sessions' \in Seq(ChargingSession) /\ Len(sessions') = Len(sessions)
           /\ DOMAIN sessions' = DOMAIN sessions /\ sessions'[s].status # "ACTIVE"
           /\ \A o \in DOMAIN sessions : /\ sessions'[o].row = sessions[o].row
                                         /\ sessions'[o].user = sessions[o].user
                                         /\ o # s => sessions'[o] = sessions[o]
<1>1. PICK st \in {"COMPLETED", "CANCELLED"} : sessions' = [sessions EXCEPT ![s].status = st]
  BY DEF SessionEnded
<1>2. sessions \in Seq(ChargingSession) /\ sessions[s] \in ChargingSession
  BY Tables DEF Shape
<1> DEFINE new == [sessions[s] EXCEPT !.status = st]
<1>3. /\ new \in ChargingSession /\ new.row = sessions[s].row /\ new.user = sessions[s].user
      /\ new.status = st
  BY <1>2 DEF ChargingSession
<1>4. sessions' = [sessions EXCEPT ![s] = new]
  BY <1>1
<1> HIDE DEF new
<1>5. /\ sessions' \in Seq(ChargingSession) /\ Len(sessions') = Len(sessions)
      /\ DOMAIN sessions' = DOMAIN sessions
  BY <1>2, <1>3, <1>4, ExceptSeq
<1>6. sessions'[s] = new /\ \A o \in DOMAIN sessions : o # s => sessions'[o] = sessions[o]
  BY <1>2, <1>4
<1> QED
  BY <1>3, <1>5, <1>6
-----------------------------------------------------------------------------
(* The kinds of steps *)

\* The sweep is between two rows.
SweepFree == /\ sweep' \in SweepState /\ sweep'.todo \subseteq DOMAIN rows
             /\ sweep'.at = "rows" /\ sweep'.row = 0

SweepWaits == sweep' = sweep \/ (sweep.at = "rows" /\ SweepFree)

Elsewhere == UNCHANGED <<rows, sessions, request, restarts>> /\ SweepWaits

Requesting(r) ==
    /\ UNCHANGED <<rows, sessions, sweep, restarts>>
    /\ \/ request' = [request EXCEPT ![r] = NoRequest]
       \/ \E u \in Users, p \in Plugs : QueueCheck(r, u, p)

Writing(i) ==
    /\ RowWritten(i) /\ UNCHANGED <<sessions, request, restarts>>
    /\ \/ SweepWaits
       \/ i = sweep.row /\ rows'[i].status # "WAITING" /\ SweepFree

Beginning(i) ==
    /\ Waiting(i) /\ sweep.at = "rows"
    /\ \E new \in ChargingSession : SessionAdded(new) /\ new.row = i
    /\ sweep' \in SweepState /\ sweep'.at = "publishing" /\ sweep'.todo = sweep.todo
    /\ sweep'.row = i /\ sweep'.session = Len(sessions) + 1
    /\ UNCHANGED <<rows, request, restarts>>

WalkingUp ==
    /\ \E new \in ChargingSession : SessionAdded(new) /\ new.row = 0
    /\ UNCHANGED <<rows, request, sweep, restarts>>

Ending(s) ==
    /\ SessionEnded(s) /\ UNCHANGED <<rows, request, restarts>>
    /\ \/ sweep' = sweep
       \/ /\ Starting /\ sweep' \in SweepState /\ sweep'.at = "undone"
          /\ sweep'.todo = sweep.todo /\ sweep'.row = sweep.row
          /\ sweep'.session = sweep.session

Restarting ==
    /\ UNCHANGED <<rows, sessions>> /\ restarts' = restarts + 1 /\ SweepFree
    /\ request' = [r \in Requests |-> NoRequest]

Kinds == \/ Elsewhere \/ WalkingUp \/ Restarting
         \/ \E r \in Requests : Requesting(r) \/ RowAdded(r)
         \/ \E i \in DOMAIN rows : Writing(i) \/ Beginning(i)
         \/ \E s \in DOMAIN sessions : Ending(s)

LEMMA SweepFacts ==
    ASSUME Shape, Links
    PROVE  /\ sweep.at \in {"rows", "publishing", "undone"} /\ sweep.todo \subseteq DOMAIN rows
           /\ sweep.todo \subseteq Nat /\ sweep.row \in Nat /\ sweep.session \in Nat
           /\ sweep.at # "rows" => sweep.row \in DOMAIN rows /\ sweep.session \in DOMAIN sessions
           /\ sweep.at = "rows" => sweep.row = 0
BY DEF Shape, SweepState, Links

\* Rows ended without a start: by the driver, the sweep, or the clock.
LEMMA RowStepKinds ==
    ASSUME Shape, Links, NEW i \in DOMAIN rows,
           \/ CancelQueued(i) \/ Lapse(i) \/ SweepFail(i)
           \/ \E poor \in BOOLEAN : SweepExpire(i, poor)
    PROVE  Writing(i)
<1>1. rows[i] \in QueuedCharge
  BY Tables
<1>2. UNCHANGED <<sessions, request, restarts>>
  BY DEF CancelQueued, Lapse, SweepFail, SweepExpire
<1>0. Waiting(i)
  BY DEF CancelQueued, Lapse, SweepFail, SweepExpire, Startable
<1>3. ASSUME NEW st \in {"CANCELLED", "EXPIRED", "FAILED"},
             rows' = [rows EXCEPT ![i] = Closed(@, st)]
      PROVE  RowWritten(i)
  <2>1. st \in QueuedChargeStatus
    BY DEF QueuedChargeStatus
  <2> DEFINE new == Closed(rows[i], st)
  <2>2. /\ new \in QueuedCharge /\ new.status = st
        /\ new.user = rows[i].user /\ new.plug = rows[i].plug /\ new.session = rows[i].session
    BY <1>1, <2>1, ClosedIs
  <2>3. rows' = [rows EXCEPT ![i] = new]
    BY <1>3
  <2> HIDE DEF new
  <2> QED
    BY <1>0, <2>2, <2>3 DEF RowWritten
<1>4. ASSUME Lapse(i) PROVE RowWritten(i)
  <2> DEFINE new == [rows[i] EXCEPT !.lapsed = TRUE]
  <2>1. /\ new \in QueuedCharge /\ new.status = "WAITING" /\ new.contended = rows[i].contended
        /\ new.user = rows[i].user /\ new.plug = rows[i].plug /\ new.session = rows[i].session
    BY <1>1, <1>4 DEF QueuedCharge, Lapse, Waiting
  <2>2. rows' = [rows EXCEPT ![i] = new] /\ Waiting(i)
    BY <1>4 DEF Lapse
  <2> HIDE DEF new
  <2> QED
    BY <2>1, <2>2 DEF RowWritten
<1>5. RowWritten(i)
  BY <1>3, <1>4 DEF CancelQueued, SweepFail, SweepExpire
<1>6. SweepWaits
  <2>1. ASSUME sweep' = [sweep EXCEPT !.todo = @ \ {i}], sweep.at = "rows" PROVE SweepFree
    BY <2>1, SweepFacts DEF SweepFree, SweepState, Shape
  <2> QED
    BY <2>1 DEF CancelQueued, Lapse, SweepFail, SweepExpire, SweepWaits, Startable
<1> QED
  BY <1>2, <1>5, <1>6 DEF Writing

LEMMA NextRowIsFree ==
    ASSUME Shape, Links, sweep' = NextRow
    PROVE  SweepFree
BY SweepFacts DEF SweepFree, SweepState, Shape, NextRow

\* The write that ends the sweep's work on a row.
LEMMA MarkKinds ==
    ASSUME Shape, Links, SweepStarted \/ SweepGaveUp
    PROVE  sweep.row \in DOMAIN rows /\ Writing(sweep.row)
<1> DEFINE i == sweep.row
<1>1. i \in DOMAIN rows /\ rows[i] \in QueuedCharge /\ sweep.session \in Nat
  BY Tables, SweepFacts DEF SweepStarted, SweepGaveUp, Starting
<1>2. SweepFree /\ UNCHANGED <<sessions, request, restarts>>
  BY NextRowIsFree DEF SweepStarted, SweepGaveUp
<1>3. "STARTED" \in QueuedChargeStatus /\ "FAILED" \in QueuedChargeStatus
  BY DEF QueuedChargeStatus
<1>4. ASSUME NEW new \in QueuedCharge, rows' = [rows EXCEPT ![i] = new],
             new.user = rows[i].user, new.plug = rows[i].plug, new.status # "WAITING",
             \/ new.status # "STARTED" /\ new.session = rows[i].session
             \/ Starting /\ new.session = sweep.session
      PROVE  Writing(i)
  <2>1. RowWritten(i)
    BY <1>4 DEF RowWritten
  <2>2. rows'[i] = new
    BY <1>1, <1>4 DEF Shape
  <2> QED
    BY <1>2, <1>4, <2>1, <2>2 DEF Writing
<1>5. CASE SweepGaveUp
  <2> DEFINE new == Closed(rows[i], "FAILED")
  <2>1. /\ new \in QueuedCharge /\ new.status = "FAILED"
        /\ new.user = rows[i].user /\ new.plug = rows[i].plug /\ new.session = rows[i].session
    BY <1>1, <1>3, ClosedIs
  <2>2. rows' = [rows EXCEPT ![i] = new]
    BY <1>5 DEF SweepGaveUp
  <2> HIDE DEF new
  <2> QED
    BY <1>1, <1>4, <2>1, <2>2
<1>6. CASE SweepStarted
  <2> DEFINE mid == Closed(rows[i], "STARTED")
             new == [mid EXCEPT !.session = sweep.session]
  <2>1. /\ mid \in QueuedCharge /\ mid.status = "STARTED"
        /\ mid.user = rows[i].user /\ mid.plug = rows[i].plug
    BY <1>1, <1>3, ClosedIs
  <2>2. rows' = [rows EXCEPT ![i] = new] /\ Starting
    BY <1>6 DEF SweepStarted
  <2> HIDE DEF mid
  <2>3. /\ new \in QueuedCharge /\ new.status = "STARTED" /\ new.session = sweep.session
        /\ new.user = rows[i].user /\ new.plug = rows[i].plug
    BY <1>1, <2>1 DEF QueuedCharge
  <2> HIDE DEF new
  <2> QED
    BY <1>1, <1>4, <2>2, <2>3
<1> QED
  BY <1>1, <1>5, <1>6

LEMMA BeginKinds ==
    ASSUME Shape, Links, NEW i \in DOMAIN rows, SweepBegin(i)
    PROVE  Beginning(i)
<1> DEFINE new == [user |-> rows[i].user, plug |-> rows[i].plug, status |-> "ACTIVE", row |-> i]
<1>1. i \in Nat /\ rows[i] \in QueuedCharge /\ Len(sessions) + 1 \in Nat
  BY Tables
<1>2. new \in ChargingSession /\ new.status = "ACTIVE" /\ new.row = i /\ new.user = rows[i].user
  BY <1>1 DEF ChargingSession, QueuedCharge
<1>3. sessions' = Append(sessions, new) /\ UNCHANGED <<rows, request, restarts>>
      /\ Waiting(i) /\ sweep.at = "rows" /\ ~AtCap(rows[i].user)
  BY DEF SweepBegin, Startable
<1>4. Cardinality(ActiveOf(rows[i].user)) < MaxActive
  <2>1. Cardinality(ActiveOf(rows[i].user)) \in Nat
    BY ActiveFinite
  <2> QED
    BY <1>3, <2>1, QueuedChargesAssumption DEF AtCap
<1>5. /\ sweep' \in SweepState /\ sweep'.at = "publishing" /\ sweep'.todo = sweep.todo
      /\ sweep'.row = i /\ sweep'.session = Len(sessions) + 1
  BY <1>1 DEF SweepBegin, SweepState, Shape
<1> HIDE DEF new
<1> QED
  BY <1>2, <1>3, <1>4, <1>5 DEF Beginning, SessionAdded

LEMMA WalkUpKinds ==
    ASSUME NEW u \in Users, NEW p \in Plugs, WalkUpStart(u, p)
    PROVE  WalkingUp
<1> DEFINE new == [user |-> u, plug |-> p, status |-> "ACTIVE", row |-> 0]
<1>1. new \in ChargingSession /\ new.status = "ACTIVE" /\ new.row = 0 /\ new.user = u
  BY DEF ChargingSession
<1>2. /\ sessions' = Append(sessions, new) /\ UNCHANGED <<rows, request, sweep, restarts>>
      /\ Cardinality(ActiveOf(u)) < MaxActive
  BY DEF WalkUpStart
<1> HIDE DEF new
<1> QED
  BY <1>1, <1>2 DEF WalkingUp, SessionAdded

LEMMA StepKinds ==
    ASSUME Shape, Links, [Next]_vars
    PROVE  Kinds
<1>1. ASSUME NEW p \in Plugs, PowerLost(p) \/ DebounceElapses(p) \/ PowerReturns(p)
      PROVE  Elsewhere
  BY <1>1 DEF PowerLost, DebounceElapses, PowerReturns, Elsewhere, SweepWaits
<1>2. ASSUME NEW r \in Requests, NEW u \in Users, NEW p \in Plugs, QueueCheck(r, u, p)
      PROVE  Requesting(r)
  BY <1>2 DEF QueueCheck, Requesting
<1>3. ASSUME NEW r \in Requests, QueueInsert(r) PROVE Requesting(r) \/ RowAdded(r)
  BY <1>3 DEF QueueInsert, Requesting, RowAdded
<1>4. ASSUME NEW s \in DOMAIN sessions, StopSession(s) PROVE Ending(s)
  BY <1>4 DEF StopSession, Ending, SessionEnded
<1>5. ASSUME SweepUndo PROVE sweep.session \in DOMAIN sessions /\ Ending(sweep.session)
  <2>1. sweep.session \in DOMAIN sessions /\ SessionEnded(sweep.session)
    BY <1>5, SweepFacts DEF SweepUndo, Starting, SessionEnded
  <2>2. /\ sweep' \in SweepState /\ sweep'.at = "undone" /\ sweep'.todo = sweep.todo
        /\ sweep'.row = sweep.row /\ sweep'.session = sweep.session
    BY <1>5 DEF SweepUndo, SweepState, Shape
  <2> QED
    BY <1>5, <2>1, <2>2 DEF SweepUndo, Ending
<1>6. ASSUME SweepScan PROVE Elsewhere
  <2> DEFINE W == {i \in DOMAIN rows : Waiting(i)}
  <2>1. sweep' = [at |-> "rows", todo |-> W, row |-> 0, session |-> 0]
    BY <1>6 DEF SweepScan, NoSweep
  <2>2. W \subseteq DOMAIN rows /\ W \in SUBSET Nat
    BY Tables
  <2> HIDE DEF W
  <2>3. SweepFree
    BY <2>1, <2>2 DEF SweepFree, SweepState
  <2> QED
    BY <1>6, <2>3 DEF SweepScan, NoSweep, Elsewhere, SweepWaits
<1>7. ASSUME NEW i \in DOMAIN rows, NEW c \in BOOLEAN, SweepSkip(i, c) PROVE Elsewhere
  <2>1. SweepFree
    BY <1>7, SweepFacts DEF SweepSkip, SweepFree, SweepState, Shape
  <2> QED
    BY <1>7, <2>1 DEF SweepSkip, Elsewhere, SweepWaits
<1>8. ASSUME Restart PROVE Restarting
  BY <1>8 DEF Restart, Restarting, SweepFree, NoSweep, SweepState
<1>9. ASSUME UNCHANGED vars PROVE Elsewhere
  BY <1>9 DEF vars, Elsewhere, SweepWaits
<1>10. CASE Sweep
  <2>1. ASSUME NEW i \in DOMAIN rows, SweepRow(i) PROVE Kinds
    BY <1>7, <2>1, RowStepKinds, BeginKinds DEF SweepRow, Kinds
  <2>2. CASE SweepPublish
    BY <1>5, <2>2, MarkKinds DEF SweepPublish, Kinds
  <2> QED
    BY <1>6, <1>10, <2>1, <2>2 DEF Sweep, Kinds
<1>11. CASE Next /\ ~Sweep
  <2>1. ASSUME NEW i \in DOMAIN rows, CancelQueued(i) \/ Lapse(i) PROVE Kinds
    BY <2>1, RowStepKinds DEF Kinds
  <2> QED
    BY <1>1, <1>2, <1>3, <1>4, <1>8, <1>11, <2>1, WalkUpKinds DEF Next, Kinds
<1> QED
  BY <1>9, <1>10, <1>11 DEF Kinds
-----------------------------------------------------------------------------
(* Each part of the invariant *)

LEMMA ShapeStep == ASSUME Shape, Links, Kinds, [Next]_vars PROVE Shape'
<1>1. power' \in [Plugs -> PlugPower] /\ plug' \in [Plugs -> {"AVAILABLE", "OCCUPIED"}]
  BY DEF Shape, Next, vars, PlugPower, PowerLost, DebounceElapses, PowerReturns, QueueCheck,
     QueueInsert, CancelQueued, Lapse, WalkUpStart, StopSession, Sweep, SweepScan,
     SweepPublish, SweepStarted, SweepUndo, SweepGaveUp, SweepRow, SweepSkip, SweepExpire,
     SweepFail, SweepBegin, Restart
<1> DEFINE Tabled == /\ rows' \in Seq(QueuedCharge) /\ DOMAIN rows \subseteq DOMAIN rows'
                     /\ sessions' \in Seq(ChargingSession) /\ restarts' \in Nat
           Asked == /\ DOMAIN request' = Requests
                    /\ \A r \in Requests : request'[r] # NoRequest =>
                           request'[r].user \in Users /\ request'[r].plug \in Plugs
           Swept == sweep' \in SweepState /\ sweep'.todo \subseteq DOMAIN rows
<1>2. Tabled
  <2>1. \A i \in DOMAIN rows : RowWritten(i) =>
            rows' \in Seq(QueuedCharge) /\ DOMAIN rows' = DOMAIN rows
    BY WriteFrame
  <2>2. \A r \in Requests : RowAdded(r) =>
            rows' \in Seq(QueuedCharge) /\ DOMAIN rows \subseteq DOMAIN rows'
    BY AddFrame
  <2>3. \A new : SessionAdded(new) => sessions' \in Seq(ChargingSession)
    BY SessionFrame
  <2>4. \A s \in DOMAIN sessions : SessionEnded(s) => sessions' \in Seq(ChargingSession)
    BY EndFrame
  <2> QED
    BY <2>1, <2>2, <2>3, <2>4 DEF Kinds, Elsewhere, WalkingUp, Restarting, Requesting, RowAdded,
       Writing, Beginning, Ending, Shape
<1>3. Asked
  <2>1. ASSUME NEW r \in Requests, NEW u \in Users, NEW p \in Plugs, QueueCheck(r, u, p)
        PROVE  Asked
    BY <2>1 DEF QueueCheck, Shape
  <2>2. ASSUME NEW r \in Requests, request' = [request EXCEPT ![r] = NoRequest] PROVE Asked
    BY <2>2 DEF Shape
  <2>3. CASE request' = [r \in Requests |-> NoRequest]
    BY <2>3
  <2>4. CASE UNCHANGED request
    BY <2>4 DEF Shape
  <2> QED
    BY <2>1, <2>2, <2>3, <2>4 DEF Kinds, Elsewhere, WalkingUp, Restarting, Requesting, RowAdded,
       Writing, Beginning, Ending
<1>4. Swept
  BY DEF Kinds, Elsewhere, WalkingUp, Restarting, Requesting, RowAdded, Writing, Beginning,
     Ending, SweepWaits, SweepFree, Shape
<1> QED
  BY <1>1, <1>2, <1>3, <1>4 DEF Shape

\* ix_queued_charges_one_waiting_per_user_plug.
LEMMA OneWaitingStep ==
    ASSUME Shape, OneWaitingPerPlug, Kinds PROVE OneWaitingPerPlug'
<1>1. ASSUME NEW i \in DOMAIN rows, RowWritten(i) PROVE OneWaitingPerPlug'
  BY <1>1, WriteFrame DEF OneWaitingPerPlug, Waiting
<1>2. ASSUME NEW r \in Requests, RowAdded(r) PROVE OneWaitingPerPlug'
  <2> DEFINE n == Len(rows) + 1
  <2>1. /\ DOMAIN rows' = DOMAIN rows \cup {n} /\ rows'[n] = NewRow(r)
        /\ \A j \in DOMAIN rows : rows'[j] = rows[j]
    BY <1>2, AddFrame
  <2>2. rows'[n].user = request[r].user /\ rows'[n].plug = request[r].plug
    BY <2>1 DEF NewRow
  <2>3. \A j \in DOMAIN rows : Waiting(j) =>
            rows[j].user # request[r].user \/ rows[j].plug # request[r].plug
    BY <1>2 DEF RowAdded, AlreadyQueued, WaitingOf
  <2> HIDE DEF n
  <2> QED
    BY <2>1, <2>2, <2>3 DEF OneWaitingPerPlug, Waiting
<1>3. CASE UNCHANGED rows
  BY <1>3 DEF OneWaitingPerPlug, Waiting
<1> QED
  BY <1>1, <1>2, <1>3 DEF Kinds, Elsewhere, WalkingUp, Restarting, Requesting, Writing,
     Beginning, Ending

\* A driver's uncontended rows grow only by the insert of a request of his that
\* is the only one in flight.
LEMMA UncontendedGrows ==
    ASSUME Shape, Kinds, NEW u,
           ~(\E r \in Requests : RowAdded(r) /\ request[r].user = u /\ ~Contended(r))
    PROVE  Uncontended(u)' \subseteq Uncontended(u)
<1>1. ASSUME NEW i \in DOMAIN rows, RowWritten(i) PROVE Uncontended(u)' \subseteq Uncontended(u)
  BY <1>1, WriteFrame DEF Uncontended, WaitingOf, Waiting
<1>2. ASSUME NEW r \in Requests, RowAdded(r) PROVE Uncontended(u)' \subseteq Uncontended(u)
  <2>1. /\ DOMAIN rows' = DOMAIN rows \cup {Len(rows) + 1}
        /\ \A j \in DOMAIN rows : rows'[j] = rows[j]
        /\ rows'[Len(rows) + 1].user = request[r].user
        /\ rows'[Len(rows) + 1].contended = Contended(r)
    <3>1. /\ DOMAIN rows' = DOMAIN rows \cup {Len(rows) + 1}
          /\ \A j \in DOMAIN rows : rows'[j] = rows[j]
          /\ rows'[Len(rows) + 1] = NewRow(r)
      BY <1>2, AddFrame
    <3>2. NewRow(r).user = request[r].user /\ NewRow(r).contended = Contended(r)
      BY Zenon DEF NewRow
    <3> QED
      BY <3>1, <3>2
  <2>2. request[r].user # u \/ Contended(r)
    BY <1>2
  <2> QED
    BY <2>1, <2>2 DEF Uncontended, WaitingOf, Waiting
<1>3. CASE UNCHANGED rows
  BY <1>3 DEF Uncontended, WaitingOf, Waiting
<1> QED
  BY <1>1, <1>2, <1>3 DEF Kinds, Elsewhere, WalkingUp, Restarting, Requesting, Writing,
     Beginning, Ending

LEMMA CapStep == ASSUME Shape, CapCounted, Kinds PROVE CapCounted'
<1> SUFFICES ASSUME NEW u \in Users
             PROVE  /\ Cardinality(Uncontended(u))' <= MaxQueued
                    /\ InFlight(u)' => Cardinality(Uncontended(u))' < MaxQueued
  BY DEF CapCounted
<1> DEFINE old == Uncontended(u)
           new == Uncontended(u)'
<1>1. /\ IsFiniteSet(old) /\ Cardinality(old) \in Nat
      /\ Cardinality(old) <= Cardinality(WaitingOf(u)) /\ Cardinality(WaitingOf(u)) \in Nat
  BY RowsFinite, FS_Subset DEF Uncontended, WaitingOf
<1>2. Cardinality(old) <= MaxQueued /\ (InFlight(u) => Cardinality(old) < MaxQueued)
  BY DEF CapCounted
<1>3. MaxQueued \in Nat
  BY QueuedChargesAssumption
<1>4. ASSUME NEW r \in Requests, RowAdded(r), request[r].user = u, ~Contended(r)
      PROVE  Cardinality(new) <= MaxQueued /\ ~InFlight(u)'
  <2>1. new \subseteq old \cup {Len(rows) + 1}
    BY <1>4, AddFrame DEF Uncontended, WaitingOf, Waiting
  <2>2. InFlight(u)
    BY <1>4 DEF InFlight, RowAdded
  <2>3. ~InFlight(u)'
    BY <1>4 DEF InFlight, RowAdded, Contended, Shape
  <2> HIDE DEF old, new
  <2>4. /\ IsFiniteSet(old \cup {Len(rows) + 1})
        /\ Cardinality(old \cup {Len(rows) + 1}) <= Cardinality(old) + 1
    BY <1>1, FS_AddElement
  <2>5. /\ Cardinality(new) <= Cardinality(old \cup {Len(rows) + 1})
        /\ Cardinality(new) \in Nat /\ Cardinality(old \cup {Len(rows) + 1}) \in Nat
    BY <2>1, <2>4, FS_Subset, FS_CardinalityType
  <2> QED
    BY <1>1, <1>2, <1>3, <2>2, <2>3, <2>4, <2>5
<1>5. ASSUME ~(\E r \in Requests : RowAdded(r) /\ request[r].user = u /\ ~Contended(r))
      PROVE  Cardinality(new) <= MaxQueued /\ (InFlight(u)' => Cardinality(new) < MaxQueued)
  <2>1. new \subseteq old
    BY <1>5, UncontendedGrows
  <2>2. InFlight(u)' => InFlight(u) \/ Cardinality(WaitingOf(u)) < MaxQueued
    <3>1. ASSUME NEW q \in Requests, request' = [request EXCEPT ![q] = NoRequest]
          PROVE  InFlight(u)' => InFlight(u)
      BY <3>1 DEF Shape, InFlight
    <3>2. ASSUME NEW q \in Requests, NEW v \in Users, NEW p \in Plugs, QueueCheck(q, v, p),
                 InFlight(u)'
          PROVE  InFlight(u) \/ Cardinality(WaitingOf(u)) < MaxQueued
      <4>1. PICK r \in Requests : request'[r] # NoRequest /\ request'[r].user = u
        BY <3>2 DEF InFlight
      <4>2. CASE r = q
        BY <3>2, <4>1, <4>2 DEF QueueCheck, Shape
      <4>3. CASE r # q
        BY <3>2, <4>1, <4>3 DEF QueueCheck, Shape, InFlight
      <4> QED
        BY <4>2, <4>3
    <3>3. CASE request' = [r \in Requests |-> NoRequest]
      BY <3>3 DEF InFlight
    <3>4. CASE UNCHANGED request
      BY <3>4 DEF InFlight
    <3> QED
      BY <3>1, <3>2, <3>3, <3>4 DEF Kinds, Elsewhere, WalkingUp, Restarting, Requesting,
         RowAdded, Writing, Beginning, Ending
  <2> HIDE DEF old, new
  <2>3. Cardinality(new) <= Cardinality(old) /\ Cardinality(new) \in Nat
    BY <1>1, <2>1, FS_Subset, FS_CardinalityType
  <2> QED
    BY <1>1, <1>2, <1>3, <2>2, <2>3
<1> QED
  BY <1>4, <1>5

\* begin_active_session counts the driver's sessions under the driver's row lock,
\* for a walk-up and for the sweep alike.
LEMMA ActiveStep == ASSUME Shape, AutoStartWithinCap, Kinds PROVE AutoStartWithinCap'
<1> SUFFICES ASSUME NEW u \in Users PROVE Cardinality(ActiveOf(u))' <= MaxActive
  BY DEF AutoStartWithinCap
<1> DEFINE old == ActiveOf(u)
           new == ActiveOf(u)'
<1>1. IsFiniteSet(old) /\ Cardinality(old) \in Nat /\ Cardinality(old) <= MaxActive
  BY ActiveFinite DEF AutoStartWithinCap
<1>2. MaxActive \in Nat
  BY QueuedChargesAssumption
<1>3. ASSUME new \subseteq old PROVE Cardinality(new) <= MaxActive
  <2> HIDE DEF old, new
  <2> QED
    BY <1>1, <1>2, <1>3, FS_Subset, FS_CardinalityType
<1>4. ASSUME NEW c, SessionAdded(c) PROVE Cardinality(new) <= MaxActive
  <2>1. /\ DOMAIN sessions' = DOMAIN sessions \cup {Len(sessions) + 1}
        /\ \A s \in DOMAIN sessions : sessions'[s] = sessions[s]
        /\ sessions'[Len(sessions) + 1] = c
    BY <1>4, SessionFrame
  <2>2. CASE c.user = u
    <3>1. new \subseteq old \cup {Len(sessions) + 1} /\ Cardinality(old) < MaxActive
      BY <1>4, <2>1, <2>2 DEF ActiveOf, ActiveSessions, SessionAdded
    <3> HIDE DEF old, new
    <3>2. /\ IsFiniteSet(old \cup {Len(sessions) + 1})
          /\ Cardinality(old \cup {Len(sessions) + 1}) <= Cardinality(old) + 1
      BY <1>1, FS_AddElement
    <3>3. /\ Cardinality(new) <= Cardinality(old \cup {Len(sessions) + 1})
          /\ Cardinality(new) \in Nat /\ Cardinality(old \cup {Len(sessions) + 1}) \in Nat
      BY <3>1, <3>2, FS_Subset, FS_CardinalityType
    <3> QED
      BY <1>1, <1>2, <3>1, <3>2, <3>3
  <2>3. CASE c.user # u
    BY <1>3, <2>1, <2>3 DEF ActiveOf, ActiveSessions
  <2> QED
    BY <2>2, <2>3
<1>5. ASSUME NEW s \in DOMAIN sessions, SessionEnded(s) PROVE new \subseteq old
  BY <1>5, EndFrame DEF ActiveOf, ActiveSessions
<1>6. CASE UNCHANGED sessions
  BY <1>3, <1>6 DEF ActiveOf, ActiveSessions
<1> QED
  BY <1>3, <1>4, <1>5, <1>6 DEF Kinds, Elsewhere, WalkingUp, Restarting, Requesting, RowAdded,
     Writing, Beginning, Ending

LEMMA LinksStep == ASSUME Shape, Links, Kinds PROVE Links'
<1>1. /\ Len(rows) \in Nat /\ DOMAIN rows = 1 .. Len(rows)
      /\ Len(sessions) \in Nat /\ DOMAIN sessions = 1 .. Len(sessions)
      /\ \A i \in DOMAIN rows : rows[i].session \in Nat
      /\ \A s \in DOMAIN sessions : sessions[s].row \in Nat
  BY Tables DEF QueuedCharge, ChargingSession
<1>2. /\ \A i \in DOMAIN rows : rows[i].session <= Len(sessions)
      /\ \A s \in DOMAIN sessions : sessions[s].row <= Len(rows)
      /\ sweep.at = "rows" => sweep.row = 0
      /\ sweep.at # "rows" => /\ sweep.row \in DOMAIN rows /\ sweep.session \in DOMAIN sessions
                              /\ sessions[sweep.session].row = sweep.row
      /\ \A i \in DOMAIN rows : rows[i].status = "STARTED" =>
            rows[i].session # 0 /\ sessions[rows[i].session].row = i
  BY DEF Links, StartedLinks
<1>3. ASSUME UNCHANGED <<rows, sessions>>, sweep' = sweep \/ SweepFree PROVE Links'
  BY <1>3 DEF Links, StartedLinks, SweepFree
<1>4. ASSUME NEW i \in DOMAIN rows, Writing(i) PROVE Links'
  <2>1. /\ Len(rows') = Len(rows) /\ DOMAIN rows' = DOMAIN rows
        /\ \A j \in DOMAIN rows : j # i => rows'[j] = rows[j]
        /\ \/ rows'[i].status # "STARTED" /\ rows'[i].session = rows[i].session
           \/ Starting /\ i = sweep.row /\ rows'[i].session = sweep.session
    BY <1>4, WriteFrame DEF Writing
  <2>2. sessions' = sessions /\ (sweep' = sweep \/ SweepFree)
    BY <1>4 DEF Writing, SweepWaits
  <2>3. /\ rows'[i].session <= Len(sessions)
        /\ rows'[i].status = "STARTED" =>
              rows'[i].session # 0 /\ sessions[rows'[i].session].row = i
    BY <1>1, <1>2, <2>1 DEF Starting
  <2>4. /\ \A j \in DOMAIN rows : rows'[j].session <= Len(sessions)
        /\ \A j \in DOMAIN rows : rows'[j].status = "STARTED" =>
              rows'[j].session # 0 /\ sessions[rows'[j].session].row = j
    BY <1>2, <2>1, <2>3
  <2>5. /\ sweep'.at = "rows" => sweep'.row = 0
        /\ sweep'.at # "rows" => /\ sweep'.row \in DOMAIN rows
                                 /\ sweep'.session \in DOMAIN sessions
                                 /\ sessions[sweep'.session].row = sweep'.row
    BY <1>2, <2>2 DEF SweepFree
  <2> QED
    BY <1>2, <2>1, <2>2, <2>4, <2>5 DEF Links, StartedLinks
<1>5. ASSUME NEW r \in Requests, RowAdded(r) PROVE Links'
  <2>1. /\ Len(rows') = Len(rows) + 1 /\ DOMAIN rows' = DOMAIN rows \cup {Len(rows) + 1}
        /\ \A j \in DOMAIN rows : rows'[j] = rows[j]
        /\ rows'[Len(rows) + 1] = NewRow(r)
    BY <1>5, AddFrame
  <2>2. NewRow(r).session = 0 /\ NewRow(r).status = "WAITING"
    BY Zenon DEF NewRow
  <2>3. UNCHANGED <<sessions, sweep>>
    BY <1>5 DEF RowAdded
  <2> QED
    BY <1>1, <1>2, <2>1, <2>2, <2>3 DEF Links, StartedLinks
<1>6. ASSUME NEW c, SessionAdded(c), c.row \in 0 .. Len(rows), UNCHANGED rows,
             \/ sweep' = sweep
             \/ /\ sweep'.at = "publishing" /\ sweep'.row = c.row /\ c.row \in DOMAIN rows
                /\ sweep'.session = Len(sessions) + 1
      PROVE  Links'
  <2>1. /\ Len(sessions') = Len(sessions) + 1
        /\ DOMAIN sessions' = DOMAIN sessions \cup {Len(sessions) + 1}
        /\ \A s \in DOMAIN sessions : sessions'[s] = sessions[s]
        /\ sessions'[Len(sessions) + 1] = c
    BY <1>6, SessionFrame
  <2>2. \A i \in DOMAIN rows : /\ rows[i].session <= Len(sessions')
                               /\ rows[i].status = "STARTED" => rows[i].session \in DOMAIN sessions
    BY <1>1, <1>2, <2>1
  <2> QED
    BY <1>1, <1>2, <1>6, <2>1, <2>2 DEF Links, StartedLinks
<1>7. ASSUME NEW s \in DOMAIN sessions, Ending(s) PROVE Links'
  <2>1. /\ Len(sessions') = Len(sessions) /\ DOMAIN sessions' = DOMAIN sessions
        /\ \A o \in DOMAIN sessions : sessions'[o].row = sessions[o].row
    BY <1>7, EndFrame DEF Ending
  <2>2. /\ UNCHANGED rows
        /\ \/ sweep' = sweep
           \/ /\ sweep.at = "publishing" /\ sweep'.at = "undone" /\ sweep'.row = sweep.row
              /\ sweep'.session = sweep.session
    BY <1>7 DEF Ending, Starting
  <2>3. \A i \in DOMAIN rows : rows[i].status = "STARTED" => rows[i].session \in DOMAIN sessions
    BY <1>1, <1>2
  <2> QED
    BY <1>2, <2>1, <2>2, <2>3 DEF Links, StartedLinks
<1>8. CASE WalkingUp
  BY <1>1, <1>6, <1>8 DEF WalkingUp
<1>9. ASSUME NEW i \in DOMAIN rows, Beginning(i) PROVE Links'
  <2>1. i \in 0 .. Len(rows)
    BY <1>1
  <2> QED
    BY <1>6, <1>9, <2>1 DEF Beginning
<1> QED
  BY <1>3, <1>4, <1>5, <1>7, <1>8, <1>9 DEF Kinds, Elsewhere, Restarting, Requesting, SweepWaits

\* A row waits and is not being started: begin_active_session has committed a
\* session for it only before a restart.
LEMMA StartsStep == ASSUME Shape, Links, StartsCounted, Kinds PROVE StartsCounted'
<1>1. /\ Len(rows) \in Nat /\ DOMAIN rows = 1 .. Len(rows)
      /\ Len(sessions) \in Nat /\ DOMAIN sessions = 1 .. Len(sessions)
  BY Tables
<1>2. \A i : IsFiniteSet(SessionsOf(i)) /\ Cardinality(SessionsOf(i)) \in Nat
  BY SessionsFinite DEF SessionsOf
<1>3. /\ restarts \in Nat
      /\ \A i \in DOMAIN rows :
            /\ Cardinality(SessionsOf(i)) <= 1 + restarts
            /\ Waiting(i) /\ sweep.row # i => Cardinality(SessionsOf(i)) <= restarts
  BY DEF Shape, StartsCounted
<1>4. ASSUME \A i : SessionsOf(i)' = SessionsOf(i), UNCHANGED restarts,
             DOMAIN rows' = DOMAIN rows,
             \A i \in DOMAIN rows : Waiting(i)' /\ sweep'.row # i => Waiting(i) /\ sweep.row # i
      PROVE  StartsCounted'
  BY <1>3, <1>4 DEF StartsCounted
<1>5. UNCHANGED sessions => \A i : SessionsOf(i)' = SessionsOf(i)
  BY DEF SessionsOf
<1>6. sweep.at = "rows" => sweep.row = 0 /\ \A i \in DOMAIN rows : sweep.row # i
  BY <1>1 DEF Links
<1>7. CASE Elsewhere
  BY <1>4, <1>5, <1>6, <1>7 DEF Elsewhere, Waiting, SweepWaits, SweepFree
<1>8. ASSUME NEW r \in Requests, Requesting(r) PROVE StartsCounted'
  BY <1>4, <1>5, <1>8 DEF Requesting, Waiting
<1>9. ASSUME NEW i \in DOMAIN rows, Writing(i) PROVE StartsCounted'
  <2>1. /\ DOMAIN rows' = DOMAIN rows
        /\ \A j \in DOMAIN rows : j # i => rows'[j] = rows[j]
        /\ rows'[i].status = "WAITING" => Waiting(i)
    BY <1>9, WriteFrame DEF Writing
  <2> QED
    BY <1>4, <1>5, <1>6, <1>9, <2>1 DEF Writing, SweepWaits, SweepFree, Waiting
<1>10. ASSUME NEW r \in Requests, RowAdded(r) PROVE StartsCounted'
  <2>1. /\ DOMAIN rows' = DOMAIN rows \cup {Len(rows) + 1}
        /\ \A j \in DOMAIN rows : rows'[j] = rows[j]
    BY <1>10, AddFrame
  <2>2. UNCHANGED <<sessions, sweep, restarts>>
    BY <1>10 DEF RowAdded
  <2>3. SessionsOf(Len(rows) + 1) = {}
    <3>1. \A s \in DOMAIN sessions : sessions[s].row \in Nat /\ sessions[s].row <= Len(rows)
      BY Tables DEF Links, ChargingSession
    <3> QED
      BY <1>1, <3>1 DEF SessionsOf
  <2>4. Cardinality(SessionsOf(Len(rows) + 1)) = 0
    BY <2>3, FS_EmptySet
  <2>5. ASSUME NEW i, SessionsOf(i)' = SessionsOf(i) PROVE Cardinality(SessionsOf(i))' = Cardinality(SessionsOf(i))
    BY <2>5
  <2>6. ASSUME NEW i \in DOMAIN rows'
        PROVE  /\ Cardinality(SessionsOf(i))' <= 1 + restarts
               /\ Waiting(i)' /\ sweep'.row # i => Cardinality(SessionsOf(i))' <= restarts
    <3>1. Cardinality(SessionsOf(i))' = Cardinality(SessionsOf(i))
      BY <1>5, <2>2, <2>5
    <3>2. CASE i \in DOMAIN rows
      BY <1>3, <2>1, <2>2, <3>1, <3>2 DEF Waiting
    <3>3. CASE i = Len(rows) + 1
      BY <1>3, <2>4, <3>1, <3>3
    <3> QED
      BY <2>1, <3>2, <3>3
  <2> QED
    BY <2>2, <2>6 DEF StartsCounted
<1>11. ASSUME NEW s \in DOMAIN sessions, Ending(s) PROVE StartsCounted'
  <2>1. /\ DOMAIN sessions' = DOMAIN sessions
        /\ \A o \in DOMAIN sessions : sessions'[o].row = sessions[o].row
    BY <1>11, EndFrame DEF Ending
  <2>2. \A i : SessionsOf(i)' = SessionsOf(i)
    BY <2>1 DEF SessionsOf
  <2>3. UNCHANGED <<rows, restarts>> /\ sweep'.row = sweep.row
    BY <1>11 DEF Ending
  <2> QED
    BY <1>4, <2>2, <2>3 DEF Waiting
<1>12. CASE WalkingUp
  <2>1. PICK c \in ChargingSession : SessionAdded(c) /\ c.row = 0
    BY <1>12 DEF WalkingUp
  <2>2. /\ DOMAIN sessions' = DOMAIN sessions \cup {Len(sessions) + 1}
        /\ \A s \in DOMAIN sessions : sessions'[s] = sessions[s]
        /\ sessions'[Len(sessions) + 1].row = 0
    BY <2>1, SessionFrame
  <2>3. UNCHANGED <<rows, restarts, sweep>>
    BY <1>12 DEF WalkingUp
  <2>4. \A i \in DOMAIN rows : SessionsOf(i)' = SessionsOf(i)
    BY <1>1, <2>2 DEF SessionsOf
  <2> QED
    BY <1>3, <2>3, <2>4 DEF StartsCounted, Waiting
<1>13. ASSUME NEW i \in DOMAIN rows, Beginning(i) PROVE StartsCounted'
  <2>1. PICK c \in ChargingSession : SessionAdded(c) /\ c.row = i
    BY <1>13 DEF Beginning
  <2>2. /\ DOMAIN sessions' = DOMAIN sessions \cup {Len(sessions) + 1}
        /\ Len(sessions) + 1 \notin DOMAIN sessions
        /\ \A s \in DOMAIN sessions : sessions'[s] = sessions[s]
        /\ sessions'[Len(sessions) + 1].row = i
    BY <2>1, SessionFrame
  <2>3. UNCHANGED <<rows, restarts>> /\ sweep'.row = i /\ Waiting(i) /\ sweep.row # i
    BY <1>6, <1>13 DEF Beginning
  <2>4. \A j \in DOMAIN rows : j # i => SessionsOf(j)' = SessionsOf(j)
    BY <2>2 DEF SessionsOf
  <2>5. SessionsOf(i)' = SessionsOf(i) \cup {Len(sessions) + 1}
    BY <2>2 DEF SessionsOf
  <2>6. Cardinality(SessionsOf(i) \cup {Len(sessions) + 1}) = Cardinality(SessionsOf(i)) + 1
    <3>1. Len(sessions) + 1 \notin SessionsOf(i) /\ IsFiniteSet(SessionsOf(i))
      BY <1>2, <2>2 DEF SessionsOf
    <3> QED
      BY <3>1, FS_AddElement
  <2>7. Cardinality(SessionsOf(i))' <= 1 + restarts
    <3>1. Cardinality(SessionsOf(i)) <= restarts
      BY <1>3, <2>3
    <3>2. Cardinality(SessionsOf(i) \cup {Len(sessions) + 1}) \in Nat
      BY <1>2, FS_AddElement, FS_CardinalityType
    <3> QED
      BY <1>2, <1>3, <2>5, <2>6, <3>1, <3>2
  <2>8. sweep.at = "rows" /\ \A j \in DOMAIN rows : sweep.row # j
    BY <1>6, <1>13 DEF Beginning
  <2> QED
    BY <1>3, <2>3, <2>4, <2>7, <2>8 DEF StartsCounted, Waiting
<1>14. CASE Restarting
  <2>1. UNCHANGED <<rows, sessions>> /\ restarts' = restarts + 1
    BY <1>14 DEF Restarting
  <2>2. \A i \in DOMAIN rows : Cardinality(SessionsOf(i))' <= restarts + 1
    BY <1>3, <1>5, <2>1
  <2>3. \A i : Cardinality(SessionsOf(i))' \in Nat
    BY <1>2, <1>5, <2>1
  <2> QED
    BY <1>3, <2>1, <2>2, <2>3 DEF StartsCounted
<1> QED
  BY <1>7, <1>8, <1>9, <1>10, <1>11, <1>12, <1>13, <1>14 DEF Kinds
-----------------------------------------------------------------------------
(* The theorems *)

LEMMA InitInv == Init => Inv
<1> SUFFICES ASSUME Init PROVE Inv
  OBVIOUS
<1>1. /\ rows = <<>> /\ sessions = <<>> /\ restarts = 0
      /\ DOMAIN rows = {} /\ DOMAIN sessions = {} /\ Len(rows) = 0 /\ Len(sessions) = 0
  BY DEF Init
<1>2. \A r \in Requests : request[r] = NoRequest
  BY DEF Init
<1>3. sweep = [at |-> "rows", todo |-> {}, row |-> 0, session |-> 0]
  BY DEF Init, NoSweep
<1>4. Shape
  BY <1>1, <1>2, <1>3 DEF Init, Shape, PlugPower, SweepState
<1>5. Links /\ OneWaitingPerPlug /\ StartsCounted
  BY <1>1, <1>3 DEF Links, StartedLinks, OneWaitingPerPlug, StartsCounted
<1>6. \A u : Uncontended(u) = {} /\ ActiveOf(u) = {} /\ ~InFlight(u)
  BY <1>1, <1>2 DEF Uncontended, WaitingOf, ActiveOf, ActiveSessions, InFlight
<1>7. CapCounted /\ AutoStartWithinCap
  BY <1>6, FS_EmptySet, QueuedChargesAssumption DEF CapCounted, AutoStartWithinCap
<1> QED
  BY <1>4, <1>5, <1>7 DEF Inv

LEMMA NextInv == Inv /\ [Next]_vars => Inv'
<1> SUFFICES ASSUME Inv, [Next]_vars PROVE Inv'
  OBVIOUS
<1>1. Shape /\ Links /\ OneWaitingPerPlug /\ CapCounted /\ AutoStartWithinCap /\ StartsCounted
  BY DEF Inv
<1>2. Kinds
  BY <1>1, StepKinds
<1> QED
  BY <1>1, <1>2, ShapeStep, LinksStep, OneWaitingStep, CapStep, ActiveStep, StartsStep DEF Inv

LEMMA SpecInv == Spec => []Inv
BY InitInv, NextInv, PTL DEF Spec

\* queue_charge, cancel_queued_charge and reap_queued_starts_once: one live row
\* per driver and plug, both caps, and one session per row and restart, to which
\* the row leads, for any number of drivers, plugs, requests and restarts.
THEOREM QueueConsistentHolds == Spec => []QueueConsistent
<1>1. Inv => QueueConsistent
  <2> SUFFICES ASSUME Inv PROVE QueueConsistent
    OBVIOUS
  <2>1. TypeOK
    BY Tables DEF Inv, Shape, Links, TypeOK
  <2>2. QueueCapUncontended
    <3> SUFFICES ASSUME NEW u \in Users, \A i \in WaitingOf(u) : ~rows[i].contended
                 PROVE  ~(Cardinality(WaitingOf(u)) > MaxQueued)
      BY DEF QueueCapUncontended
    <3>1. WaitingOf(u) = Uncontended(u)
      BY DEF Uncontended
    <3>2. Cardinality(Uncontended(u)) <= MaxQueued
      BY DEF Inv, CapCounted
    <3>3. WaitingOf(u) \in SUBSET DOMAIN rows
      BY DEF WaitingOf
    <3>4. Cardinality(WaitingOf(u)) \in Nat
      BY <3>3, RowsFinite DEF Inv
    <3> QED
      BY <3>1, <3>2, <3>4, QueuedChargesAssumption
  <2>3. StartedOnce
    BY DEF Inv, StartsCounted, SessionsOf, StartedOnce
  <2> QED
    BY <2>1, <2>2, <2>3 DEF Inv, Links, QueueConsistent
<1> QED
  BY <1>1, SpecInv, PTL

\* cancel_queued_charge: a cancellation is final, unless the sweep had committed
\* the row's session by then.
THEOREM CancelSticksHolds == Spec => CancelSticks
<1>1. Inv /\ [Next]_vars =>
        \A i \in DOMAIN rows : rows[i].status = "CANCELLED" /\ sweep.row # i =>
            rows'[i].status = "CANCELLED" /\ sweep'.row # i
  <2> SUFFICES ASSUME Inv, [Next]_vars, NEW i \in DOMAIN rows,
                      rows[i].status = "CANCELLED", sweep.row # i
               PROVE  rows'[i].status = "CANCELLED" /\ sweep'.row # i
    OBVIOUS
  <2>1. i # 0 /\ Shape /\ Links
    BY Tables DEF Inv
  <2>2. Kinds
    BY <2>1, StepKinds
  <2>3. ASSUME NEW j \in DOMAIN rows, Writing(j)
        PROVE  rows'[i].status = "CANCELLED" /\ sweep'.row # i
    <3>1. j # i
      BY <2>3 DEF Writing, RowWritten, Waiting
    <3>2. rows'[i] = rows[i]
      BY <2>1, <2>3, <3>1, WriteFrame DEF Writing
    <3>3. sweep'.row = sweep.row \/ sweep'.row = 0
      BY <2>3 DEF Writing, SweepWaits, SweepFree
    <3> QED
      BY <2>1, <3>2, <3>3
  <2>4. ASSUME NEW j \in DOMAIN rows, Beginning(j)
        PROVE  rows'[i].status = "CANCELLED" /\ sweep'.row # i
    BY <2>4 DEF Beginning, Waiting
  <2>5. ASSUME NEW r \in Requests, RowAdded(r)
        PROVE  rows'[i].status = "CANCELLED" /\ sweep'.row # i
    BY <2>1, <2>5, AddFrame DEF RowAdded
  <2>6. \/ UNCHANGED rows /\ sweep'.row \in {0, sweep.row}
        \/ \E r \in Requests : RowAdded(r)
        \/ \E j \in DOMAIN rows : Writing(j) \/ Beginning(j)
    BY <2>2 DEF Kinds, Elsewhere, WalkingUp, Restarting, Requesting, Ending, SweepWaits,
       SweepFree
  <2> QED
    BY <2>1, <2>3, <2>4, <2>5, <2>6
<1> QED
  BY <1>1, SpecInv, PTL DEF Spec, CancelSticks
=============================================================================
