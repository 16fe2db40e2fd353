-------------------------- MODULE ReservationsProofs --------------------------
(***************************************************************************)
(* Reservations for every set of users and windows, every setting of the   *)
(* rules, any number of restarts and failures.                             *)
(*                                                                         *)
(* Links says what a start in flight may rely on about the booking it read *)
(* at the gate, although other transactions write that row meanwhile.      *)
(* Gated and Cleared carry the open window: a start past the gate is the   *)
(* holder's, or commits the expiry of the window it ignores; so the        *)
(* strangers in a window were charging when the sweep claimed it, and it   *)
(* stops them, or are late commits, which the session's history names.     *)
(***************************************************************************)
EXTENDS Reservations, SequenceTheorems, FiniteSetTheorems, TLAPS

StartState == [at : {"idle", "gated", "publishing"}, read : Nat, cover : Nat, session : Nat]
SweepState == [at : {"idle", "scanned", "stopping", "nudging", "unstopped"},
               todo : SUBSET Nat, row : Nat, victim : Nat]

Shape ==
    /\ now \in 0 .. MaxNow /\ faults \in 0 .. MaxFaults
    /\ rows \in Seq(Reservation) /\ sessions \in Seq(ChargingSession)
    /\ plug \in {"AVAILABLE", "OCCUPIED", "MAINTENANCE"}
    /\ start \in [Users -> StartState]
    /\ sweep \in SweepState

Restored == \E j \in Ids : rows[j].restored

\* What a start in flight knows of its booking, and a row of its session.
StartLinked(u) ==
    /\ start[u].at = "idle" => start[u].cover = 0
    /\ start[u].cover # 0 => start[u].cover \in Ids /\ rows[start[u].cover].user = u
    /\ start[u].at = "gated" /\ start[u].cover # 0 =>
           Covers(rows[start[u].cover], start[u].read)
    /\ start[u].at = "publishing" =>
           /\ start[u].session \in DOMAIN sessions
           /\ sessions[start[u].session].user = u
           /\ start[u].cover # 0 => /\ rows[start[u].cover].status = "FULFILLED"
                                    /\ rows[start[u].cover].session = start[u].session
           /\ \A i \in Ids : rows[i].session = start[u].session => i = start[u].cover

RowLinked(i) ==
    /\ rows[i].status = "FULFILLED" <=> rows[i].session # 0
    /\ rows[i].session # 0 =>
           /\ rows[i].session \in DOMAIN sessions
           /\ sessions[rows[i].session].user = rows[i].user
           /\ Covers(rows[i], sessions[rows[i].session].gated)
           /\ sessions[rows[i].session].status # "CANCELLED"
    /\ \A j \in Ids : rows[i].session # 0 /\ rows[j].session = rows[i].session => i = j

Links ==
    /\ \A u, v \in Users : start[u].at = "gated" /\ start[v].at = "gated" => u = v
    /\ \A u \in Users : StartLinked(u)
    /\ \A i \in Ids : RowLinked(i)

\* The sweep has stamped the row it is at, and not nudged its holder.
Nudges ==
    /\ \A i \in Ids : /\ rows[i].nudges <= 1
                      /\ ~rows[i].stamped => rows[i].nudges = 0
                      /\ rows[i].ready => rows[i].nudges = 1
    /\ sweep.at \in {"stopping", "nudging", "unstopped"} =>
           /\ sweep.row \in Ids /\ rows[sweep.row].stamped /\ rows[sweep.row].nudges = 0

\* Of two sessions that share the plug, the later is marked.
Marked == \A s, o \in ActiveSessions : s < o => sessions[o].shared

\* A session that is not row i's holder's and is alone on the plug, other than
\* one let in before the window that committed after the sweep had claimed it.
Stranger(i, s) ==
    /\ s \in ActiveSessions /\ sessions[s].user # rows[i].user
    /\ ~(sessions[s].gated < rows[i].start /\ i \in sessions[s].after)
    /\ \A o \in DOMAIN sessions : o >= s => ~sessions[o].shared

Gated ==
    \A u \in Users, i \in Ids :
        start[u].at = "gated" /\ Booked(i) /\ rows[i].start <= start[u].read =>
            rows[i].user = u \/ Lapsed(rows[i], start[u].read) \/ Restored

Cleared ==
    \A i \in Ids : Booked(i) /\ ~Restored =>
        /\ rows[i].ready => \A s \in DOMAIN sessions : ~Stranger(i, s)
        /\ sweep.at = "nudging" /\ sweep.row = i => \A s \in DOMAIN sessions : ~Stranger(i, s)
        /\ sweep.at = "stopping" /\ sweep.row = i =>
               \A s \in DOMAIN sessions : Stranger(i, s) => s = sweep.victim

Inv == /\ Shape /\ Links /\ Nudges /\ NoDoubleBooking /\ CapHolds
       /\ Marked /\ Gated /\ (ForceStop => Cleared)
-----------------------------------------------------------------------------
(* Writes of the tables *)

LEMMA Tables ==
    ASSUME Shape
    PROVE  /\ Len(rows) \in Nat /\ Ids = 1 .. Len(rows)
           /\ Len(sessions) \in Nat /\ DOMAIN sessions = 1 .. Len(sessions)
           /\ \A i \in Ids : rows[i] \in Reservation
           /\ \A s \in DOMAIN sessions : sessions[s] \in ChargingSession
<1>1. rows \in Seq(Reservation) /\ sessions \in Seq(ChargingSession)
  BY DEF Shape
<1> QED
  BY <1>1, LenProperties, ElementOfSeq DEF Ids

LEMMA RowsFinite == ASSUME Shape, NEW S \in SUBSET Ids
                    PROVE  IsFiniteSet(S) /\ Cardinality(S) \in Nat
<1>1. Ids = 1 .. Len(rows) /\ Len(rows) \in Int
  BY Tables
<1>2. IsFiniteSet(Ids)
  BY <1>1, FS_Interval
<1> QED
  BY <1>2, FS_Subset, FS_CardinalityType

\* A sequence of rows rewritten row by row.
LEMMA Rewritten ==
    ASSUME Shape, NEW f, DOMAIN f = Ids, f = [i \in Ids |-> f[i]],
           \A i \in Ids : f[i] \in Reservation
    PROVE  f \in Seq(Reservation) /\ Len(f) = Len(rows)
<1>1. Ids = 1 .. Len(rows) /\ Len(rows) \in Nat
  BY Tables
<1>2. f \in [1 .. Len(rows) -> Reservation]
  BY <1>1
<1> QED
  BY <1>1, <1>2, SeqDef, LenProperties

\* expire_lapsed_reservations touches the status of lapsed rows only.
LEMMA ExpireFacts ==
    ASSUME Shape, NEW S, NEW t
    PROVE  /\ Expire(rows, S, t) \in Seq(Reservation)
           /\ Len(Expire(rows, S, t)) = Len(rows) /\ DOMAIN Expire(rows, S, t) = Ids
           /\ \A i \in Ids :
                /\ ~(i \in S /\ Lapsed(rows[i], t)) => Expire(rows, S, t)[i] = rows[i]
                /\ i \in S /\ Lapsed(rows[i], t) =>
                       /\ Booked(i)
                       /\ Expire(rows, S, t)[i] = [rows[i] EXCEPT !.status = "EXPIRED"]
<1> DEFINE e == Expire(rows, S, t)
<1>1. /\ DOMAIN e = Ids /\ e = [i \in Ids |-> e[i]]
      /\ \A i \in Ids :
                /\ ~(i \in S /\ Lapsed(rows[i], t)) => e[i] = rows[i]
                /\ i \in S /\ Lapsed(rows[i], t) => e[i] = [rows[i] EXCEPT !.status = "EXPIRED"]
  BY DEF Expire, Ids
<1>2. \A i \in Ids : Lapsed(rows[i], t) => Booked(i)
  BY DEF Lapsed, Booked
<1> HIDE DEF e
<1>3. \A i \in Ids : e[i] \in Reservation
  <2> SUFFICES ASSUME NEW i \in Ids PROVE e[i] \in Reservation
    OBVIOUS
  <2>1. rows[i] \in Reservation
    BY Tables
  <2>2. [rows[i] EXCEPT !.status = "EXPIRED"] \in Reservation
    BY <2>1 DEF Reservation, ReservationStatus
  <2> QED
    BY <1>1, <2>1, <2>2
<1>4. e \in Seq(Reservation) /\ Len(e) = Len(rows)
  BY <1>1, <1>3, Rewritten
<1> QED
  BY <1>1, <1>2, <1>4 DEF e

SameWindow(a, b) == a.user = b.user /\ a.start = b.start /\ a.end = b.end

\* What a step may do to a row.
RowMoves(i) ==
    /\ SameWindow(rows'[i], rows[i])
    /\ rows[i].restored => rows'[i].restored
    /\ rows[i].stamped => rows'[i].stamped
    /\ rows'[i].status = "BOOKED" => Booked(i) \/ rows'[i].restored
    /\ \/ rows'[i].nudges = rows[i].nudges /\ rows'[i].ready = rows[i].ready
       \/ SweepNudge /\ i = sweep.row
    /\ \/ /\ rows'[i].session = rows[i].session
          /\ \/ rows'[i].status = rows[i].status
             \/ Booked(i) /\ rows'[i].status \in {"CANCELLED", "EXPIRED"}
       \/ \E u \in Users : start[u].cover = i /\ (StartCommit(u) \/ PublishFails(u))

\* The same, for a table that is named.
LEMMA ExpireKeeps ==
    ASSUME Shape, NEW S, NEW t, NEW e, e = Expire(rows, S, t)
    PROVE  /\ e \in Seq(Reservation) /\ Len(e) = Len(rows) /\ DOMAIN e = Ids
           /\ \A i \in Ids : \/ e[i] = rows[i]
                             \/ Booked(i) /\ e[i] = [rows[i] EXCEPT !.status = "EXPIRED"]
<1>1. e \in Seq(Reservation) /\ Len(e) = Len(rows) /\ DOMAIN e = Ids
  BY ExpireFacts, Zenon
<1>2. ASSUME NEW i \in Ids
      PROVE  e[i] = rows[i] \/ (Booked(i) /\ e[i] = [rows[i] EXCEPT !.status = "EXPIRED"])
  <2>1. CASE i \in S /\ Lapsed(rows[i], t)
    BY <2>1, ExpireFacts
  <2>2. CASE ~(i \in S /\ Lapsed(rows[i], t))
    BY <2>2, ExpireFacts
  <2> QED
    BY <2>1, <2>2
<1> QED
  BY <1>1, <1>2

RowsMove == rows' \in Seq(Reservation) /\ Len(rows') = Len(rows) /\ \A i \in Ids : RowMoves(i)

LEMMA RowsStay == ASSUME Shape, UNCHANGED rows PROVE RowsMove
BY Tables DEF RowsMove, RowMoves, SameWindow, Booked, Shape

LEMMA ExpiryMoves ==
    ASSUME Shape, NEW S, NEW t, rows' = Expire(rows, S, t)
    PROVE  RowsMove
<1>1. rows' \in Seq(Reservation) /\ Len(rows') = Len(rows)
  BY ExpireFacts
<1>2. ASSUME NEW i \in Ids PROVE RowMoves(i)
  <2>1. rows'[i] = rows[i] \/ (Booked(i) /\ rows'[i] = [rows[i] EXCEPT !.status = "EXPIRED"])
    BY ExpireFacts
  <2>2. rows[i] \in Reservation
    BY Tables
  <2> QED
    BY <2>1, <2>2 DEF RowMoves, SameWindow, Reservation, Booked
<1> QED
  BY <1>1, <1>2 DEF RowsMove

\* One row is written.
LEMMA OneRowMoves ==
    ASSUME Shape, NEW i \in Ids, NEW new \in Reservation, rows' = [rows EXCEPT ![i] = new],
           rows'[i] = new => RowMoves(i)
    PROVE  RowsMove
<1>1. rows \in Seq(Reservation) /\ Ids = 1 .. Len(rows)
  BY Tables DEF Shape
<1>2. rows' \in Seq(Reservation) /\ Len(rows') = Len(rows)
  BY <1>1, ExceptSeq
<1>3. rows'[i] = new /\ \A j \in Ids : j # i => rows'[j] = rows[j]
  BY <1>1 DEF Ids
<1>4. \A j \in Ids : j # i => RowMoves(j)
  BY <1>3 DEF RowMoves, SameWindow, Booked
<1> QED
  BY <1>2, <1>3, <1>4 DEF RowsMove

LEMMA CancelMoves == ASSUME Shape, NEW i \in Ids, CancelReservation(i) PROVE RowsMove
<1> DEFINE new == [rows[i] EXCEPT !.status = "CANCELLED"]
<1>1. rows' = [rows EXCEPT ![i] = new] /\ Booked(i)
  BY DEF CancelReservation
<1>2. new \in Reservation
  BY Tables DEF Reservation, ReservationStatus
<1>3. rows'[i] = new => RowMoves(i)
  BY <1>1, Tables DEF RowMoves, SameWindow, Reservation, Booked
<1> HIDE DEF new
<1> QED
  BY <1>1, <1>2, <1>3, OneRowMoves

LEMMA ClaimMoves == ASSUME Shape, NEW i \in Ids, SweepClaim(i) PROVE RowsMove
<1> DEFINE new == [rows[i] EXCEPT !.stamped = TRUE]
<1>1. rows' = [rows EXCEPT ![i] = new] /\ Booked(i)
  BY DEF SweepClaim
<1>2. new \in Reservation
  BY Tables DEF Reservation
<1>3. rows'[i] = new => RowMoves(i)
  BY <1>1, Tables DEF RowMoves, SameWindow, Reservation, Booked
<1> HIDE DEF new
<1> QED
  BY <1>1, <1>2, <1>3, OneRowMoves

LEMMA NudgeMoves == ASSUME Shape, Nudges, SweepNudge PROVE RowsMove
<1> DEFINE i == sweep.row
           free == sweep.at = "nudging"
           count == rows[i].nudges + 1
           new == [rows[i] EXCEPT !.nudges = count, !.ready = free]
<1>1. i \in Ids /\ rows' = [rows EXCEPT ![i] = new] /\ free \in BOOLEAN
  BY DEF SweepNudge, Nudges
<1>2. rows[i] \in Reservation /\ count \in Nat
  BY <1>1, Tables DEF Reservation
<1> HIDE DEF free, count, i
<1>3. /\ new \in Reservation /\ SameWindow(new, rows[i]) /\ new.restored = rows[i].restored
      /\ new.stamped = rows[i].stamped /\ new.status = rows[i].status
      /\ new.session = rows[i].session
  BY <1>1, <1>2 DEF Reservation, SameWindow
<1> HIDE DEF new
<1>4. rows'[i] = new => RowMoves(i)
  BY <1>3 DEF RowMoves, Booked, i
<1> QED
  BY <1>1, <1>3, <1>4, OneRowMoves

\* The commit of a start: the lapsed rows expire, and the booking is fulfilled.
LEMMA CommitRows ==
    ASSUME Shape, Links, NEW u \in Users, StartCommit(u)
    PROVE  /\ RowsMove
           /\ \A i \in Ids : i # start[u].cover =>
                  /\ ~Lapsed(rows[i], start[u].read) => rows'[i] = rows[i]
                  /\ Lapsed(rows[i], start[u].read) =>
                         rows'[i] = [rows[i] EXCEPT !.status = "EXPIRED"]
           /\ start[u].cover # 0 => /\ rows'[start[u].cover].status = "FULFILLED"
                                    /\ rows'[start[u].cover].session = Len(sessions) + 1
<1> DEFINE c == start[u].cover
           e == Expire(rows, Ids, start[u].read)
<1>1. /\ e \in Seq(Reservation) /\ Len(e) = Len(rows) /\ DOMAIN e = Ids
      /\ \A i \in Ids :
           /\ ~Lapsed(rows[i], start[u].read) => e[i] = rows[i]
           /\ Lapsed(rows[i], start[u].read) =>
                  Booked(i) /\ e[i] = [rows[i] EXCEPT !.status = "EXPIRED"]
  BY ExpireFacts
<1>2. CASE c = 0
  <2>1. rows' = e /\ 0 \notin Ids
    BY <1>2, Tables DEF StartCommit
  <2> QED
    BY <1>1, <1>2, <2>1, ExpiryMoves
<1>3. CASE c # 0
  <2>1. c \in Ids
    BY <1>3 DEF Links, StartLinked
  <2>2. rows' = [e EXCEPT ![c].status = "FULFILLED", ![c].session = Len(sessions) + 1]
    BY <1>3 DEF StartCommit
  <2> HIDE DEF e
  <2>3. e[c] \in Reservation /\ SameWindow(e[c], rows[c]) /\ e[c].restored = rows[c].restored
        /\ e[c].stamped = rows[c].stamped /\ e[c].nudges = rows[c].nudges
        /\ e[c].ready = rows[c].ready
    <3>1. rows[c] \in Reservation /\ (e[c] = rows[c] \/ e[c] = [rows[c] EXCEPT !.status = "EXPIRED"])
      BY <1>1, <2>1, Tables
    <3> QED
      BY <3>1 DEF Reservation, ReservationStatus, SameWindow
  <2> DEFINE new == [e[c] EXCEPT !.status = "FULFILLED", !.session = Len(sessions) + 1]
  <2>4. rows' = [e EXCEPT ![c] = new]
    BY <2>2
  <2>5. /\ new \in Reservation /\ SameWindow(new, rows[c]) /\ new.restored = rows[c].restored
        /\ new.stamped = rows[c].stamped /\ new.nudges = rows[c].nudges
        /\ new.ready = rows[c].ready /\ new.status = "FULFILLED"
        /\ new.session = Len(sessions) + 1
    <3>1. Len(sessions) + 1 \in Nat
      BY Tables
    <3> QED
      BY <2>3, <3>1 DEF Reservation, ReservationStatus, SameWindow
  <2> HIDE DEF new
  <2>6. rows' \in Seq(Reservation) /\ Len(rows') = Len(rows)
    <3>1. c \in 1 .. Len(e)
      BY <1>1, <2>1, Tables
    <3> QED
      BY <1>1, <2>4, <2>5, <3>1, ExceptSeq
  <2>7. rows'[c] = new /\ \A i \in Ids : i # c => rows'[i] = e[i]
    BY <1>1, <2>1, <2>4
  <2>8. RowMoves(c)
    BY <2>5, <2>7 DEF RowMoves, SameWindow
  <2>9. ASSUME NEW i \in Ids, i # c PROVE RowMoves(i)
    <3>1. rows'[i] = rows[i] \/ (Booked(i) /\ rows'[i] = [rows[i] EXCEPT !.status = "EXPIRED"])
      BY <1>1, <2>7, <2>9
    <3>2. rows[i] \in Reservation
      BY Tables
    <3> QED
      BY <3>1, <3>2 DEF RowMoves, SameWindow, Reservation, Booked
  <2> QED
    BY <1>1, <2>5, <2>6, <2>7, <2>8, <2>9 DEF RowsMove
<1> QED
  BY <1>2, <1>3

\* The undo of a start gives the booking back.
LEMMA UndoRows ==
    ASSUME Shape, Links, NEW u \in Users, PublishFails(u)
    PROVE  /\ RowsMove
           /\ \A i \in Ids : i # start[u].cover => rows'[i] = rows[i]
           /\ start[u].cover # 0 => /\ rows'[start[u].cover].status = "BOOKED"
                                    /\ rows'[start[u].cover].session = 0
                                    /\ rows'[start[u].cover].restored
<1> DEFINE c == start[u].cover
<1>1. CASE c = 0
  <2>1. UNCHANGED rows
    BY <1>1 DEF PublishFails
  <2> QED
    BY <1>1, <2>1, RowsStay
<1>2. CASE c # 0
  <2>1. c \in Ids /\ rows[c] \in Reservation
    BY <1>2, Tables DEF Links, StartLinked
  <2> DEFINE new == [rows[c] EXCEPT !.status = "BOOKED", !.session = 0, !.restored = TRUE]
  <2>2. rows' = [rows EXCEPT ![c] = new]
    BY <1>2 DEF PublishFails
  <2>3. /\ new \in Reservation /\ SameWindow(new, rows[c]) /\ new.restored
        /\ new.stamped = rows[c].stamped /\ new.nudges = rows[c].nudges
        /\ new.ready = rows[c].ready /\ new.status = "BOOKED" /\ new.session = 0
    BY <2>1 DEF Reservation, ReservationStatus, SameWindow
  <2> HIDE DEF new
  <2>4. rows'[c] = new /\ \A i \in Ids : i # c => rows'[i] = rows[i]
    BY <2>1, <2>2 DEF Ids, Shape
  <2>5. RowMoves(c)
    BY <2>3, <2>4 DEF RowMoves, SameWindow
  <2>6. RowsMove
    BY <2>1, <2>2, <2>3, <2>5, OneRowMoves
  <2> QED
    BY <2>3, <2>4, <2>6
<1> QED
  BY <1>1, <1>2

\* create_reservation: the new row is BOOKED and apart from every BOOKED one.
Creates(u) ==
    /\ Len(rows') = Len(rows) + 1 /\ rows' \in Seq(Reservation)
    /\ \A i \in Ids : RowMoves(i)
    /\ rows'[Len(rows) + 1].user = u
    /\ rows'[Len(rows) + 1].session = 0 /\ rows'[Len(rows) + 1].status = "BOOKED"
    /\ rows'[Len(rows) + 1].nudges = 0 /\ ~rows'[Len(rows) + 1].ready
    /\ ~rows'[Len(rows) + 1].stamped /\ ~rows'[Len(rows) + 1].restored
    /\ \A i \in Ids : rows'[i].status = "BOOKED" => ~Overlap(rows'[i], rows'[Len(rows) + 1])
    /\ Cardinality(Upcoming(rows, u) \cap {i \in Ids : rows'[i].status = "BOOKED"}) < MaxUpcoming
    /\ ~PlugLocked
    /\ UNCHANGED <<now, sessions, plug, start, sweep, faults>>

LEMMA CreateFacts ==
    ASSUME Shape, NEW u \in Users, NEW w \in Windows, CreateReservation(u, w[1], w[2])
    PROVE  Creates(u)
<1> DEFINE e == Expire(rows, Ids, now)
           new == [user |-> u, start |-> w[1], end |-> w[2], status |-> "BOOKED",
                   session |-> 0, stamped |-> FALSE,
                   nudges |-> 0, ready |-> FALSE, restored |-> FALSE]
           n == Len(rows) + 1
<1>1. /\ e \in Seq(Reservation) /\ Len(e) = Len(rows) /\ DOMAIN e = Ids
      /\ \A i \in Ids : /\ e[i] = rows[i]
                           \/ (Booked(i) /\ e[i] = [rows[i] EXCEPT !.status = "EXPIRED"])
  <2>1. e = Expire(rows, Ids, now)
    OBVIOUS
  <2> HIDE DEF e, new, n
  <2>2. e \in Seq(Reservation) /\ Len(e) = Len(rows) /\ DOMAIN e = Ids
    BY <2>1, ExpireKeeps
  <2>3. ASSUME NEW i \in Ids
        PROVE  e[i] = rows[i] \/ (Booked(i) /\ e[i] = [rows[i] EXCEPT !.status = "EXPIRED"])
    BY <2>1, ExpireKeeps
  <2> QED
    BY <2>2, <2>3
<1>2. /\ SlotFree(e, w[1], w[2]) /\ Cardinality(Upcoming(e, u)) < MaxUpcoming /\ ~PlugLocked
      /\ rows' = Append(e, new) /\ UNCHANGED <<now, sessions, plug, start, sweep, faults>>
  BY DEF CreateReservation, Insert
<1>3. w[1] \in Int /\ w[2] \in Int
  BY ReservationsAssumption
<1> HIDE DEF e
<1>4. new \in Reservation
  BY <1>3 DEF Reservation, ReservationStatus
<1>5. /\ new.user = u /\ new.start = w[1] /\ new.end = w[2] /\ new.status = "BOOKED"
      /\ new.session = 0 /\ ~new.stamped /\ new.nudges = 0 /\ ~new.ready /\ ~new.restored
  OBVIOUS
<1> HIDE DEF new
<1>6. /\ rows' \in Seq(Reservation) /\ Len(rows') = Len(rows) + 1
      /\ rows'[n] = new /\ \A i \in Ids : rows'[i] = e[i]
  BY <1>1, <1>2, <1>4, Tables, AppendProperties
<1>7. ASSUME NEW i \in Ids PROVE RowMoves(i)
  <2>1. rows[i] \in Reservation
        /\ (rows'[i] = rows[i] \/ (Booked(i) /\ rows'[i] = [rows[i] EXCEPT !.status = "EXPIRED"]))
    BY <1>1, <1>6, Tables
  <2> QED
    BY <2>1 DEF RowMoves, SameWindow, Reservation, Booked
<1>8. \A i \in Ids : rows'[i].status = "BOOKED" => ~Overlap(rows'[i], rows'[n])
  <2> SUFFICES ASSUME NEW i \in Ids, rows'[i].status = "BOOKED"
               PROVE  ~(e[i].start < w[2] /\ w[1] < e[i].end)
    BY <1>5, <1>6 DEF Overlap
  <2>1. e[i] \in Reservation /\ e[i].status = "BOOKED"
    BY <1>1, <1>6, Tables
  <2>2. e[i].end \in Int
    BY <2>1 DEF Reservation
  <2> QED
    BY <1>1, <1>2, <1>3, <2>1, <2>2 DEF SlotFree
<1>9. Upcoming(e, u) = Upcoming(rows, u) \cap {i \in Ids : rows'[i].status = "BOOKED"}
  <2>1. \A i \in Ids : /\ e[i].user = rows[i].user /\ e[i].end = rows[i].end
                       /\ rows'[i].status = e[i].status
                       /\ e[i].status = "BOOKED" => rows[i].status = "BOOKED"
    BY <1>1, <1>6, <1>7 DEF RowMoves, SameWindow, Booked
  <2> QED
    BY <1>1, <2>1 DEF Upcoming, Ids
<1> QED
  BY <1>2, <1>5, <1>6, <1>7, <1>8, <1>9 DEF Creates

\* What a step may do to a session.
SessionMoves(s) ==
    /\ sessions'[s].user = sessions[s].user /\ sessions'[s].gated = sessions[s].gated
    /\ sessions'[s].shared = sessions[s].shared /\ sessions'[s].after = sessions[s].after
    /\ sessions'[s].status = "ACTIVE" => sessions[s].status = "ACTIVE"
    /\ sessions'[s].status = "CANCELLED" =>
           \/ sessions[s].status = "CANCELLED"
           \/ \E u \in Users : PublishFails(u) /\ s = start[u].session

SessionsMove ==
    /\ sessions' \in Seq(ChargingSession)
    /\ \A s \in DOMAIN sessions : SessionMoves(s)
    /\ \/ DOMAIN sessions' = DOMAIN sessions
       \/ \E u \in Users : StartCommit(u)

LEMMA SessionEnds ==
    ASSUME Shape, NEW s \in DOMAIN sessions, NEW st \in {"COMPLETED", "CANCELLED"},
           sessions' = [sessions EXCEPT ![s].status = st],
           st = "CANCELLED" => \E u \in Users : PublishFails(u) /\ s = start[u].session
    PROVE  SessionsMove /\ DOMAIN sessions' = DOMAIN sessions /\ sessions'[s].status = st
<1> DEFINE new == [sessions[s] EXCEPT !.status = st]
<1>1. sessions \in Seq(ChargingSession) /\ sessions[s] \in ChargingSession
      /\ s \in 1 .. Len(sessions)
  BY Tables DEF Shape
<1>2. /\ new \in ChargingSession /\ new.user = sessions[s].user /\ new.gated = sessions[s].gated
      /\ new.shared = sessions[s].shared /\ new.after = sessions[s].after /\ new.status = st
  BY <1>1 DEF ChargingSession
<1>3. sessions' = [sessions EXCEPT ![s] = new]
  OBVIOUS
<1> HIDE DEF new
<1>4. sessions' \in Seq(ChargingSession) /\ DOMAIN sessions' = DOMAIN sessions
  BY <1>1, <1>2, <1>3, ExceptSeq
<1>5. sessions'[s] = new /\ \A o \in DOMAIN sessions : o # s => sessions'[o] = sessions[o]
  BY <1>1, <1>3
<1>6. \A o \in DOMAIN sessions : SessionMoves(o)
  BY <1>2, <1>5 DEF SessionMoves
<1> QED
  BY <1>2, <1>4, <1>5, <1>6 DEF SessionsMove

LEMMA SessionBegins ==
    ASSUME Shape, NEW u \in Users, StartCommit(u)
    PROVE  /\ SessionsMove /\ DOMAIN sessions' = DOMAIN sessions \cup {Len(sessions) + 1}
           /\ Len(sessions) + 1 \notin DOMAIN sessions /\ Len(sessions) + 1 \in Nat \ {0}
           /\ \A s \in DOMAIN sessions : sessions'[s] = sessions[s]
           /\ sessions'[Len(sessions) + 1].user = u
           /\ sessions'[Len(sessions) + 1].status = "ACTIVE"
           /\ sessions'[Len(sessions) + 1].gated = start[u].read
           /\ sessions'[Len(sessions) + 1].shared = (ActiveSessions # {})
           /\ \A i \in Ids : rows[i].stamped => i \in sessions'[Len(sessions) + 1].after
<1> DEFINE claimed == {i \in Ids : rows[i].stamped}
<1>1. /\ NewSession(u).user = u /\ NewSession(u).status = "ACTIVE"
      /\ NewSession(u).gated = start[u].read /\ NewSession(u).shared = (ActiveSessions # {})
      /\ NewSession(u).after = claimed
  BY Zenon DEF NewSession
<1>2. NewSession(u) \in ChargingSession
  <2> DEFINE b == ActiveSessions # {}
  <2>1. start[u].read \in Nat /\ b \in BOOLEAN
    BY DEF Shape, StartState
  <2>2. NewSession(u) = [user |-> u, status |-> "ACTIVE", gated |-> start[u].read, shared |-> b,
                         after |-> claimed]
    BY DEF NewSession
  <2>3. claimed \in SUBSET Nat
    BY Tables
  <2> HIDE DEF b, claimed
  <2> QED
    BY <2>1, <2>2, <2>3 DEF ChargingSession
<1>3. sessions' = Append(sessions, NewSession(u))
  BY DEF StartCommit
<1>4. sessions \in Seq(ChargingSession) /\ Len(sessions) \in Nat
      /\ DOMAIN sessions = 1 .. Len(sessions)
  BY Tables DEF Shape
<1> HIDE DEF NewSession
<1>5. /\ sessions' \in Seq(ChargingSession)
      /\ DOMAIN sessions' = DOMAIN sessions \cup {Len(sessions) + 1}
      /\ Len(sessions) + 1 \notin DOMAIN sessions /\ Len(sessions) + 1 \in Nat \ {0}
      /\ \A s \in DOMAIN sessions : sessions'[s] = sessions[s]
      /\ sessions'[Len(sessions) + 1] = NewSession(u)
  BY <1>2, <1>3, <1>4, AppendProperties
<1>6. \A i \in Ids : rows[i].stamped => i \in claimed
  OBVIOUS
<1> HIDE DEF claimed
<1> QED
  BY <1>1, <1>5, <1>6 DEF SessionsMove, SessionMoves

LEMMA SessionsStay == ASSUME Shape, UNCHANGED sessions PROVE SessionsMove
BY DEF SessionsMove, SessionMoves, Shape
-----------------------------------------------------------------------------
(* The kinds of steps *)

\* Steps that leave the starts and the sweep's row alone.
LEMMA RowKinds ==
    ASSUME Shape, Links, Nudges, [Next]_vars
    PROVE  RowsMove \/ \E u \in Users : Creates(u)
<1>1. ASSUME NEW S, ShowRows(S) PROVE RowsMove
  BY <1>1, ExpiryMoves DEF ShowRows
<1>2. ASSUME NEW u \in Users, StartCommit(u) \/ PublishFails(u) PROVE RowsMove
  BY <1>2, CommitRows, UndoRows
<1>3. ASSUME UNCHANGED rows PROVE RowsMove
  BY <1>3, RowsStay
<1>4. ASSUME NEW i \in Ids, SweepSkip(i) \/ SweepClaim(i) \/ CancelReservation(i) PROVE RowsMove
  BY <1>3, <1>4, ClaimMoves, CancelMoves DEF SweepSkip
<1>5. ASSUME NEW u \in Users, StartRefused(u) \/ PublishSucceeds(u)
                              \/ \E queued \in BOOLEAN : StartGate(u, queued)
      PROVE  RowsMove
  BY <1>3, <1>5 DEF StartRefused, PublishSucceeds, StartGate
<1>6. ASSUME \/ Tick \/ Restart \/ SweepScan \/ SweepStop \/ SweepStopFails \/ MaintenanceEnter
             \/ MaintenanceClear \/ UNCHANGED vars \/ \E s \in DOMAIN sessions : StopSession(s)
      PROVE  RowsMove
  BY <1>3, <1>6 DEF Tick, Restart, SweepScan, SweepStop, SweepStopFails, MaintenanceEnter,
     MaintenanceClear, vars, StopSession
<1> QED
  BY <1>1, <1>2, <1>4, <1>5, <1>6, NudgeMoves, CreateFacts
     DEF Next, MyReservations, PlugReservations, CpoListReservations, PlugListing

LEMMA SessionKinds ==
    ASSUME Shape, Links, [Next]_vars
    PROVE  SessionsMove
<1>1. ASSUME NEW s \in DOMAIN sessions, StopSession(s) PROVE SessionsMove
  BY <1>1, SessionEnds DEF StopSession
<1>2. ASSUME NEW u \in Users, PublishFails(u) PROVE SessionsMove
  <2>1. start[u].session \in DOMAIN sessions
    BY <1>2 DEF PublishFails, Links, StartLinked
  <2> QED
    BY <1>2, <2>1, SessionEnds DEF PublishFails
<1>3. ASSUME SweepStop PROVE SessionsMove
  <2>1. CASE UNCHANGED sessions
    BY <2>1, SessionsStay
  <2>2. CASE sweep.victim \in ActiveSessions
             /\ sessions' = [sessions EXCEPT ![sweep.victim].status = "COMPLETED"]
    BY <2>2, SessionEnds DEF ActiveSessions
  <2> QED
    BY <1>3, <2>1, <2>2 DEF SweepStop
<1>4. ASSUME UNCHANGED sessions PROVE SessionsMove
  BY <1>4, SessionsStay
<1>5. ASSUME NEW u \in Users, StartRefused(u) \/ PublishSucceeds(u)
                 \/ (\E queued \in BOOLEAN : StartGate(u, queued))
                 \/ (\E w \in Windows : CreateReservation(u, w[1], w[2]))
      PROVE  SessionsMove
  BY <1>4, <1>5 DEF StartRefused, PublishSucceeds, StartGate, CreateReservation
<1>6. ASSUME NEW i \in Ids, SweepSkip(i) \/ SweepClaim(i) \/ CancelReservation(i)
      PROVE  SessionsMove
  BY <1>4, <1>6 DEF SweepSkip, SweepClaim, CancelReservation
<1>7. ASSUME \/ Tick \/ Restart \/ SweepScan \/ SweepNudge \/ SweepStopFails
             \/ MaintenanceEnter \/ MaintenanceClear \/ UNCHANGED vars \/ \E S : ShowRows(S)
      PROVE  SessionsMove
  BY <1>4, <1>7 DEF Tick, Restart, SweepScan, SweepNudge, SweepStopFails, MaintenanceEnter,
     MaintenanceClear, vars, ShowRows
<1> QED
  BY <1>1, <1>2, <1>3, <1>5, <1>6, <1>7, SessionBegins
     DEF Next, MyReservations, PlugReservations, CpoListReservations, PlugListing

\* How the starts in flight move.
StartsMove ==
    \/ UNCHANGED start
    \/ start' = [u \in Users |-> NoStart]
    \/ \E u \in Users :
         /\ \A v \in Users : v # u => start'[v] = start[v]
         /\ \/ start'[u] = NoStart
            \/ StartGate(u, TRUE) \/ StartGate(u, FALSE) \/ StartCommit(u)

LEMMA StartKinds ==
    ASSUME Shape, Links, [Next]_vars
    PROVE  start' \in [Users -> StartState] /\ StartsMove
<1>1. NoStart \in StartState
  BY DEF NoStart, StartState
<1>2. ASSUME UNCHANGED start PROVE start' \in [Users -> StartState] /\ StartsMove
  BY <1>2 DEF Shape, StartsMove
<1>3. ASSUME NEW u \in Users, start' = [start EXCEPT ![u] = NoStart]
      PROVE  start' \in [Users -> StartState] /\ StartsMove
  BY <1>1, <1>3 DEF Shape, StartsMove
<1>4. ASSUME NEW u \in Users, NEW queued \in BOOLEAN, StartGate(u, queued)
      PROVE  start' \in [Users -> StartState] /\ StartsMove
  <2>1. PICK c : /\ c \in (IF CoveringAt(Expire(rows, Ids, now), now) = {} THEN {0}
                           ELSE CoveringAt(Expire(rows, Ids, now), now))
                 /\ start' = [start EXCEPT ![u] = PastGate(IF queued THEN 0 ELSE c)]
    BY <1>4 DEF StartGate
  <2> DEFINE d == IF queued THEN 0 ELSE c
             new == PastGate(d)
  <2>2. start' = [start EXCEPT ![u] = new]
    BY <2>1
  <2>3. d \in Nat
    <3>1. CoveringAt(Expire(rows, Ids, now), now) \subseteq Nat
      BY ExpireFacts, Tables DEF CoveringAt
    <3> QED
      BY <2>1, <3>1
  <2> HIDE DEF d
  <2>4. new \in StartState
    BY <2>3, ReservationsAssumption DEF PastGate, StartState, Shape
  <2> HIDE DEF new
  <2> QED
    BY <1>4, <2>2, <2>4 DEF Shape, StartsMove
<1>5. ASSUME NEW u \in Users, StartCommit(u)
      PROVE  start' \in [Users -> StartState] /\ StartsMove
  <2>1. start' = [start EXCEPT ![u].at = "publishing", ![u].read = 0,
                               ![u].session = Len(sessions) + 1]
        /\ Len(sessions) + 1 \in Nat
    BY <1>5, Tables DEF StartCommit
  <2>2. start[u] \in StartState
    BY DEF Shape
  <2> DEFINE new == [start[u] EXCEPT !.at = "publishing", !.read = 0, !.session = Len(sessions) + 1]
  <2>3. start' = [start EXCEPT ![u] = new]
    BY <2>1
  <2>4. new \in StartState
    BY <2>1, <2>2 DEF StartState
  <2> HIDE DEF new
  <2> QED
    BY <1>5, <2>3, <2>4 DEF Shape, StartsMove
<1>6. CASE Restart
  BY <1>1, <1>6 DEF Restart, StartsMove
<1>7. ASSUME NEW u \in Users, StartRefused(u) \/ PublishSucceeds(u) \/ PublishFails(u)
      PROVE  start' \in [Users -> StartState] /\ StartsMove
  BY <1>3, <1>7 DEF StartRefused, PublishSucceeds, PublishFails
<1>8. ASSUME NEW i \in Ids, SweepSkip(i) \/ SweepClaim(i) \/ CancelReservation(i)
      PROVE  UNCHANGED start
  BY <1>8 DEF SweepSkip, SweepClaim, CancelReservation
<1>9. ASSUME \/ Tick \/ SweepScan \/ SweepStop \/ SweepNudge \/ SweepStopFails
             \/ MaintenanceEnter \/ MaintenanceClear \/ UNCHANGED vars \/ (\E S : ShowRows(S))
             \/ (\E s \in DOMAIN sessions : StopSession(s))
             \/ (\E u \in Users, w \in Windows : CreateReservation(u, w[1], w[2]))
      PROVE  UNCHANGED start
  BY <1>9 DEF Tick, SweepScan, SweepStop, SweepNudge, SweepStopFails, MaintenanceEnter,
     MaintenanceClear, vars, ShowRows, StopSession, CreateReservation
<1> QED
  BY <1>2, <1>4, <1>5, <1>6, <1>7, <1>8, <1>9
     DEF Next, MyReservations, PlugReservations, CpoListReservations, PlugListing

\* How the sweep moves.
SweepMoves ==
    \/ UNCHANGED sweep
    \/ sweep'.at \in {"idle", "scanned"}
    \/ SweepStop \/ SweepStopFails
    \/ \E i \in Ids : SweepClaim(i)

LEMMA SweepKinds ==
    ASSUME Shape, [Next]_vars
    PROVE  sweep' \in SweepState /\ SweepMoves
<1>1. NoSweep \in SweepState /\ NoSweep.at = "idle"
  BY DEF NoSweep, SweepState
<1>2. ASSUME UNCHANGED sweep PROVE sweep' \in SweepState /\ SweepMoves
  BY <1>2 DEF Shape, SweepMoves
<1>3. CASE SweepScan
  <2> DEFINE C == {i \in Ids : Opened(i, now)}
             new == [at |-> "scanned", todo |-> C, row |-> 0, victim |-> 0]
  <2>1. sweep' = new
    BY <1>3 DEF SweepScan, NoSweep
  <2>2. C \in SUBSET Nat
    BY Tables
  <2> HIDE DEF C
  <2>3. new \in SweepState /\ new.at = "scanned"
    BY <2>2 DEF SweepState
  <2> QED
    BY <2>1, <2>3 DEF SweepMoves
<1>4. ASSUME NEW i \in Ids, SweepSkip(i) PROVE sweep' \in SweepState /\ SweepMoves
  BY <1>1, <1>4 DEF SweepSkip, SweepState, SweepMoves, Shape
<1>5. ASSUME NEW i \in Ids, SweepClaim(i) PROVE sweep' \in SweepState /\ SweepMoves
  <2>1. PICK v \in Overruns(i) : sweep' = [sweep EXCEPT !.at = "stopping", !.todo = @ \ {i},
                                                       !.row = i, !.victim = v]
    BY <1>5 DEF SweepClaim
  <2>2. v \in Nat /\ i \in Nat
    BY Tables DEF Overruns, ActiveSessions
  <2>3. sweep' \in SweepState
    BY <2>1, <2>2 DEF SweepState, Shape
  <2> QED
    BY <1>5, <2>3 DEF SweepMoves
<1>6. CASE SweepStop \/ SweepStopFails
  BY <1>6 DEF SweepStop, SweepStopFails, SweepState, SweepMoves, Shape
<1>7. CASE SweepNudge
  <2>1. sweep' = NoSweep \/ sweep' = [sweep EXCEPT !.at = "scanned", !.row = 0, !.victim = 0]
    BY <1>7 DEF SweepNudge
  <2>2. sweep \in SweepState
    BY DEF Shape
  <2> DEFINE new == [sweep EXCEPT !.at = "scanned", !.row = 0, !.victim = 0]
  <2>3. new \in SweepState /\ new.at = "scanned"
    BY <2>2 DEF SweepState
  <2> HIDE DEF new
  <2>4. sweep' \in SweepState /\ sweep'.at \in {"idle", "scanned"}
    BY <1>1, <2>1, <2>3 DEF new
  <2> QED
    BY <2>4 DEF SweepMoves
<1>8. CASE Restart
  BY <1>1, <1>8 DEF Restart, SweepMoves
<1>9. ASSUME NEW u \in Users, StartRefused(u) \/ PublishSucceeds(u) \/ PublishFails(u)
                 \/ StartCommit(u) \/ (\E queued \in BOOLEAN : StartGate(u, queued))
                 \/ (\E w \in Windows : CreateReservation(u, w[1], w[2]))
      PROVE  UNCHANGED sweep
  BY <1>9 DEF StartRefused, PublishSucceeds, PublishFails, StartCommit, StartGate,
     CreateReservation
<1>10. ASSUME \/ Tick \/ MaintenanceEnter \/ MaintenanceClear \/ UNCHANGED vars
              \/ (\E S : ShowRows(S)) \/ (\E s \in DOMAIN sessions : StopSession(s))
              \/ (\E i \in Ids : CancelReservation(i))
       PROVE  UNCHANGED sweep
  BY <1>10 DEF Tick, MaintenanceEnter, MaintenanceClear, vars, ShowRows, StopSession,
     CancelReservation
<1> QED
  BY <1>2, <1>3, <1>4, <1>5, <1>6, <1>7, <1>8, <1>9, <1>10
     DEF Next, MyReservations, PlugReservations, CpoListReservations, PlugListing

LEMMA ShapeStep ==
    ASSUME Shape, Links, Nudges, [Next]_vars
    PROVE  Shape'
<1>1. /\ now' \in 0 .. MaxNow /\ faults' \in 0 .. MaxFaults
      /\ plug' \in {"AVAILABLE", "OCCUPIED", "MAINTENANCE"}
  <2>1. ASSUME NEW u \in Users, StartRefused(u) \/ PublishSucceeds(u) \/ PublishFails(u)
                 \/ StartCommit(u) \/ (\E queued \in BOOLEAN : StartGate(u, queued))
                 \/ (\E w \in Windows : CreateReservation(u, w[1], w[2]))
        PROVE  UNCHANGED <<now, faults>> /\ plug' \in {plug, "AVAILABLE", "OCCUPIED"}
    BY <2>1 DEF StartRefused, PublishSucceeds, PublishFails, StartCommit, StartGate,
       CreateReservation
  <2>2. ASSUME \/ Tick \/ MaintenanceEnter \/ MaintenanceClear \/ UNCHANGED vars
               \/ (\E S : ShowRows(S)) \/ (\E s \in DOMAIN sessions : StopSession(s))
               \/ Restart \/ SweepScan \/ SweepStop \/ SweepStopFails \/ SweepNudge
               \/ (\E i \in Ids : CancelReservation(i) \/ SweepSkip(i) \/ SweepClaim(i))
        PROVE  /\ now' = now \/ (now < MaxNow /\ now' = now + 1)
               /\ faults' = faults \/ (faults < MaxFaults /\ faults' = faults + 1)
               /\ plug' \in {plug, "AVAILABLE", "OCCUPIED", "MAINTENANCE"}
    BY <2>2 DEF Tick, MaintenanceEnter, MaintenanceClear, vars, ShowRows, StopSession,
       CancelReservation, Restart, SweepScan, SweepStop, SweepStopFails, SweepNudge, SweepSkip,
       SweepClaim
  <2>3. /\ now' = now \/ (now < MaxNow /\ now' = now + 1)
        /\ faults' = faults \/ (faults < MaxFaults /\ faults' = faults + 1)
        /\ plug' \in {plug, "AVAILABLE", "OCCUPIED", "MAINTENANCE"}
    BY <2>1, <2>2
       DEF Next, MyReservations, PlugReservations, CpoListReservations, PlugListing
  <2> QED
    BY <2>3, ReservationsAssumption DEF Shape
<1>2. rows' \in Seq(Reservation)
  BY RowKinds DEF RowsMove, Creates
<1> QED
  BY <1>1, <1>2, SessionKinds, StartKinds, SweepKinds DEF Shape, SessionsMove
-----------------------------------------------------------------------------
(* Bookings *)

\* Ids of a table that moved.
LEMMA IdsMove ==
    ASSUME Shape
    PROVE  /\ RowsMove => Ids' = Ids
           /\ \A u : Creates(u) => /\ Ids' = Ids \cup {Len(rows) + 1}
                                   /\ Len(rows) + 1 \notin Ids
<1>1. Ids = 1 .. Len(rows) /\ Len(rows) \in Nat
  BY Tables
<1>2. rows' \in Seq(Reservation) => Ids' = 1 .. Len(rows')
  BY LenProperties DEF Ids
<1> QED
  BY <1>1, <1>2 DEF RowsMove, Creates

\* Every row of the table a step leaves: moved, or just created.
LEMMA RowsAfter ==
    ASSUME Shape, Links, Nudges, [Next]_vars
    PROVE  /\ Ids \subseteq Ids' /\ \A i \in Ids : RowMoves(i)
           /\ \A i \in Ids' : i \notin Ids =>
                /\ rows'[i].session = 0 /\ rows'[i].status = "BOOKED" /\ rows'[i].nudges = 0
                /\ ~rows'[i].ready /\ ~rows'[i].stamped /\ ~rows'[i].restored
                /\ ~PlugLocked /\ UNCHANGED <<now, sessions, plug, start, sweep, faults>>
<1>1. CASE RowsMove
  <2>1. Ids' = Ids
    BY <1>1, IdsMove
  <2> QED
    BY <1>1, <2>1 DEF RowsMove
<1>2. ASSUME NEW u \in Users, Creates(u)
      PROVE  /\ Ids \subseteq Ids' /\ \A i \in Ids : RowMoves(i)
             /\ \A i \in Ids' : i \notin Ids =>
                  /\ rows'[i].session = 0 /\ rows'[i].status = "BOOKED" /\ rows'[i].nudges = 0
                  /\ ~rows'[i].ready /\ ~rows'[i].stamped /\ ~rows'[i].restored
                  /\ ~PlugLocked /\ UNCHANGED <<now, sessions, plug, start, sweep, faults>>
  <2>1. Ids' = Ids \cup {Len(rows) + 1}
    BY <1>2, IdsMove
  <2> QED
    BY <1>2, <2>1 DEF Creates
<1> QED
  BY <1>1, <1>2, RowKinds

LEMMA DoubleBookingStep ==
    ASSUME Shape, NoDoubleBooking, RowsMove \/ \E u \in Users : Creates(u)
    PROVE  NoDoubleBooking'
<1> SUFFICES ASSUME NEW i \in Ids', NEW j \in Ids', i # j, Booked(i)', Booked(j)',
                    Overlap(rows'[i], rows'[j])
             PROVE  rows'[i].restored \/ rows'[j].restored
  BY DEF NoDoubleBooking
<1>1. ASSUME i \in Ids, j \in Ids, RowMoves(i), RowMoves(j)
      PROVE  rows'[i].restored \/ rows'[j].restored
  BY <1>1 DEF NoDoubleBooking, RowMoves, SameWindow, Overlap, Booked
<1>2. CASE RowsMove
  BY <1>1, <1>2, IdsMove DEF RowsMove
<1>3. ASSUME NEW u \in Users, Creates(u) PROVE rows'[i].restored \/ rows'[j].restored
  <2>1. Ids' = Ids \cup {Len(rows) + 1} /\ \A k \in Ids : RowMoves(k)
    BY <1>3, IdsMove DEF Creates
  <2>2. \A k \in Ids : rows'[k].status = "BOOKED" =>
            ~Overlap(rows'[k], rows'[Len(rows) + 1])
    BY <1>3 DEF Creates
  <2> QED
    BY <1>1, <2>1, <2>2 DEF Booked, Overlap
<1> QED
  BY <1>2, <1>3

LEMMA CapStep ==
    ASSUME Shape, CapHolds, now' >= now, now' \in Int, RowsMove \/ \E u \in Users : Creates(u)
    PROVE  CapHolds'
<1> SUFFICES ASSUME NEW u \in Users
             PROVE  Cardinality({i \in Upcoming(rows, u) : ~rows[i].restored})' <= MaxUpcoming
  BY DEF CapHolds
<1> DEFINE old == {i \in Upcoming(rows, u) : ~rows[i].restored}
           new == {i \in Upcoming(rows, u) : ~rows[i].restored}'
<1>1. old \in SUBSET Ids /\ Cardinality(old) <= MaxUpcoming
  BY DEF Upcoming, Ids, CapHolds
<1>2. IsFiniteSet(old) /\ Cardinality(old) \in Nat /\ MaxUpcoming \in Nat
  BY <1>1, RowsFinite, ReservationsAssumption
<1>3. ASSUME NEW i \in Ids, RowMoves(i), i \in new PROVE i \in old
  <2>1. /\ rows'[i].user = u /\ rows'[i].status = "BOOKED" /\ rows'[i].end > now'
        /\ ~rows'[i].restored
    BY <1>3 DEF Upcoming
  <2>2. rows[i].end \in Int /\ now \in Int
    BY Tables, ReservationsAssumption DEF Reservation, Shape
  <2>3. /\ rows[i].user = u /\ rows'[i].end = rows[i].end /\ rows[i].status = "BOOKED"
        /\ ~rows[i].restored
    BY <1>3, <2>1 DEF RowMoves, SameWindow, Booked
  <2>4. rows[i].end > now
    BY <2>1, <2>2, <2>3
  <2> QED
    BY <2>3, <2>4 DEF Upcoming, Ids
<1>4. ASSUME new \subseteq old PROVE Cardinality(new) <= MaxUpcoming
  <2> HIDE DEF old, new
  <2> QED
    BY <1>1, <1>2, <1>4, FS_Subset, FS_CardinalityType
<1>5. new \subseteq Ids'
  BY DEF Upcoming, Ids
<1>6. CASE RowsMove
  BY <1>3, <1>4, <1>5, <1>6, IdsMove DEF RowsMove
<1>7. ASSUME NEW v \in Users, Creates(v) PROVE Cardinality(new) <= MaxUpcoming
  <2>1. Ids' = Ids \cup {Len(rows) + 1} /\ \A k \in Ids : RowMoves(k)
    BY <1>7, IdsMove DEF Creates
  <2>2. CASE v # u
    <3>1. Len(rows) + 1 \notin new
      BY <1>7, <2>2 DEF Creates, Upcoming
    <3> QED
      BY <1>3, <1>4, <1>5, <2>1, <3>1
  <2>3. CASE v = u
    <3> DEFINE held == Upcoming(rows, u) \cap {i \in Ids : rows'[i].status = "BOOKED"}
    <3>1. held \in SUBSET Ids /\ Cardinality(held) < MaxUpcoming
      BY <1>7, <2>3 DEF Creates
    <3>2. IsFiniteSet(held) /\ Cardinality(held) \in Nat
      BY <3>1, RowsFinite
    <3>3. new \subseteq held \cup {Len(rows) + 1}
      <4> SUFFICES ASSUME NEW i \in new, i \in Ids PROVE i \in held
        BY <1>5, <2>1
      <4>1. i \in old /\ rows'[i].status = "BOOKED"
        BY <1>3, <2>1 DEF Upcoming
      <4> QED
        BY <4>1
    <3> HIDE DEF held, new
    <3>4. /\ IsFiniteSet(held \cup {Len(rows) + 1})
          /\ Cardinality(held \cup {Len(rows) + 1}) <= Cardinality(held) + 1
      <4>1. Len(rows) + 1 \notin held
        BY <3>1, IdsMove, <1>7
      <4>2. /\ IsFiniteSet(held \cup {Len(rows) + 1})
            /\ Cardinality(held \cup {Len(rows) + 1}) = Cardinality(held) + 1
        BY <3>2, <4>1, FS_AddElement
      <4> QED
        BY <3>2, <4>2
    <3>5. /\ Cardinality(new) <= Cardinality(held \cup {Len(rows) + 1})
          /\ Cardinality(new) \in Nat /\ Cardinality(held \cup {Len(rows) + 1}) \in Nat
      BY <3>3, <3>4, FS_Subset, FS_CardinalityType
    <3> QED
      BY <1>2, <3>1, <3>2, <3>4, <3>5
  <2> QED
    BY <2>2, <2>3
<1> QED
  BY <1>6, <1>7
-----------------------------------------------------------------------------
(* Starts and their bookings *)

\* A step that neither passes the gate, commits a start nor undoes one.
Quiet ==
    /\ \A u \in Users : start'[u] = start[u] \/ start'[u] = NoStart
    /\ \A s \in DOMAIN sessions :
         /\ s \in DOMAIN sessions' /\ sessions'[s].user = sessions[s].user
         /\ sessions'[s].gated = sessions[s].gated
         /\ sessions'[s].status = "CANCELLED" => sessions[s].status = "CANCELLED"
    /\ Ids \subseteq Ids'
    /\ \A i \in Ids : /\ SameWindow(rows'[i], rows[i]) /\ rows'[i].session = rows[i].session
                      /\ \/ rows'[i].status = rows[i].status
                         \/ Booked(i) /\ rows'[i].status \in {"CANCELLED", "EXPIRED"}
    /\ \A i \in Ids' : i \notin Ids => rows'[i].session = 0 /\ rows'[i].status = "BOOKED"

LEMMA QuietLinks == ASSUME Shape, Links, Quiet PROVE Links'
<1>1. ASSUME NEW u \in Users, NEW v \in Users, (start[u].at = "gated")', (start[v].at = "gated")'
      PROVE  u = v
  <2>1. start'[u] = start[u] /\ start'[v] = start[v]
    BY <1>1 DEF Quiet, NoStart
  <2> QED
    BY <1>1, <2>1 DEF Links
<1>2. ASSUME NEW u \in Users PROVE StartLinked(u)'
  <2>1. CASE start'[u] = NoStart
    BY <2>1 DEF StartLinked, NoStart
  <2>2. CASE start'[u] = start[u]
    <3>1. StartLinked(u) /\ 0 \notin DOMAIN sessions
      BY Tables DEF Links
    <3>2. start[u].cover # 0 =>
            /\ start[u].cover \in Ids' /\ rows'[start[u].cover].user = u
            /\ start[u].at = "gated" => Covers(rows'[start[u].cover], start[u].read)
            /\ start[u].at = "publishing" =>
                 /\ rows'[start[u].cover].status = "FULFILLED"
                 /\ rows'[start[u].cover].session = start[u].session
      BY <3>1 DEF StartLinked, Quiet, SameWindow, Covers, Booked
    <3>3. start[u].at = "publishing" =>
            /\ start[u].session \in DOMAIN sessions' /\ sessions'[start[u].session].user = u
            /\ \A i \in Ids' : rows'[i].session = start[u].session => i = start[u].cover
      BY <3>1 DEF StartLinked, Quiet
    <3> QED
      BY <2>2, <3>1, <3>2, <3>3 DEF StartLinked
  <2> QED
    BY <2>1, <2>2 DEF Quiet
<1>3. ASSUME NEW i \in Ids' PROVE RowLinked(i)'
  <2>1. CASE i \notin Ids
    BY <2>1 DEF Quiet, RowLinked
  <2>2. CASE i \in Ids
    <3>1. RowLinked(i)
      BY <2>2 DEF Links
    <3>2. /\ SameWindow(rows'[i], rows[i]) /\ rows'[i].session = rows[i].session
          /\ rows'[i].status = "FULFILLED" <=> rows[i].status = "FULFILLED"
      BY <2>2 DEF Quiet, Booked
    <3>3. rows[i].session # 0 =>
            /\ rows[i].session \in DOMAIN sessions'
            /\ sessions'[rows[i].session].user = rows'[i].user
            /\ Covers(rows'[i], sessions'[rows[i].session].gated)
            /\ sessions'[rows[i].session].status # "CANCELLED"
      BY <3>1, <3>2 DEF RowLinked, Quiet, SameWindow, Covers
    <3>4. \A j \in Ids' : rows[i].session # 0 /\ rows'[j].session = rows[i].session => i = j
      BY <3>1, <3>2 DEF RowLinked, Quiet
    <3> QED
      BY <3>1, <3>2, <3>3, <3>4 DEF RowLinked
  <2> QED
    BY <2>1, <2>2
<1> QED
  BY <1>1, <1>2, <1>3 DEF Links

LEMMA GateLinks ==
    ASSUME Shape, Links, NEW u \in Users, NEW queued \in BOOLEAN, StartGate(u, queued)
    PROVE  Links'
<1> DEFINE e == Expire(rows, Ids, now)
<1>1. UNCHANGED <<rows, sessions>> /\ \A v \in Users : start[v].at # "gated"
  BY DEF StartGate, PlugLocked
<1>2. PICK c \in (IF CoveringAt(e, now) = {} THEN {0} ELSE CoveringAt(e, now)) :
         /\ c # 0 => rows[c].user = u
         /\ start' = [start EXCEPT ![u] = PastGate(IF queued THEN 0 ELSE c)]
  BY DEF StartGate
<1> DEFINE d == IF queued THEN 0 ELSE c
<1>3. d # 0 => d \in Ids /\ rows[d].user = u /\ Covers(rows[d], now)
  <2> SUFFICES ASSUME d # 0, c # 0 PROVE c \in Ids /\ Covers(rows[c], now)
    BY <1>2
  <2>1. c \in CoveringAt(e, now)
    BY <1>2
  <2>2. DOMAIN e = Ids /\ \A i \in Ids : e[i] = rows[i] \/ e[i] = [rows[i] EXCEPT !.status = "EXPIRED"]
    BY ExpireFacts
  <2> HIDE DEF e
  <2>3. c \in Ids /\ Covers(e[c], now) /\ rows[c] \in Reservation
    BY <2>1, <2>2, Tables DEF CoveringAt
  <2> QED
    BY <2>2, <2>3 DEF Covers, Reservation
<1> HIDE DEF d
<1>4. /\ start'[u] = PastGate(d) /\ \A v \in Users : v # u => start'[v] = start[v]
  BY <1>2 DEF Shape, d
<1>5. start'[u].at = "gated" /\ start'[u].read = now /\ start'[u].cover = d
  BY <1>4 DEF PastGate
<1>6. StartLinked(u)'
  BY <1>1, <1>3, <1>5 DEF StartLinked, Ids
<1>7. \A v \in Users : v # u => StartLinked(v)'
  BY <1>1, <1>4 DEF StartLinked, Ids, Links
<1>8. \A i \in Ids' : RowLinked(i)'
  BY <1>1 DEF RowLinked, Ids, Links
<1> QED
  BY <1>1, <1>4, <1>6, <1>7, <1>8 DEF Links

LEMMA CommitStarts ==
    ASSUME Shape, NEW u \in Users, StartCommit(u)
    PROVE  /\ start'[u].at = "publishing" /\ start'[u].cover = start[u].cover
           /\ start'[u].session = Len(sessions) + 1
           /\ \A v \in Users : v # u => start'[v] = start[v]
<1>1. start' = [start EXCEPT ![u].at = "publishing", ![u].read = 0,
                             ![u].session = Len(sessions) + 1]
  BY DEF StartCommit
<1>2. start[u] \in StartState /\ start \in [Users -> StartState]
  BY DEF Shape
<1> QED
  BY <1>1, <1>2 DEF StartState

LEMMA CommitLinks ==
    ASSUME Shape, Links, NEW u \in Users, StartCommit(u)
    PROVE  Links'
<1> DEFINE c == start[u].cover
           n == Len(sessions) + 1
<1>1. /\ DOMAIN sessions' = DOMAIN sessions \cup {n} /\ n \notin DOMAIN sessions
      /\ n # 0 /\ 0 \notin DOMAIN sessions
      /\ \A s \in DOMAIN sessions : sessions'[s] = sessions[s]
      /\ sessions'[n].user = u /\ sessions'[n].status = "ACTIVE"
      /\ sessions'[n].gated = start[u].read
  <2>1. 0 \notin DOMAIN sessions
    BY Tables
  <2> QED
    BY <2>1, SessionBegins, Zenon
<1>2. /\ start'[u].at = "publishing" /\ start'[u].cover = c /\ start'[u].session = n
      /\ \A v \in Users : v # u => start'[v] = start[v]
  BY CommitStarts
<1>3. Ids' = Ids /\ \A i \in Ids : SameWindow(rows'[i], rows[i])
  BY CommitRows, IdsMove DEF RowsMove, RowMoves
<1>4. ASSUME NEW i \in Ids, i # c
      PROVE  /\ rows'[i].session = rows[i].session
             /\ rows'[i].status = "FULFILLED" <=> rows[i].status = "FULFILLED"
  <2>1. rows[i] \in Reservation
    BY Tables
  <2>2. /\ ~Lapsed(rows[i], start[u].read) => rows'[i] = rows[i]
        /\ Lapsed(rows[i], start[u].read) =>
                 rows'[i] = [rows[i] EXCEPT !.status = "EXPIRED"]
    BY <1>4, CommitRows
  <2> QED
    BY <2>1, <2>2 DEF Lapsed, Reservation
<1>5. c # 0 => rows'[c].status = "FULFILLED" /\ rows'[c].session = n
  BY CommitRows
<1>6. StartLinked(u) /\ start[u].at = "gated"
  BY DEF Links, StartCommit
<1> HIDE DEF n
<1>7. \A i \in Ids : RowLinked(i)
  BY DEF Links
<1>8. StartLinked(u)'
  BY <1>1, <1>2, <1>3, <1>4, <1>5, <1>6, <1>7 DEF StartLinked, RowLinked, SameWindow
<1>9. ASSUME NEW v \in Users, v # u PROVE StartLinked(v)'
  <2>1. StartLinked(v) /\ start[v].at # "gated" /\ start'[v] = start[v]
    BY <1>2, <1>6, <1>9 DEF Links
  <2>2. start[v].cover # 0 => /\ start[v].cover \in Ids /\ rows'[start[v].cover].user = v
                              /\ start[v].cover # c
    BY <1>3, <1>6, <1>9, <2>1 DEF StartLinked, SameWindow
  <2>3. start[v].at = "publishing" /\ start[v].cover # 0 =>
           /\ rows'[start[v].cover].status = "FULFILLED"
           /\ rows'[start[v].cover].session = start[v].session
    BY <1>4, <2>1, <2>2 DEF StartLinked
  <2>4. start[v].at = "publishing" =>
            /\ start[v].session \in DOMAIN sessions' /\ sessions'[start[v].session].user = v
            /\ \A i \in Ids : rows'[i].session = start[v].session => i = start[v].cover
    <3>1. c \notin Ids => c = 0
      BY <1>6 DEF StartLinked
    <3>2. start[v].at = "publishing" => start[v].session \in DOMAIN sessions
      BY <2>1 DEF StartLinked
    <3>3. ASSUME NEW i \in Ids, start[v].at = "publishing", rows'[i].session = start[v].session
          PROVE  i = start[v].cover
      BY <1>1, <1>4, <1>5, <2>1, <3>1, <3>2, <3>3, Tables DEF StartLinked
    <3> QED
      BY <1>1, <2>1, <3>2, <3>3 DEF StartLinked
  <2> QED
    BY <1>3, <2>1, <2>2, <2>3, <2>4 DEF StartLinked
<1>10. ASSUME NEW i \in Ids PROVE RowLinked(i)'
  <2>1. CASE i = c
    <3>1. c # 0 /\ rows'[c].user = u /\ Covers(rows'[c], start[u].read)
      BY <1>3, <1>6, <2>1, Tables DEF StartLinked, SameWindow, Covers
    <3> QED
      BY <1>1, <1>3, <1>4, <1>5, <1>7, <2>1, <3>1 DEF RowLinked
  <2>2. CASE i # c
    <3>1. /\ rows'[i].session = rows[i].session
          /\ rows'[i].status = "FULFILLED" <=> rows[i].status = "FULFILLED"
          /\ SameWindow(rows'[i], rows[i])
      BY <1>3, <1>4, <2>2
    <3>2. \A j \in Ids : rows[i].session # 0 /\ rows'[j].session = rows[i].session => i = j
      <4>1. c \in Ids => c # 0
        BY Tables
      <4> QED
        BY <1>1, <1>4, <1>5, <1>7, <4>1 DEF RowLinked
    <3> QED
      BY <1>1, <1>3, <1>7, <3>1, <3>2 DEF RowLinked, SameWindow, Covers
  <2> QED
    BY <2>1, <2>2
<1> QED
  BY <1>2, <1>3, <1>6, <1>8, <1>9, <1>10 DEF Links

LEMMA UndoLinks ==
    ASSUME Shape, Links, NEW u \in Users, PublishFails(u)
    PROVE  Links'
<1> DEFINE c == start[u].cover
           n == start[u].session
<1>1. StartLinked(u) /\ start[u].at = "publishing" /\ n \in DOMAIN sessions
  BY DEF Links, PublishFails, StartLinked
<1>2. /\ start'[u] = NoStart /\ \A v \in Users : v # u => start'[v] = start[v]
  BY DEF PublishFails, Shape
<1>3. /\ DOMAIN sessions' = DOMAIN sessions /\ 0 \notin DOMAIN sessions
      /\ \A s \in DOMAIN sessions : /\ sessions'[s].user = sessions[s].user
                                    /\ sessions'[s].gated = sessions[s].gated
                                    /\ s # n => sessions'[s] = sessions[s]
  <2>1. sessions' = [sessions EXCEPT ![n].status = "CANCELLED"] /\ sessions[n] \in ChargingSession
    BY <1>1, Tables DEF PublishFails
  <2>2. \A s \in DOMAIN sessions : s # n => sessions'[s] = sessions[s]
    BY <2>1
  <2>3. sessions'[n] = [sessions[n] EXCEPT !.status = "CANCELLED"]
    BY <1>1, <2>1
  <2>4. sessions'[n].user = sessions[n].user /\ sessions'[n].gated = sessions[n].gated
    BY <2>1, <2>3 DEF ChargingSession
  <2> QED
    BY <2>1, <2>2, <2>4, Tables
<1>4. Ids' = Ids /\ \A i \in Ids : i # c => rows'[i] = rows[i]
  BY UndoRows, IdsMove
<1>5. c # 0 => c \in Ids /\ rows'[c].status = "BOOKED" /\ rows'[c].session = 0
  BY <1>1, UndoRows DEF StartLinked
<1>6. c \in Ids => c # 0
  BY Tables
<1> HIDE DEF n
<1>7. StartLinked(u)'
  BY <1>2 DEF StartLinked, NoStart
<1>8. ASSUME NEW v \in Users, v # u PROVE StartLinked(v)'
  <2>1. StartLinked(v) /\ start'[v] = start[v]
    BY <1>2, <1>8 DEF Links
  <2>2. start[v].cover # 0 => start[v].cover \in Ids /\ start[v].cover # c
    BY <1>1, <1>8, <2>1 DEF StartLinked
  <2>3. start[v].at = "publishing" =>
          /\ start[v].session \in DOMAIN sessions
          /\ \A i \in Ids : rows'[i].session = start[v].session => i = start[v].cover
    BY <1>3, <1>4, <1>5, <1>6, <2>1 DEF StartLinked
  <2> QED
    BY <1>3, <1>4, <2>1, <2>2, <2>3 DEF StartLinked
<1>9. ASSUME NEW i \in Ids PROVE RowLinked(i)'
  <2>1. CASE i = c
    BY <1>5, <1>6, <2>1 DEF RowLinked
  <2>2. CASE i # c
    <3>1. RowLinked(i) /\ rows'[i] = rows[i] /\ rows[i].session # n
      BY <1>1, <1>4, <2>2 DEF Links, StartLinked, n
    <3>2. \A j \in Ids : rows[i].session # 0 /\ rows'[j].session = rows[i].session => i = j
      BY <1>4, <1>5, <1>6, <3>1 DEF RowLinked
    <3> QED
      BY <1>3, <1>4, <3>1, <3>2 DEF RowLinked
  <2> QED
    BY <2>1, <2>2
<1>10. \A v, w \in Users : (start[v].at = "gated")' /\ (start[w].at = "gated")' => v = w
  BY <1>2 DEF Links, NoStart
<1> QED
  BY <1>4, <1>7, <1>8, <1>9, <1>10 DEF Links

LEMMA LinksStep ==
    ASSUME Shape, Links, Nudges, [Next]_vars
    PROVE  Links'
<1>1. CASE \E u \in Users : StartCommit(u) \/ PublishFails(u)
  BY <1>1, CommitLinks, UndoLinks
<1>2. CASE \E u \in Users, queued \in BOOLEAN : StartGate(u, queued)
  BY <1>2, GateLinks
<1>3. CASE /\ \A u \in Users : ~StartCommit(u) /\ ~PublishFails(u)
           /\ \A u \in Users, queued \in BOOLEAN : ~StartGate(u, queued)
  <2>1. \A u \in Users : start'[u] = start[u] \/ start'[u] = NoStart
    BY <1>3, StartKinds DEF StartsMove
  <2>2. SessionsMove /\ DOMAIN sessions' = DOMAIN sessions
    BY <1>3, SessionKinds DEF SessionsMove
  <2>3. \A i \in Ids : RowMoves(i)
    BY RowsAfter
  <2>4. /\ Ids \subseteq Ids'
        /\ \A i \in Ids' : i \notin Ids => rows'[i].session = 0 /\ rows'[i].status = "BOOKED"
    BY RowsAfter
  <2>5. \A i \in Ids : /\ SameWindow(rows'[i], rows[i]) /\ rows'[i].session = rows[i].session
                       /\ \/ rows'[i].status = rows[i].status
                          \/ Booked(i) /\ rows'[i].status \in {"CANCELLED", "EXPIRED"}
    BY <1>3, <2>3 DEF RowMoves
  <2>6. \A s \in DOMAIN sessions :
          /\ sessions'[s].user = sessions[s].user /\ sessions'[s].gated = sessions[s].gated
          /\ sessions'[s].status = "CANCELLED" => sessions[s].status = "CANCELLED"
    BY <1>3, <2>2 DEF SessionsMove, SessionMoves
  <2>7. Quiet
    BY <2>1, <2>2, <2>4, <2>5, <2>6 DEF Quiet
  <2> QED
    BY <2>7, QuietLinks
<1> QED
  BY <1>1, <1>2, <1>3
-----------------------------------------------------------------------------
(* The sweep *)

\* SweepNudge counts the one nudge of its row.
LEMMA NudgeFacts ==
    ASSUME Shape, Nudges, SweepNudge
    PROVE  /\ rows'[sweep.row].nudges = 1 /\ rows'[sweep.row].stamped
           /\ rows'[sweep.row].ready => sweep.at = "nudging"
           /\ sweep'.at \in {"idle", "scanned"}
<1> DEFINE i == sweep.row
           free == sweep.at = "nudging"
           count == rows[i].nudges + 1
           new == [rows[i] EXCEPT !.nudges = count, !.ready = free]
<1>1. i \in Ids /\ rows' = [rows EXCEPT ![i] = new] /\ free \in BOOLEAN
      /\ rows[i].stamped /\ rows[i].nudges = 0
  BY DEF SweepNudge, Nudges
<1>2. rows[i] \in Reservation /\ count = 1
  BY <1>1, Tables DEF Reservation
<1> HIDE DEF free, count
<1>3. new.nudges = 1 /\ new.stamped /\ new.ready = free
  BY <1>1, <1>2 DEF Reservation
<1> HIDE DEF new
<1>4. rows'[i] = new
  BY <1>1 DEF Ids, Shape
<1>5. sweep'.at \in {"idle", "scanned"}
  BY DEF SweepNudge, NoSweep, Shape, SweepState
<1> QED
  BY <1>3, <1>4, <1>5 DEF free

LEMMA NudgesStep ==
    ASSUME Shape, Links, Nudges, [Next]_vars
    PROVE  Nudges'
<1>1. \A i \in Ids : RowMoves(i)
  BY RowsAfter
<1>2. /\ Ids \subseteq Ids'
      /\ \A i \in Ids' : i \notin Ids =>
            rows'[i].nudges = 0 /\ ~rows'[i].ready /\ ~rows'[i].stamped
  BY RowsAfter
<1>3. \A i \in Ids' : /\ rows'[i].nudges <= 1
                      /\ ~rows'[i].stamped => rows'[i].nudges = 0
                      /\ rows'[i].ready => rows'[i].nudges = 1
  <2> SUFFICES ASSUME NEW i \in Ids, ~(SweepNudge /\ i = sweep.row)
               PROVE  /\ rows'[i].nudges <= 1
                      /\ ~rows'[i].stamped => rows'[i].nudges = 0
                      /\ rows'[i].ready => rows'[i].nudges = 1
    BY <1>2, NudgeFacts
  <2> QED
    BY <1>1 DEF RowMoves, Nudges
<1>4. ASSUME sweep'.at \in {"stopping", "nudging", "unstopped"}
      PROVE  sweep'.row \in Ids /\ rows'[sweep'.row].stamped /\ rows'[sweep'.row].nudges = 0
  <2>1. ~SweepNudge
    BY <1>4, NudgeFacts
  <2>2. ASSUME UNCHANGED sweep \/ SweepStop \/ SweepStopFails
        PROVE  sweep'.row = sweep.row /\ sweep.at \in {"stopping", "nudging", "unstopped"}
    BY <1>4, <2>2 DEF SweepStop, SweepStopFails, Shape, SweepState
  <2>3. CASE UNCHANGED sweep \/ SweepStop \/ SweepStopFails
    BY <1>1, <2>1, <2>2, <2>3 DEF Nudges, RowMoves
  <2>4. ASSUME NEW i \in Ids, SweepClaim(i)
        PROVE  sweep'.row = i /\ rows'[i].stamped /\ rows[i].nudges = 0
    <3>1. rows' = [rows EXCEPT ![i].stamped = TRUE] /\ rows[i] \in Reservation /\ ~rows[i].stamped
      BY <2>4, Tables DEF SweepClaim
    <3>2. rows'[i].stamped
      BY <3>1 DEF Reservation, Ids
    <3>3. sweep'.row = i
      BY <2>4 DEF SweepClaim, Shape, SweepState
    <3> QED
      BY <3>1, <3>2, <3>3 DEF Nudges
  <2> QED
    BY <1>1, <1>4, <2>1, <2>3, <2>4, SweepKinds DEF SweepMoves, RowMoves
<1> QED
  BY <1>2, <1>3, <1>4 DEF Nudges

LEMMA MarkedStep ==
    ASSUME Shape, Links, Marked, [Next]_vars
    PROVE  Marked'
<1>1. SessionsMove
  BY SessionKinds
<1> SUFFICES ASSUME NEW s \in DOMAIN sessions', NEW o \in DOMAIN sessions', s < o,
                    sessions'[s].status = "ACTIVE", sessions'[o].status = "ACTIVE"
             PROVE  sessions'[o].shared
  BY DEF Marked, ActiveSessions
<1>2. CASE s \in DOMAIN sessions /\ o \in DOMAIN sessions
  BY <1>1, <1>2 DEF SessionsMove, SessionMoves, Marked, ActiveSessions
<1>3. ASSUME NEW u \in Users, StartCommit(u), s \notin DOMAIN sessions \/ o \notin DOMAIN sessions
      PROVE  sessions'[o].shared
  <2>1. /\ DOMAIN sessions' = DOMAIN sessions \cup {Len(sessions) + 1}
        /\ DOMAIN sessions = 1 .. Len(sessions) /\ Len(sessions) \in Nat
    BY <1>3, SessionBegins, Tables
  <2>2. o = Len(sessions) + 1 /\ s \in DOMAIN sessions
    BY <1>3, <2>1
  <2>3. s \in ActiveSessions
    BY <1>1, <2>2 DEF SessionsMove, SessionMoves, ActiveSessions
  <2>4. sessions'[o].shared = (ActiveSessions # {})
    BY <1>3, <2>2, SessionBegins
  <2> QED
    BY <2>3, <2>4, Zenon
<1> QED
  BY <1>1, <1>2, <1>3 DEF SessionsMove
-----------------------------------------------------------------------------
(* The open window *)

LEMMA RestoredStays ==
    ASSUME Shape, Links, Nudges, [Next]_vars, Restored
    PROVE  Restored'
<1>1. Ids \subseteq Ids' /\ \A i \in Ids : RowMoves(i)
  BY RowsAfter
<1> QED
  BY <1>1 DEF Restored, RowMoves

\* Past the gate no BOOKED window is open but the user's own, save one the
\* start expires with its commit.
LEMMA GateOpens ==
    ASSUME Shape, NoDoubleBooking, NEW u \in Users, NEW queued \in BOOLEAN, StartGate(u, queued),
           NEW i \in Ids, Booked(i), rows[i].start <= now
    PROVE  rows[i].user = u \/ Lapsed(rows[i], now) \/ Restored
<1> DEFINE e == Expire(rows, Ids, now)
<1> SUFFICES ASSUME ~Lapsed(rows[i], now), ~Restored PROVE rows[i].user = u
  OBVIOUS
<1>1. /\ DOMAIN e = Ids /\ e[i] = rows[i]
      /\ \A j \in Ids : e[j] = rows[j] \/ e[j] = [rows[j] EXCEPT !.status = "EXPIRED"]
  <2>1. /\ DOMAIN e = Ids
        /\ \A j \in Ids :
             /\ ~(j \in Ids /\ Lapsed(rows[j], now)) => e[j] = rows[j]
             /\ j \in Ids /\ Lapsed(rows[j], now) => e[j] = [rows[j] EXCEPT !.status = "EXPIRED"]
    BY ExpireFacts
  <2> QED
    BY <2>1
<1>2. PICK c \in (IF CoveringAt(e, now) = {} THEN {0} ELSE CoveringAt(e, now)) :
         c # 0 => rows[c].user = u
  BY DEF StartGate
<1> HIDE DEF e
<1>3. Covers(rows[i], now)
  <2>1. rows[i].end \in Int /\ now \in Int
    BY Tables, ReservationsAssumption DEF Reservation, Shape
  <2> QED
    BY <2>1 DEF Lapsed, Covers, Booked
<1>4. ASSUME NEW j \in Ids, e[j].status = "BOOKED", Covers(e[j], now) PROVE j = i
  <2>1. e[j] = rows[j] /\ Booked(j)
    BY <1>1, <1>4, Tables DEF Reservation, Booked
  <2>2. /\ rows[i].start \in Int /\ rows[i].end \in Int /\ now \in Int
        /\ rows[j].start \in Int /\ rows[j].end \in Int
    <3>1. rows[i] \in Reservation /\ rows[j] \in Reservation
      BY Tables
    <3>2. now \in Int
      BY ReservationsAssumption DEF Shape
    <3> QED
      BY <3>1, <3>2 DEF Reservation
  <2>3. Overlap(rows[i], rows[j])
    BY <1>3, <1>4, <2>1, <2>2 DEF Overlap, Covers
  <2> QED
    BY <2>1, <2>3 DEF NoDoubleBooking, Restored
<1>5. CoveringAt(e, now) = {i}
  <2>1. rows[i].start <= rows[i].start
    BY Tables DEF Reservation
  <2> QED
    BY <1>1, <1>3, <1>4, <2>1 DEF CoveringAt, Booked
<1>6. c = i /\ i # 0
  BY <1>2, <1>5, Tables
<1> QED
  BY <1>2, <1>6

LEMMA GatedStep ==
    ASSUME Shape, Links, Nudges, NoDoubleBooking, Gated, [Next]_vars
    PROVE  Gated'
<1> SUFFICES ASSUME NEW u \in Users, NEW i \in Ids', start'[u].at = "gated",
                    rows'[i].status = "BOOKED", rows'[i].start <= start'[u].read, ~Restored'
             PROVE  rows'[i].user = u \/ Lapsed(rows'[i], start'[u].read)
  BY DEF Gated, Booked
<1>1. ~Restored
  BY RestoredStays
<1>2. CASE start'[u] = start[u]
  <2>1. i \in Ids
    BY <1>2, RowsAfter DEF PlugLocked
  <2>2. SameWindow(rows'[i], rows[i]) /\ Booked(i)
    <3>1. RowMoves(i) /\ ~rows'[i].restored
      BY <2>1, RowsAfter DEF Restored
    <3> QED
      BY <3>1 DEF RowMoves
  <2> QED
    BY <1>1, <1>2, <2>1, <2>2 DEF Gated, SameWindow, Lapsed, Booked
<1>3. ASSUME NEW queued \in BOOLEAN, StartGate(u, queued)
      PROVE  rows'[i].user = u \/ Lapsed(rows'[i], start'[u].read)
  <2>1. UNCHANGED rows
    BY <1>3 DEF StartGate
  <2>2. start'[u].read = now
    BY <1>3 DEF StartGate, PastGate, Shape
  <2> QED
    BY <1>1, <1>3, <2>1, <2>2, GateOpens DEF Booked, Ids
<1>4. ~StartCommit(u) /\ start'[u] # NoStart
  BY CommitStarts DEF NoStart
<1> QED
  BY <1>2, <1>3, <1>4, StartKinds DEF StartsMove

\* No step brings a stranger into a BOOKED window the sweep has claimed.
LEMMA NoNewStranger ==
    ASSUME Shape, Links, Nudges, Gated, [Next]_vars, ~Restored', NEW i \in Ids,
           rows[i].stamped \/ UNCHANGED sessions,
           rows'[i].status = "BOOKED", NEW s \in DOMAIN sessions', Stranger(i, s)'
    PROVE  s \in DOMAIN sessions /\ Stranger(i, s)
<1>1. RowMoves(i) /\ ~rows'[i].restored /\ Ids \subseteq Ids' /\ ~Restored
  BY RowsAfter, RestoredStays DEF Restored
<1>2. SameWindow(rows'[i], rows[i]) /\ Booked(i)
  BY <1>1 DEF RowMoves
<1>3. SessionsMove
  BY SessionKinds
<1>4. CASE s \in DOMAIN sessions
  <2>1. DOMAIN sessions \subseteq DOMAIN sessions'
    BY <1>3, SessionBegins DEF SessionsMove
  <2>2. \A o \in DOMAIN sessions : o >= s => ~sessions[o].shared
    BY <1>3, <2>1 DEF Stranger, SessionsMove, SessionMoves
  <2>3. SessionMoves(s)
    BY <1>3, <1>4 DEF SessionsMove
  <2> QED
    BY <1>2, <1>4, <2>2, <2>3 DEF Stranger, SessionMoves, SameWindow, ActiveSessions
<1>5. ASSUME NEW u \in Users, StartCommit(u), s \notin DOMAIN sessions PROVE FALSE
  <2>1. s = Len(sessions) + 1
    BY <1>5, SessionBegins
  <2>2. sessions'[s].user = u /\ sessions'[s].gated = start[u].read
    BY <1>5, <2>1, SessionBegins
  <2>4. start[u].read \in Int /\ rows[i].start \in Int /\ rows[i] \in Reservation
    <3>1. rows[i] \in Reservation /\ start[u] \in StartState
      BY Tables DEF Shape
    <3> QED
      BY <3>1 DEF StartState, Reservation
  <2>8. i \in sessions'[s].after
    BY <1>5, <2>1, SessionBegins
  <2>3. u # rows[i].user /\ start[u].read >= rows[i].start
    BY <1>2, <2>2, <2>4, <2>8 DEF Stranger, SameWindow
  <2>5. start[u].at = "gated"
    BY <1>5 DEF StartCommit
  <2>6. Lapsed(rows[i], start[u].read)
    BY <1>1, <1>2, <2>3, <2>4, <2>5 DEF Gated
  <2>7. rows'[i].status # "BOOKED"
    <3>1. CASE i = start[u].cover
      BY <1>5, <3>1, CommitRows, Tables
    <3>2. CASE i # start[u].cover
      <4>1. rows'[i] = [rows[i] EXCEPT !.status = "EXPIRED"]
        BY <1>5, <2>6, <3>2, CommitRows
      <4> QED
        BY <2>4, <4>1 DEF Reservation
    <3> QED
      BY <3>1, <3>2
  <2> QED
    BY <2>7
<1> QED
  BY <1>3, <1>4, <1>5 DEF SessionsMove

\* The sweep's claim of a window finds its stranger: there is one at most.
LEMMA ClaimFindsStranger ==
    ASSUME Shape, Marked, NEW i \in Ids, NEW s \in DOMAIN sessions, Stranger(i, s),
           NEW v \in Overruns(i)
    PROVE  v = s
<1>1. v \in ActiveSessions /\ v \in DOMAIN sessions /\ s \in ActiveSessions
  BY DEF Overruns, Stranger, ActiveSessions
<1>2. v \in Nat /\ s \in Nat
  BY <1>1, Tables
<1>3. ~(s < v)
  BY <1>1, <1>2 DEF Marked, Stranger
<1>4. ~(v < s)
  BY <1>1, <1>2 DEF Marked, Stranger
<1> QED
  BY <1>2, <1>3, <1>4

LEMMA ClearedStep ==
    ASSUME Shape, Links, Nudges, Marked, Gated, ForceStop, Cleared, [Next]_vars
    PROVE  Cleared'
<1> SUFFICES ASSUME NEW i \in Ids', rows'[i].status = "BOOKED", ~Restored'
             PROVE  /\ rows'[i].ready => \A s \in DOMAIN sessions' : ~Stranger(i, s)'
                    /\ sweep'.at = "nudging" /\ sweep'.row = i =>
                           \A s \in DOMAIN sessions' : ~Stranger(i, s)'
                    /\ sweep'.at = "stopping" /\ sweep'.row = i =>
                           \A s \in DOMAIN sessions' : Stranger(i, s)' => s = sweep'.victim
  BY DEF Cleared, Booked
<1>1. CASE i \notin Ids
  <2>1. ~rows'[i].ready /\ UNCHANGED sweep
    BY <1>1, RowsAfter
  <2> QED
    BY <1>1, <2>1 DEF Nudges
<1>2. CASE i \in Ids
  <2>1. RowMoves(i) /\ ~rows'[i].restored /\ ~Restored
    BY <1>2, RowsAfter, RestoredStays DEF Restored
  <2>2. Booked(i)
    BY <2>1 DEF RowMoves
  <2>3. rows[i].stamped \/ UNCHANGED sessions =>
            \A s \in DOMAIN sessions' : Stranger(i, s)' => s \in DOMAIN sessions /\ Stranger(i, s)
    BY <1>2, NoNewStranger
  <2>10. /\ rows[i].ready => rows[i].stamped
         /\ sweep.at \in {"stopping", "nudging"} /\ sweep.row = i => rows[i].stamped
    <3>1. rows[i].ready => rows[i].nudges = 1
      BY <1>2 DEF Nudges
    <3> QED
      BY <1>2, <3>1 DEF Nudges
  <2>4. /\ rows[i].ready => \A s \in DOMAIN sessions : ~Stranger(i, s)
        /\ sweep.at = "nudging" /\ sweep.row = i => \A s \in DOMAIN sessions : ~Stranger(i, s)
        /\ sweep.at = "stopping" /\ sweep.row = i =>
               \A s \in DOMAIN sessions : Stranger(i, s) => s = sweep.victim
    BY <1>2, <2>1, <2>2 DEF Cleared
  <2>5. rows'[i].ready => \A s \in DOMAIN sessions' : ~Stranger(i, s)'
    <3>1. rows'[i].ready => rows[i].ready \/ (sweep.at = "nudging" /\ sweep.row = i)
      BY <2>1, NudgeFacts DEF RowMoves
    <3> QED
      BY <2>3, <2>4, <2>10, <3>1
  <2>6. ASSUME UNCHANGED sweep
        PROVE  /\ sweep'.at = "nudging" /\ sweep'.row = i =>
                      \A s \in DOMAIN sessions' : ~Stranger(i, s)'
               /\ sweep'.at = "stopping" /\ sweep'.row = i =>
                      \A s \in DOMAIN sessions' : Stranger(i, s)' => s = sweep'.victim
    BY <2>3, <2>4, <2>6, <2>10
  <2>7. ASSUME SweepStop, sweep'.row = i, NEW s \in DOMAIN sessions', Stranger(i, s)'
        PROVE  FALSE
    <3>1. sweep.at = "stopping" /\ sweep.row = i
      BY <2>7 DEF SweepStop, Shape, SweepState
    <3>2. s = sweep.victim /\ s \in ActiveSessions
      BY <2>3, <2>4, <2>7, <2>10, <3>1 DEF Stranger
    <3>3. sessions' = [sessions EXCEPT ![s].status = "COMPLETED"]
      BY <2>7, <3>2 DEF SweepStop
    <3>4. sessions'[s].status = "COMPLETED"
      BY <3>2, <3>3, SessionEnds DEF ActiveSessions
    <3> QED
      BY <2>7, <3>4 DEF Stranger, ActiveSessions
  <2>8. ASSUME NEW j \in Ids, SweepClaim(j), sweep'.row = i, NEW s \in DOMAIN sessions',
               Stranger(i, s)'
        PROVE  s = sweep'.victim
    <3>1. PICK v \in Overruns(j) : sweep' = [sweep EXCEPT !.at = "stopping", !.todo = @ \ {j},
                                                         !.row = j, !.victim = v]
      BY <2>8 DEF SweepClaim
    <3>2. sweep'.row = j /\ sweep'.victim = v
      BY <3>1 DEF Shape, SweepState
    <3>4. UNCHANGED sessions
      BY <2>8 DEF SweepClaim
    <3>3. s \in DOMAIN sessions /\ Stranger(i, s) /\ i = j
      BY <2>3, <2>8, <3>2, <3>4
    <3> QED
      BY <1>2, <3>2, <3>3, ClaimFindsStranger
  <2>9. /\ SweepStop \/ SweepStopFails => sweep'.at \in {"nudging", "unstopped"}
        /\ SweepStopFails => sweep'.at = "unstopped"
        /\ \A j \in Ids : SweepClaim(j) => sweep'.at = "stopping"
    BY DEF SweepStop, SweepStopFails, SweepClaim, Shape, SweepState
  <2> QED
    BY <2>5, <2>6, <2>7, <2>8, <2>9, SweepKinds DEF SweepMoves
<1> QED
  BY <1>1, <1>2
-----------------------------------------------------------------------------
(* The theorems *)

LEMMA InitInv == Init => Inv
<1> SUFFICES ASSUME Init PROVE Inv
  OBVIOUS
<1>1. rows = <<>> /\ sessions = <<>> /\ Ids = {} /\ DOMAIN sessions = {}
  BY DEF Init, Ids
<1>2. /\ \A u \in Users : start[u] = NoStart
      /\ start \in [Users -> StartState] /\ sweep \in SweepState /\ sweep.at = "idle"
  BY DEF Init, NoStart, NoSweep, StartState, SweepState
<1>3. rows \in Seq(Reservation) /\ sessions \in Seq(ChargingSession)
  BY <1>1, EmptySeq
<1>4. Shape
  BY <1>2, <1>3, ReservationsAssumption DEF Init, Shape
<1>5. Links
  BY <1>1, <1>2 DEF Links, StartLinked, NoStart
<1>6. Nudges /\ NoDoubleBooking /\ Marked /\ Gated /\ Cleared
  BY <1>1, <1>2 DEF Nudges, NoDoubleBooking, Marked, ActiveSessions, Gated, Cleared
<1>7. CapHolds
  <2> SUFFICES ASSUME NEW u \in Users
               PROVE  Cardinality({i \in Upcoming(rows, u) : ~rows[i].restored}) <= MaxUpcoming
    BY DEF CapHolds
  <2>1. {i \in Upcoming(rows, u) : ~rows[i].restored} = {}
    BY <1>1 DEF Upcoming
  <2> QED
    BY <2>1, FS_EmptySet, ReservationsAssumption
<1> QED
  BY <1>4, <1>5, <1>6, <1>7 DEF Inv

LEMMA ClockMoves == ASSUME Shape, [Next]_vars PROVE now' >= now /\ now' \in Int
<1>1. now \in Int
  BY ReservationsAssumption DEF Shape
<1>2. ASSUME NEW u \in Users, StartRefused(u) \/ PublishSucceeds(u) \/ PublishFails(u)
                 \/ StartCommit(u) \/ (\E queued \in BOOLEAN : StartGate(u, queued))
                 \/ (\E w \in Windows : CreateReservation(u, w[1], w[2]))
      PROVE  UNCHANGED now
  BY <1>2 DEF StartRefused, PublishSucceeds, PublishFails, StartCommit, StartGate,
     CreateReservation
<1>3. ASSUME \/ Tick \/ MaintenanceEnter \/ MaintenanceClear \/ UNCHANGED vars
             \/ (\E S : ShowRows(S)) \/ (\E s \in DOMAIN sessions : StopSession(s))
             \/ Restart \/ SweepScan \/ SweepStop \/ SweepStopFails \/ SweepNudge
             \/ (\E i \in Ids : CancelReservation(i) \/ SweepSkip(i) \/ SweepClaim(i))
      PROVE  now' = now \/ now' = now + 1
  BY <1>3 DEF Tick, MaintenanceEnter, MaintenanceClear, vars, ShowRows, StopSession,
     CancelReservation, Restart, SweepScan, SweepStop, SweepStopFails, SweepNudge, SweepSkip,
     SweepClaim
<1>4. now' = now \/ now' = now + 1
  BY <1>2, <1>3 DEF Next, MyReservations, PlugReservations, CpoListReservations, PlugListing
<1> QED
  BY <1>1, <1>4

LEMMA NextInv == Inv /\ [Next]_vars => Inv'
<1> SUFFICES ASSUME Inv, [Next]_vars PROVE Inv'
  OBVIOUS
<1>1. /\ Shape /\ Links /\ Nudges /\ NoDoubleBooking /\ CapHolds
      /\ Marked /\ Gated /\ (ForceStop => Cleared)
  BY DEF Inv
<1>2. RowsMove \/ \E u \in Users : Creates(u)
  BY <1>1, RowKinds
<1>3. Shape' /\ Links' /\ Nudges'
  BY <1>1, ShapeStep, LinksStep, NudgesStep
<1>4. NoDoubleBooking' /\ CapHolds'
  BY <1>1, <1>2, ClockMoves, DoubleBookingStep, CapStep
<1>5. Marked' /\ Gated' /\ (ForceStop => Cleared')
  BY <1>1, MarkedStep, GatedStep, ClearedStep
<1> QED
  BY <1>3, <1>4, <1>5 DEF Inv

LEMMA SpecInv == Spec => []Inv
BY InitInv, NextInv, PTL DEF Spec

LEMMA InvBookings == Inv => BookingsConsistent
<1> SUFFICES ASSUME Inv PROVE BookingsConsistent
  OBVIOUS
<1>1. Shape /\ Links /\ Nudges /\ NoDoubleBooking /\ CapHolds
  BY DEF Inv
<1>2. TypeOK
  <2>1. \A u \in Users : start[u].at \in {"idle", "gated", "publishing"}
    BY <1>1 DEF Shape, StartState
  <2>2. sweep.at \in {"idle", "scanned", "stopping", "nudging", "unstopped"}
    BY <1>1 DEF Shape, SweepState
  <2> QED
    BY <1>1, <2>1, <2>2, Tables DEF TypeOK, Shape
<1>3. FulfilledByHolder
  BY <1>1 DEF FulfilledByHolder, Links, RowLinked
<1>4. NudgedOnce
  BY <1>1 DEF NudgedOnce, Nudges
<1> QED
  BY <1>1, <1>2, <1>3, <1>4 DEF BookingsConsistent

LEMMA InvReady == Inv => ReadyMeansFree
<1> SUFFICES ASSUME Inv, ForceStop, NEW i \in Ids, Booked(i), rows[i].ready,
                    NEW s \in ActiveSessions, sessions[s].user # rows[i].user,
                    ~(sessions[s].gated < rows[i].start /\ i \in sessions[s].after),
                    \A o \in DOMAIN sessions : ~(o >= s /\ sessions[o].shared), ~Restored
             PROVE  FALSE
  BY DEF ReadyMeansFree, Restored
<1>1. Cleared /\ s \in DOMAIN sessions
  BY DEF Inv, ActiveSessions
<1>2. Stranger(i, s)
  BY DEF Stranger
<1> QED
  BY <1>1, <1>2 DEF Cleared

\* create_reservation, the starts, the lazy expiry and the sweep keep the
\* booking table consistent: no collision, nobody past the cap, a fulfilled row
\* is its holder's session, one nudge per row.
THEOREM BookingsConsistentHolds == Spec => []BookingsConsistent
BY SpecInv, InvBookings, PTL

\* After the ready nudge of reap_reservation_starts_once the walk-up who was
\* charging when the window opened is stopped, and no other stranger charges in
\* the window but the late commit and the double grants the property names.
THEOREM ReadyMeansFreeHolds == Spec => []ReadyMeansFree
BY SpecInv, InvReady, PTL

\* A row that was cancelled or expired is written again only by a start that
\* had read it at its gate.
THEOREM SettlesOnceHolds == Spec => SettlesOnce
<1>1. ASSUME Inv, [Next]_vars
      PROVE  [\A i \in Ids : rows[i].status \in {"CANCELLED", "EXPIRED"} =>
                 \/ rows'[i].status = rows[i].status
                 \/ \E u \in Users : start[u].cover = i]_vars
  <2>1. \A i \in Ids : RowMoves(i)
    BY <1>1, RowsAfter DEF Inv
  <2> QED
    BY <2>1 DEF RowMoves, Booked
<1> QED
  BY <1>1, SpecInv, PTL DEF Spec, SettlesOnce
===============================================================================
