---------------------------- MODULE Reservations ----------------------------
(***************************************************************************)
(* Booked windows on one plug, the session starts they gate, and the       *)
(* reaper's sweep that opens a window: it stops a stranger's session and   *)
(* tells the holder.                                                       *)
(*                                                                         *)
(* A start is three steps: the gate, under the user and plug row locks;    *)
(* the commit that claims the plug and fulfils the booking; the publish,   *)
(* whose failure undoes both with no lock held.  Cancelling locks the      *)
(* reservation row only.  A lapsed booking expires when somebody reads it. *)
(* Every user may use the plug.                                            *)
(***************************************************************************)
EXTENDS Integers, Sequences, FiniteSets

CONSTANTS
    Users,
    Windows,               \* the <<start_at, end_at>> that requests ask for
    MinLength, MaxLength,  \* RESERVATION_MIN_MINUTES, RESERVATION_MAX_HOURS
    StartGrace,            \* RESERVATION_START_GRACE_MIN
    MaxAdvance,            \* RESERVATION_MAX_ADVANCE_DAYS
    NoShowGrace,           \* RESERVATION_NO_SHOW_GRACE_MIN
    MaxUpcoming,           \* MAX_UPCOMING_RESERVATIONS_PER_USER
    ForceStop,             \* FORCE_STOP_WALKUP_ON_RESERVATION
    MaxNow,                \* bound: readings of the clock
    MaxRows, MaxSessions,  \* bound: rows of the two tables
    MaxFaults              \* bound: restarts and failed force-stops

ASSUME ReservationsAssumption ==
    /\ Windows \subseteq Nat \X Nat
    /\ MinLength \in Nat \ {0} /\ MaxLength \in Nat /\ StartGrace \in Nat
    /\ MaxAdvance \in Nat /\ NoShowGrace \in Nat /\ MaxUpcoming \in Nat
    /\ ForceStop \in BOOLEAN
    /\ MaxNow \in Nat /\ MaxRows \in Nat /\ MaxSessions \in Nat /\ MaxFaults \in Nat

VARIABLES
    now,       \* the clock
    rows,      \* reservations, by id
    sessions,  \* charging_sessions of the plug, by id
    plug,      \* plugs.status
    start,     \* each user's start request in flight
    sweep,     \* the reservation sweep of the reaper
    faults     \* restarts and failed force-stops so far

vars == <<now, rows, sessions, plug, start, sweep, faults>>

ReservationStatus == {"BOOKED", "CANCELLED", "FULFILLED", "EXPIRED"}

\* stamped is started_notified_at.  nudges and ready are history, what the
\* sweep has delivered for the row: nudges sent, and whether the plug was free
\* of strangers when the last one went out.  restored is history too: a failed
\* publish has given the window back.
Reservation == [user : Users, start : Int, end : Int, status : ReservationStatus,
                session : Nat, stamped : BOOLEAN,
                nudges : Nat, ready : BOOLEAN, restored : BOOLEAN]

\* gated is the time the start's gate read.  shared and after are history:
\* another session was ACTIVE on the plug when this one began, the undo of a
\* failed start having freed the plug under it; the windows the sweep had
\* claimed by then.
ChargingSession == [user : Users, status : {"ACTIVE", "COMPLETED", "CANCELLED"}, gated : Nat,
                    shared : BOOLEAN, after : SUBSET Nat]

NoStart == [at |-> "idle", read |-> 0, cover |-> 0, session |-> 0]
NoSweep == [at |-> "idle", todo |-> {}, row |-> 0, victim |-> 0]

Ids == DOMAIN rows
Booked(i) == rows[i].status = "BOOKED"
ActiveSessions == {s \in DOMAIN sessions : sessions[s].status = "ACTIVE"}
Overlap(a, b) == a.start < b.end /\ b.start < a.end
Covers(r, t) == r.start <= t /\ t < r.end

\* The condition of expire_lapsed_reservations.
Lapsed(r, t) == r.status = "BOOKED" /\ (r.start + NoShowGrace <= t \/ r.end <= t)

\* Mutant: a status the column does not have.
ExpireAsLapsed(table, S, t) ==
    [i \in DOMAIN table |-> IF i \in S /\ Lapsed(table[i], t)
                            THEN [table[i] EXCEPT !.status = "LAPSED"] ELSE table[i]]

Expire(table, S, t) ==
    [i \in DOMAIN table |-> IF i \in S /\ Lapsed(table[i], t)
                            THEN [table[i] EXCEPT !.status = "EXPIRED"] ELSE table[i]]

PlugLocked == \E u \in Users : start[u].at = "gated"

\* A start that passed the gate has updated the lapsed rows and not committed.
RowLocked(i) == \E u \in Users : start[u].at = "gated" /\ Lapsed(rows[i], start[u].read)
-----------------------------------------------------------------------------
Init ==
    /\ now = 0 /\ rows = <<>> /\ sessions = <<>> /\ plug = "AVAILABLE"
    /\ start = [u \in Users |-> NoStart]
    /\ sweep = NoSweep /\ faults = 0

Tick ==
    /\ now < MaxNow /\ now' = now + 1
    /\ UNCHANGED <<rows, sessions, plug, start, sweep, faults>>
-----------------------------------------------------------------------------
(* Booking *)

\* The window rules of create_reservation.
ValidWindow(from, to) ==
    /\ from < to
    /\ to - from >= MinLength /\ to - from <= MaxLength
    /\ from >= now - StartGrace /\ from <= now + MaxAdvance

\* Mutant: the end of a booked window still belongs to it.
SlotFreeClosed(table, from, to) ==
    \A i \in DOMAIN table : ~(/\ table[i].status = "BOOKED"
                              /\ table[i].start < to /\ table[i].end > from + 1)

\* The overlap query, after the plug's lapsed rows are expired.
SlotFree(table, from, to) ==
    \A i \in DOMAIN table : ~(/\ table[i].status = "BOOKED"
                              /\ table[i].start < to /\ table[i].end > from)

Upcoming(table, u) ==
    {i \in DOMAIN table : /\ table[i].user = u /\ table[i].status = "BOOKED"
                          /\ table[i].end > now}

Insert(table, u, from, to) ==
    Append(table, [user |-> u, start |-> from, end |-> to, status |-> "BOOKED",
                   session |-> 0, stamped |-> FALSE,
                   nudges |-> 0, ready |-> FALSE, restored |-> FALSE])

\* Mutant: the cap lets one more through.
CreateReservationPastCap(u, from, to) ==
    LET swept == Expire(rows, Ids, now) IN
    /\ Len(rows) < MaxRows /\ ValidWindow(from, to)
    /\ start[u].at # "gated" /\ ~PlugLocked
    /\ Cardinality(Upcoming(swept, u)) <= MaxUpcoming
    /\ plug # "MAINTENANCE"
    /\ SlotFree(swept, from, to)
    /\ rows' = Insert(swept, u, from, to)
    /\ UNCHANGED <<now, sessions, plug, start, sweep, faults>>

\* create_reservation: the user lock, the cap, the plug lock, the overlap
\* check.  A refusal rolls the expiry back.
CreateReservation(u, from, to) ==
    LET swept == Expire(rows, Ids, now) IN
    /\ Len(rows) < MaxRows /\ ValidWindow(from, to)
    /\ start[u].at # "gated" /\ ~PlugLocked
    /\ Cardinality(Upcoming(swept, u)) < MaxUpcoming
    /\ plug # "MAINTENANCE"
    /\ SlotFree(swept, from, to)
    /\ rows' = Insert(swept, u, from, to)
    /\ UNCHANGED <<now, sessions, plug, start, sweep, faults>>

\* Mutant: the status is not re-checked under the lock.
CancelReservationUnchecked(i) ==
    /\ ~RowLocked(i)
    /\ rows' = [rows EXCEPT ![i].status = "CANCELLED"]
    /\ UNCHANGED <<now, sessions, plug, start, sweep, faults>>

\* cancel_reservation, by the holder or the tenant's operator.
CancelReservation(i) ==
    /\ Booked(i) /\ ~RowLocked(i)
    /\ rows' = [rows EXCEPT ![i].status = "CANCELLED"]
    /\ UNCHANGED <<now, sessions, plug, start, sweep, faults>>

\* A listing first expires, and commits, the lapsed rows it is about to show.
ShowRows(S) ==
    LET lapsed == {i \in Ids : rows[i].user \in S /\ Lapsed(rows[i], now)} IN
    /\ lapsed # {} /\ \A i \in lapsed : ~RowLocked(i)
    /\ rows' = Expire(rows, lapsed, now)
    /\ UNCHANGED <<now, sessions, plug, start, sweep, faults>>

MyReservations(u) == ShowRows({u})
PlugReservations == ShowRows(Users)
CpoListReservations == ShowRows(Users)

PlugListing == ShowRows(Users)

\* cpo_plug_maintenance: its write waits for the plug lock.  (ChargingSessions
\* splits the check of `clear` from its write.)
MaintenanceEnter ==
    /\ ~PlugLocked /\ plug' = "MAINTENANCE"
    /\ UNCHANGED <<now, rows, sessions, start, sweep, faults>>

MaintenanceClear ==
    /\ plug # "AVAILABLE" /\ ActiveSessions = {} /\ ~PlugLocked
    /\ plug' = "AVAILABLE"
    /\ UNCHANGED <<now, rows, sessions, start, sweep, faults>>
-----------------------------------------------------------------------------
(* Starting and stopping *)

\* The BOOKED row that covers t, the one with the earliest start.
CoveringAt(table, t) ==
    LET C == {i \in DOMAIN table : table[i].status = "BOOKED" /\ Covers(table[i], t)}
    IN  {i \in C : \A j \in C : table[i].start <= table[j].start}

PastGate(c) == [at |-> "gated", read |-> now, cover |-> c, session |-> 0]

\* start_charging_session up to begin_active_session, and reap_queued_starts_once,
\* which passes the same gate and fulfils no booking.
StartGate(u, queued) ==
    LET swept == Expire(rows, Ids, now) IN
    /\ start[u].at = "idle" /\ ~PlugLocked /\ plug = "AVAILABLE"
    /\ Len(sessions) < MaxSessions
    /\ \E c \in (IF CoveringAt(swept, now) = {} THEN {0} ELSE CoveringAt(swept, now)) :
        /\ c # 0 => rows[c].user = u
        /\ start' = [start EXCEPT ![u] = PastGate(IF queued THEN 0 ELSE c)]
    /\ UNCHANGED <<now, rows, sessions, plug, sweep, faults>>

\* No room on the circuit, or too small a balance: the transaction rolls back.
StartRefused(u) ==
    /\ start[u].at = "gated"
    /\ start' = [start EXCEPT ![u] = NoStart]
    /\ UNCHANGED <<now, rows, sessions, plug, sweep, faults>>

NewSession(u) == [user |-> u, status |-> "ACTIVE", gated |-> start[u].read,
                  shared |-> ActiveSessions # {},
                  after |-> {i \in Ids : rows[i].stamped}]

\* Mutant: the booking is fulfilled without a link to its session.
StartCommitUnlinked(u) ==
    LET s == Len(sessions) + 1  c == start[u].cover  swept == Expire(rows, Ids, start[u].read) IN
    /\ start[u].at = "gated" /\ s <= MaxSessions
    /\ sessions' = Append(sessions, NewSession(u))
    /\ rows' = IF c = 0 THEN swept ELSE [swept EXCEPT ![c].status = "FULFILLED"]
    /\ plug' = "OCCUPIED"
    /\ start' = [start EXCEPT ![u].at = "publishing", ![u].read = 0, ![u].session = s]
    /\ UNCHANGED <<now, sweep, faults>>

\* begin_active_session, the commit: the booking read at the gate is updated
\* by its id, whatever its status is by now.
StartCommit(u) ==
    LET s == Len(sessions) + 1  c == start[u].cover  swept == Expire(rows, Ids, start[u].read) IN
    /\ start[u].at = "gated" /\ s <= MaxSessions
    /\ sessions' = Append(sessions, NewSession(u))
    /\ rows' = IF c = 0 THEN swept
               ELSE [swept EXCEPT ![c].status = "FULFILLED", ![c].session = s]
    /\ plug' = "OCCUPIED"
    /\ start' = [start EXCEPT ![u].at = "publishing", ![u].read = 0, ![u].session = s]
    /\ UNCHANGED <<now, sweep, faults>>

PublishSucceeds(u) ==
    /\ start[u].at = "publishing"
    /\ start' = [start EXCEPT ![u] = NoStart]
    /\ UNCHANGED <<now, rows, sessions, plug, sweep, faults>>

\* begin_active_session, the undo.
PublishFails(u) ==
    LET c == start[u].cover IN
    /\ start[u].at = "publishing"
    /\ sessions' = [sessions EXCEPT ![start[u].session].status = "CANCELLED"]
    /\ plug' = "AVAILABLE"
    /\ rows' = IF c = 0 THEN rows
               ELSE [rows EXCEPT ![c].status = "BOOKED", ![c].session = 0,
                                 ![c].restored = TRUE]
    /\ start' = [start EXCEPT ![u] = NoStart]
    /\ UNCHANGED <<now, sweep, faults>>

\* finalize_charging_session, for the driver or a sweep.
StopSession(s) ==
    /\ sessions[s].status = "ACTIVE"
    /\ sessions' = [sessions EXCEPT ![s].status = "COMPLETED"]
    /\ plug' = "AVAILABLE"
    /\ UNCHANGED <<now, rows, start, sweep, faults>>
-----------------------------------------------------------------------------
(* reap_reservation_starts_once *)

Opened(i, t) == Booked(i) /\ ~rows[i].stamped /\ Covers(rows[i], t)

\* The candidates, read without locks.
SweepScan ==
    /\ sweep.at = "idle"
    /\ LET C == {i \in Ids : Opened(i, now)} IN
        /\ C # {}
        /\ sweep' = [NoSweep EXCEPT !.at = "scanned", !.todo = C]
    /\ UNCHANGED <<now, rows, sessions, plug, start, faults>>

\* The stranger's ACTIVE session on the plug, or 0.
Overruns(i) ==
    LET S == {s \in ActiveSessions : sessions[s].user # rows[i].user}
    IN  IF S = {} THEN {0} ELSE S

\* A row that is no longer BOOKED, or locked (SKIP LOCKED), is passed over.
SweepSkip(i) ==
    /\ sweep.at = "scanned" /\ i \in sweep.todo
    /\ ~Booked(i) \/ rows[i].stamped \/ RowLocked(i)
    /\ sweep' = IF sweep.todo = {i} THEN NoSweep ELSE [sweep EXCEPT !.todo = @ \ {i}]
    /\ UNCHANGED <<now, rows, sessions, plug, start, faults>>

\* Mutant: the stamp is left for the step that nudges.
SweepClaimUnstamped(i) ==
    /\ sweep.at = "scanned" /\ i \in sweep.todo
    /\ Booked(i) /\ ~rows[i].stamped /\ ~RowLocked(i)
    /\ \E v \in Overruns(i) :
        sweep' = [sweep EXCEPT !.at = "stopping", !.todo = @ \ {i}, !.row = i, !.victim = v]
    /\ UNCHANGED <<now, rows, sessions, plug, start, faults>>

SweepClaim(i) ==
    /\ sweep.at = "scanned" /\ i \in sweep.todo
    /\ Booked(i) /\ ~rows[i].stamped /\ ~RowLocked(i)
    /\ rows' = [rows EXCEPT ![i].stamped = TRUE]
    /\ \E v \in Overruns(i) :
        sweep' = [sweep EXCEPT !.at = "stopping", !.todo = @ \ {i}, !.row = i, !.victim = v]
    /\ UNCHANGED <<now, sessions, plug, start, faults>>

\* Mutant: the force-stop is left out.
SweepStopNobody ==
    /\ sweep.at = "stopping"
    /\ UNCHANGED <<sessions, plug>>
    /\ sweep' = [sweep EXCEPT !.at = "nudging"]
    /\ UNCHANGED <<now, rows, start, faults>>

\* The force-stop: finalize, which does nothing to a session that has ended.
SweepStop ==
    /\ sweep.at = "stopping"
    /\ IF ForceStop /\ sweep.victim \in ActiveSessions
       THEN /\ sessions' = [sessions EXCEPT ![sweep.victim].status = "COMPLETED"]
            /\ plug' = "AVAILABLE"
       ELSE UNCHANGED <<sessions, plug>>
    /\ sweep' = [sweep EXCEPT !.at = "nudging"]
    /\ UNCHANGED <<now, rows, start, faults>>

\* finalize raises: logged, and never tried again.
SweepStopFails ==
    /\ sweep.at = "stopping" /\ sweep.victim # 0 /\ ForceStop
    /\ faults < MaxFaults /\ faults' = faults + 1
    /\ sweep' = [sweep EXCEPT !.at = "unstopped"]
    /\ UNCHANGED <<now, rows, sessions, plug, start>>

SweepNudge ==
    /\ sweep.at \in {"nudging", "unstopped"}
    /\ rows' = [rows EXCEPT ![sweep.row].nudges = @ + 1,
                            ![sweep.row].ready = sweep.at = "nudging"]
    /\ sweep' = IF sweep.todo = {} THEN NoSweep
                ELSE [sweep EXCEPT !.at = "scanned", !.row = 0, !.victim = 0]
    /\ UNCHANGED <<now, sessions, plug, start, faults>>

\* The process restarts: transactions in flight roll back, committed rows stay.
Restart ==
    /\ faults < MaxFaults /\ faults' = faults + 1
    /\ start' = [u \in Users |-> NoStart] /\ sweep' = NoSweep
    /\ start # start' \/ sweep # sweep'
    /\ UNCHANGED <<now, rows, sessions, plug>>
-----------------------------------------------------------------------------
Next ==
    \/ Tick \/ Restart
    \/ SweepScan \/ SweepStop \/ SweepStopFails \/ SweepNudge
    \/ \E i \in Ids : SweepSkip(i) \/ SweepClaim(i)
    \/ \E u \in Users :
        \/ \E w \in Windows : CreateReservation(u, w[1], w[2])
        \/ MyReservations(u)
        \/ \E queued \in BOOLEAN : StartGate(u, queued)
        \/ StartRefused(u) \/ StartCommit(u) \/ PublishSucceeds(u) \/ PublishFails(u)
    \/ PlugReservations \/ CpoListReservations \/ PlugListing
    \/ \E i \in Ids : CancelReservation(i)
    \/ MaintenanceEnter \/ MaintenanceClear
    \/ \E s \in DOMAIN sessions : StopSession(s)

Spec == Init /\ [][Next]_vars
-----------------------------------------------------------------------------
(* Properties *)

TypeOK ==
    /\ now \in 0 .. MaxNow /\ faults \in 0 .. MaxFaults
    /\ \A i \in Ids : rows[i] \in Reservation
    /\ \A s \in DOMAIN sessions : sessions[s] \in ChargingSession
    /\ plug \in {"AVAILABLE", "OCCUPIED", "MAINTENANCE"}
    /\ \A u \in Users : start[u].at \in {"idle", "gated", "publishing"}
    /\ sweep.at \in {"idle", "scanned", "stopping", "nudging", "unstopped"}

\* Two booked windows never overlap, although only the plug lock keeps them
\* apart, unless a failed publish gave one of them back: its slot counts as
\* free for as long as the command is in flight.
NoDoubleBooking ==
    \A i, j \in Ids :
        (i # j /\ Booked(i) /\ Booked(j) /\ Overlap(rows[i], rows[j]))
            => rows[i].restored \/ rows[j].restored

\* The per-user cap holds under concurrent bookings; only a window given back
\* by a failed publish can exceed it.
CapHolds ==
    \A u \in Users : Cardinality({i \in Upcoming(rows, u) : ~rows[i].restored}) <= MaxUpcoming

\* A fulfilled booking points at a session its holder started inside the
\* window, one that a failed publish has not undone, and shares it with no
\* other booking; a restart in between does not break the link.
FulfilledByHolder ==
    \A i \in Ids : rows[i].status = "FULFILLED" =>
        /\ rows[i].session \in DOMAIN sessions
        /\ LET s == sessions[rows[i].session] IN
            s.user = rows[i].user /\ Covers(rows[i], s.gated) /\ s.status # "CANCELLED"
        /\ \A j \in Ids \ {i} : rows[j].session # rows[i].session

\* The holder hears that the window opened at most once, over every tick and
\* restart.
NudgedOnce == \A i \in Ids : rows[i].nudges <= 1

\* Once the sweep has told the holder the plug is ready, no walk-up who was
\* charging when the window opened still is.  A stranger charges in the window
\* only if his gate read the clock before it opened and his commit came after
\* the sweep had looked, or the plug was given out twice (of two strangers the
\* sweep stops one), or the slot was.
ReadyMeansFree ==
    ForceStop =>
    \A i \in Ids : (Booked(i) /\ rows[i].ready /\ Covers(rows[i], now)) =>
        \A s \in ActiveSessions :
            \/ sessions[s].user = rows[i].user
            \/ sessions[s].gated < rows[i].start /\ i \in sessions[s].after
            \/ \E o \in DOMAIN sessions : o >= s /\ sessions[o].shared
            \/ \E j \in Ids : rows[j].restored

\* A cancelled or expired booking stays so, over lazy expiry, cancellations and
\* failed publishes.  Only a start that read the booking at its gate before can
\* still overwrite it: the commit and the undo write the row by its id.
SettlesOnce ==
    [][\A i \in Ids : rows[i].status \in {"CANCELLED", "EXPIRED"} =>
            \/ rows'[i].status = rows[i].status
            \/ \E u \in Users : start[u].cover = i]_vars

\* The booking table stays consistent under concurrent bookings, starts,
\* expiry, the sweep and restarts: no collision, no driver past the cap, a
\* fulfilled row is its holder's session, one nudge per row.
BookingsConsistent ==
    TypeOK /\ NoDoubleBooking /\ CapHolds /\ FulfilledByHolder /\ NudgedOnce
=============================================================================
