---------------------------- MODULE QueuedCharges ----------------------------
(***************************************************************************)
(* Charges queued on plugs that have lost power, the reaper's sweep that   *)
(* starts them once power has held for the debounce.                       *)
(*                                                                         *)
(* A queue request counts, then inserts.  The sweep admits a row under its *)
(* lock and commits the session, which releases the lock; the publish and  *)
(* the write that marks the row come after.                                *)
(***************************************************************************)
EXTENDS Naturals, Sequences, FiniteSets

CONSTANTS
    Users, Plugs,
    Requests,     \* the queue requests that can be in flight together
    MaxQueued,    \* MAX_QUEUED_CHARGES_PER_USER
    MaxActive,    \* MAX_ACTIVE_SESSIONS_PER_USER
    MaxRows, MaxSessions, MaxRestarts  \* bounds: rows of the tables, restarts

ASSUME QueuedChargesAssumption ==
    /\ MaxQueued \in Nat /\ MaxActive \in Nat
    /\ MaxRows \in Nat /\ MaxSessions \in Nat /\ MaxRestarts \in Nat

VARIABLES
    power,     \* each plug: dark, powered for less than the debounce, or longer
    plug,      \* plugs.status, while in service
    rows,      \* queued_charges, by id
    sessions,  \* charging_sessions, by id
    request,   \* the queue requests in flight
    sweep,     \* reap_queued_starts_once
    restarts

vars == <<power, plug, rows, sessions, request, sweep, restarts>>

QueuedChargeStatus == {"WAITING", "STARTED", "CANCELLED", "EXPIRED", "FAILED"}
PlugPower == {"dark", "fresh", "steady"}

\* lapsed: expires_at has passed.  contended is history: another request of
\* the driver was in flight at the insert.  Both are kept while the row waits.
QueuedCharge == [user : Users, plug : Plugs, status : QueuedChargeStatus,
                 lapsed : BOOLEAN, session : Nat, contended : BOOLEAN]

\* row is history: the queued charge the session was started for, 0 for none.
ChargingSession == [user : Users, plug : Plugs,
                    status : {"ACTIVE", "COMPLETED", "CANCELLED"}, row : Nat]

NoRequest == [at |-> "idle"]
NoSweep == [at |-> "rows", todo |-> {}, row |-> 0, session |-> 0]

Waiting(i) == rows[i].status = "WAITING"
WaitingOf(u) == {i \in DOMAIN rows : Waiting(i) /\ rows[i].user = u}
ActiveSessions == {s \in DOMAIN sessions : sessions[s].status = "ACTIVE"}
ActiveOf(u) == {s \in ActiveSessions : sessions[s].user = u}
ActiveOn(p) == {s \in ActiveSessions : sessions[s].plug = p}
AlreadyQueued(u, p) == \E i \in WaitingOf(u) : rows[i].plug = p
Closed(row, status) == [row EXCEPT !.status = status, !.lapsed = FALSE, !.contended = FALSE]
Starting == sweep.at = "publishing"
-----------------------------------------------------------------------------
Init ==
    /\ power = [p \in Plugs |-> "dark"] /\ plug = [p \in Plugs |-> "AVAILABLE"]
    /\ rows = <<>> /\ sessions = <<>>
    /\ request = [r \in Requests |-> NoRequest] /\ sweep = NoSweep
    /\ restarts = 0
-----------------------------------------------------------------------------
(* Power, as telemetry shows it *)

\* No frame for PLUG_POWER_STALE_SEC: plug_is_powered turns false.
PowerLost(p) ==
    /\ power[p] # "dark" /\ power' = [power EXCEPT ![p] = "dark"]
    /\ UNCHANGED <<plug, rows, sessions, request, sweep, restarts>>

\* The plug has reported without a gap for auto_start_delay.
DebounceElapses(p) ==
    /\ power[p] = "fresh" /\ power' = [power EXCEPT ![p] = "steady"]
    /\ UNCHANGED <<plug, rows, sessions, request, sweep, restarts>>

\* _persist_telemetry: a frame after a gap sets powered_since anew.
PowerReturns(p) ==
    /\ power[p] = "dark" /\ power' = [power EXCEPT ![p] = "fresh"]
    /\ UNCHANGED <<plug, rows, sessions, request, sweep, restarts>>
-----------------------------------------------------------------------------
(* The driver *)

\* Mutant: the cap lets one more through.
QueueCheckPastCap(r, u, p) ==
    /\ request[r] = NoRequest /\ power[p] = "dark"
    /\ Cardinality(WaitingOf(u)) <= MaxQueued /\ ~AlreadyQueued(u, p)
    /\ request' = [request EXCEPT ![r] = [at |-> "checked", user |-> u, plug |-> p]]
    /\ UNCHANGED <<power, plug, rows, sessions, sweep, restarts>>

\* queue_charge up to the insert.  The gateway is live, the tenant allows
\* queueing and the balance suffices; anything else is refused.
QueueCheck(r, u, p) ==
    /\ request[r] = NoRequest /\ power[p] = "dark"
    /\ Cardinality(WaitingOf(u)) < MaxQueued /\ ~AlreadyQueued(u, p)
    /\ request' = [request EXCEPT ![r] = [at |-> "checked", user |-> u, plug |-> p]]
    /\ UNCHANGED <<power, plug, rows, sessions, sweep, restarts>>

Contended(r) == \E q \in Requests \ {r} : request[q] # NoRequest /\ request[q].user = request[r].user

NewRow(r) == [user |-> request[r].user, plug |-> request[r].plug, status |-> "WAITING",
              lapsed |-> FALSE, session |-> 0, contended |-> Contended(r)]

\* Mutant: no unique index.
QueueInsertUnchecked(r) ==
    /\ request[r] # NoRequest /\ Len(rows) < MaxRows
    /\ rows' = Append(rows, NewRow(r))
    /\ request' = [request EXCEPT ![r] = NoRequest]
    /\ UNCHANGED <<power, plug, sessions, sweep, restarts>>

\* The insert; ix_queued_charges_one_waiting_per_user_plug refuses a second row.
QueueInsert(r) ==
    /\ request[r] # NoRequest /\ Len(rows) < MaxRows
    /\ rows' = IF AlreadyQueued(request[r].user, request[r].plug) THEN rows
               ELSE Append(rows, NewRow(r))
    /\ request' = [request EXCEPT ![r] = NoRequest]
    /\ UNCHANGED <<power, plug, sessions, sweep, restarts>>

\* Mutant: a status the column does not have.
CancelQueuedAsDeleted(i) ==
    /\ Waiting(i) /\ rows' = [rows EXCEPT ![i] = Closed(@, "DELETED")]
    /\ UNCHANGED <<power, plug, sessions, request, sweep, restarts>>

\* cancel_queued_charge, under the row lock.
CancelQueued(i) ==
    /\ Waiting(i) /\ rows' = [rows EXCEPT ![i] = Closed(@, "CANCELLED")]
    /\ UNCHANGED <<power, plug, sessions, request, sweep, restarts>>

\* expires_at passes.
Lapse(i) ==
    /\ Waiting(i) /\ ~rows[i].lapsed /\ rows' = [rows EXCEPT ![i].lapsed = TRUE]
    /\ UNCHANGED <<power, plug, sessions, request, sweep, restarts>>

\* A walk-up start whose publish succeeds; ChargingSessions has its steps.
WalkUpStart(u, p) ==
    /\ Len(sessions) < MaxSessions /\ plug[p] = "AVAILABLE" /\ power[p] # "dark"
    /\ Cardinality(ActiveOf(u)) < MaxActive
    /\ sessions' = Append(sessions, [user |-> u, plug |-> p, status |-> "ACTIVE", row |-> 0])
    /\ plug' = [plug EXCEPT ![p] = "OCCUPIED"]
    /\ UNCHANGED <<power, rows, request, sweep, restarts>>

\* finalize_charging_session, up to its commit.
StopSession(s) ==
    /\ s \in ActiveSessions
    /\ sessions' = [sessions EXCEPT ![s].status = "COMPLETED"]
    /\ plug' = [plug EXCEPT ![sessions[s].plug] = "AVAILABLE"]
    /\ UNCHANGED <<power, rows, request, sweep, restarts>>
-----------------------------------------------------------------------------
(* The sweep *)

\* The unlocked scan for WAITING rows.
SweepScan ==
    /\ sweep = NoSweep
    /\ sweep' = [NoSweep EXCEPT !.todo = {i \in DOMAIN rows : Waiting(i)}]
    /\ UNCHANGED <<power, plug, rows, sessions, request, restarts>>

AtCap(u) == Cardinality(ActiveOf(u)) >= MaxActive
Debounced(p) == power[p] = "steady"

\* Cancelled or started since the scan, at the cap, dark, within the debounce,
\* occupied, or booked by somebody else (reserved): the row is left alone.
SweepSkip(i, reserved) ==
    /\ sweep.at = "rows" /\ i \in sweep.todo
    /\ \/ ~Waiting(i)
       \/ /\ ~rows[i].lapsed
          /\ \/ AtCap(rows[i].user) \/ ~Debounced(rows[i].plug)
             \/ plug[rows[i].plug] = "OCCUPIED" \/ reserved
    /\ sweep' = [sweep EXCEPT !.todo = @ \ {i}]
    /\ UNCHANGED <<power, plug, rows, sessions, request, restarts>>

Startable(i) ==
    /\ sweep.at = "rows" /\ i \in sweep.todo /\ Waiting(i) /\ ~rows[i].lapsed
    /\ ~AtCap(rows[i].user) /\ Debounced(rows[i].plug)

\* Mutant: the lapse is looked at only for a row that could start.
SweepExpireLate(i, poor) ==
    /\ sweep.at = "rows" /\ i \in sweep.todo /\ Waiting(i)
    /\ ~AtCap(rows[i].user)
    /\ rows[i].lapsed \/ (poor /\ Startable(i) /\ plug[rows[i].plug] = "AVAILABLE")
    /\ rows' = [rows EXCEPT ![i] = Closed(@, "EXPIRED")]
    /\ sweep' = [sweep EXCEPT !.todo = @ \ {i}]
    /\ UNCHANGED <<power, plug, sessions, request, restarts>>

\* The lapse, or the 402 of begin_active_session when the balance has gone.
SweepExpire(i, poor) ==
    /\ sweep.at = "rows" /\ i \in sweep.todo /\ Waiting(i)
    /\ rows[i].lapsed \/ (poor /\ Startable(i) /\ plug[rows[i].plug] = "AVAILABLE")
    /\ rows' = [rows EXCEPT ![i] = Closed(@, "EXPIRED")]
    /\ sweep' = [sweep EXCEPT !.todo = @ \ {i}]
    /\ UNCHANGED <<power, plug, sessions, request, restarts>>

\* An operator has taken the plug out of service, or its circuit is full (the
\* 409 of begin_active_session).
SweepFail(i) ==
    /\ Startable(i) /\ plug[rows[i].plug] = "AVAILABLE"
    /\ rows' = [rows EXCEPT ![i] = Closed(@, "FAILED")]
    /\ sweep' = [sweep EXCEPT !.todo = @ \ {i}]
    /\ UNCHANGED <<power, plug, sessions, request, restarts>>

\* Mutant: starts what the scan found without looking again.
SweepBeginStale(i) ==
    /\ sweep.at = "rows" /\ i \in sweep.todo /\ Len(sessions) < MaxSessions
    /\ ~AtCap(rows[i].user) /\ Debounced(rows[i].plug) /\ plug[rows[i].plug] = "AVAILABLE"
    /\ sessions' = Append(sessions, [user |-> rows[i].user, plug |-> rows[i].plug,
                                     status |-> "ACTIVE", row |-> i])
    /\ plug' = [plug EXCEPT ![rows[i].plug] = "OCCUPIED"]
    /\ sweep' = [sweep EXCEPT !.at = "publishing", !.row = i, !.session = Len(sessions) + 1]
    /\ UNCHANGED <<power, rows, request, restarts>>

\* Mutant: the cap on concurrent sessions is left to the walk-up route.
SweepBeginUncapped(i) ==
    /\ sweep.at = "rows" /\ i \in sweep.todo /\ Waiting(i) /\ ~rows[i].lapsed
    /\ Len(sessions) < MaxSessions
    /\ Debounced(rows[i].plug) /\ plug[rows[i].plug] = "AVAILABLE"
    /\ sessions' = Append(sessions, [user |-> rows[i].user, plug |-> rows[i].plug,
                                     status |-> "ACTIVE", row |-> i])
    /\ plug' = [plug EXCEPT ![rows[i].plug] = "OCCUPIED"]
    /\ sweep' = [sweep EXCEPT !.at = "publishing", !.row = i, !.session = Len(sessions) + 1]
    /\ UNCHANGED <<power, rows, request, restarts>>

\* begin_active_session commits the session and releases the row, user and plug.
SweepBegin(i) ==
    /\ Startable(i) /\ plug[rows[i].plug] = "AVAILABLE" /\ Len(sessions) < MaxSessions
    /\ sessions' = Append(sessions, [user |-> rows[i].user, plug |-> rows[i].plug,
                                     status |-> "ACTIVE", row |-> i])
    /\ plug' = [plug EXCEPT ![rows[i].plug] = "OCCUPIED"]
    /\ sweep' = [sweep EXCEPT !.at = "publishing", !.row = i, !.session = Len(sessions) + 1]
    /\ UNCHANGED <<power, rows, request, restarts>>

\* The row is done with, and so is the session's part of the sweep.
NextRow == [sweep EXCEPT !.at = "rows", !.todo = @ \ {sweep.row}, !.row = 0, !.session = 0]

\* Mutant: the row is left WAITING.
SweepStartedUnmarked ==
    /\ Starting
    /\ rows' = [rows EXCEPT ![sweep.row].session = sweep.session]
    /\ sweep' = NextRow
    /\ UNCHANGED <<power, plug, sessions, request, restarts>>

\* Mutant: the session is not linked.
SweepStartedUnlinked ==
    /\ Starting
    /\ rows' = [rows EXCEPT ![sweep.row] = Closed(@, "STARTED")]
    /\ sweep' = NextRow
    /\ UNCHANGED <<power, plug, sessions, request, restarts>>

\* ON is published and the row is marked, whatever its status is by now.
SweepStarted ==
    /\ Starting
    /\ rows' = [rows EXCEPT ![sweep.row] = [Closed(@, "STARTED") EXCEPT !.session = sweep.session]]
    /\ sweep' = NextRow
    /\ UNCHANGED <<power, plug, sessions, request, restarts>>

\* The publish fails: begin_active_session undoes the claim ...
SweepUndo ==
    /\ Starting
    /\ sessions' = [sessions EXCEPT ![sweep.session].status = "CANCELLED"]
    /\ plug' = [plug EXCEPT ![rows[sweep.row].plug] = "AVAILABLE"]
    /\ sweep' = [sweep EXCEPT !.at = "undone"]
    /\ UNCHANGED <<power, rows, request, restarts>>

\* ... and the sweep gives the row up.
SweepGaveUp ==
    /\ sweep.at = "undone"
    /\ rows' = [rows EXCEPT ![sweep.row] = Closed(@, "FAILED")]
    /\ sweep' = NextRow
    /\ UNCHANGED <<power, plug, sessions, request, restarts>>

\* The process dies: requests and sweep are gone, the tables are not.
Restart ==
    /\ restarts < MaxRestarts /\ restarts' = restarts + 1
    /\ request' = [r \in Requests |-> NoRequest] /\ sweep' = NoSweep
    /\ UNCHANGED <<power, plug, rows, sessions>>

SweepRow(i) ==
    \/ \E choice \in BOOLEAN : SweepSkip(i, choice) \/ SweepExpire(i, choice)
    \/ SweepFail(i) \/ SweepBegin(i)

SweepPublish == SweepStarted \/ SweepUndo \/ SweepGaveUp

Sweep == SweepScan \/ SweepPublish \/ \E i \in DOMAIN rows : SweepRow(i)

Next ==
    \/ \E p \in Plugs : PowerLost(p) \/ DebounceElapses(p) \/ PowerReturns(p)
    \/ \E r \in Requests : QueueInsert(r) \/ \E u \in Users, p \in Plugs : QueueCheck(r, u, p)
    \/ \E i \in DOMAIN rows : CancelQueued(i) \/ Lapse(i)
    \/ \E u \in Users, p \in Plugs : WalkUpStart(u, p)
    \/ \E s \in DOMAIN sessions : StopSession(s)
    \/ Sweep
    \/ Restart

Spec == Init /\ [][Next]_vars

\* The reaper runs every REAPER_INTERVAL and processes each row it scanned; the
\* clock reaches expires_at.
FairSpec ==
    /\ Spec /\ WF_vars(Sweep)
    /\ \A i \in 1..MaxRows : WF_vars(i \in DOMAIN rows /\ Lapse(i))
-----------------------------------------------------------------------------
(* Properties *)

\* The state stays within the columns' domains.
TypeOK ==
    /\ power \in [Plugs -> PlugPower]
    /\ plug \in [Plugs -> {"AVAILABLE", "OCCUPIED"}]
    /\ \A i \in DOMAIN rows : rows[i] \in QueuedCharge /\ rows[i].session <= Len(sessions)
    /\ \A s \in DOMAIN sessions : sessions[s] \in ChargingSession
    /\ sweep.todo \subseteq DOMAIN rows

\* A driver never has two live queued charges on a plug, however the requests race.
OneWaitingPerPlug ==
    \A i, j \in DOMAIN rows :
        Waiting(i) /\ Waiting(j) /\ rows[i].user = rows[j].user /\ rows[i].plug = rows[j].plug
            => i = j

\* The queue cap is counted without a lock.  A driver is past it only while a
\* row waits that was inserted under another request of the driver.
QueueCapUncontended ==
    \A u \in Users : Cardinality(WaitingOf(u)) > MaxQueued =>
        \E i \in WaitingOf(u) : rows[i].contended

\* An automatic start never takes a driver past the cap on concurrent sessions.
AutoStartWithinCap == \A u \in Users : Cardinality(ActiveOf(u)) <= MaxActive

\* A queued charge starts one session; only a restart between the session's
\* commit and the write that marks the row lets it start another.
StartedOnce ==
    \A i \in DOMAIN rows :
        Cardinality({s \in DOMAIN sessions : sessions[s].row = i}) <= 1 + restarts

\* A started row leads to the session that was begun for it.
StartedLinks ==
    \A i \in DOMAIN rows : rows[i].status = "STARTED" =>
        /\ rows[i].session # 0
        /\ sessions[rows[i].session].row = i

\* A cancelled charge stays cancelled and is not started, unless its start was
\* being published when the cancellation was accepted.
CancelSticks ==
    [][\A i \in DOMAIN rows : rows[i].status = "CANCELLED" /\ sweep.row # i =>
           rows'[i].status = "CANCELLED" /\ sweep'.row # i]_vars

\* Every queued charge comes to an end: started, cancelled, failed or expired.
QueueDrains ==
    \A i \in 1..MaxRows :
        (i \in DOMAIN rows /\ Waiting(i)) ~> (i \in DOMAIN rows /\ ~Waiting(i))

\* The queue stays consistent under racing requests, a sweep that publishes
\* between its commits, and restarts: one live row per driver and plug, the two
\* caps, and one session per row, to which the row leads.
QueueConsistent ==
    /\ TypeOK /\ OneWaitingPerPlug /\ QueueCapUncontended
    /\ AutoStartWithinCap /\ StartedOnce /\ StartedLinks
=============================================================================
