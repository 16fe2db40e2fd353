------------------------------- MODULE Notices -------------------------------
(***************************************************************************)
(* The one-shot notices of a charging site: "notify me when free" watches  *)
(* and capacity requests, the fan-outs that answer them when a plug or the *)
(* circuit frees, the access to a private group they depend on, the feed   *)
(* and the push subscriptions (services/plug_watch.py,                     *)
(* services/capacity.py, services/notifications.py, routers/plugs.py,      *)
(* routers/groups.py, routers/cpo/_groups.py, routers/notifications.py).   *)
(*                                                                         *)
(* All plugs are on one circuit, the group, and draw one unit of current.  *)
(* A request is cut between its checks and its insert; a fan-out is cut at *)
(* each of its reads, notices and deletes.  A session appears here as the  *)
(* driver who holds the plug.                                              *)
(***************************************************************************)
EXTENDS Integers, FiniteSets

CONSTANTS
    Drivers, Plugs, Endpoints,
    Callers,    \* drivers' requests in flight at once
    Tasks,      \* fan-outs under way at once
    Nobody,     \* no user
    MaxSubs,    \* MAX_PUSH_SUBSCRIPTIONS_PER_USER
    Caps,       \* values the operator gives max_current_a; 0 clears it
    MaxRows, MaxEvents  \* bounds: rows ever armed, requests and events in all

ASSUME NoticesAssumption ==
    /\ Plugs # {} /\ Nobody \notin Drivers
    /\ Caps \subseteq Nat /\ MaxSubs \in Nat
    /\ MaxRows \in Nat /\ MaxEvents \in Nat

VARIABLES
    status,  \* plugs.status: [Plugs -> ...]
    driver,  \* the driver of the plug's ACTIVE session, or Nobody
    live,    \* gateway_is_live
    group,   \* "public", "private" or "deleted"
    cap,     \* charger_groups.max_current_a, 0 for NULL
    member,  \* group_memberships rows of each user
    rows,    \* plug_watches, user_favorites and capacity_requests
    asked,   \* [Callers -> a request whose checks have passed]
    task,    \* [Tasks -> the fan-out a task is running]
    feed,    \* notifications of each user: [unread, read]
    sub,     \* push_subscriptions: [Endpoints -> owner]
    dead,    \* endpoints the push service has dropped
    events,  \* requests and events so far, bounded by MaxEvents
    \* History, read by no action:
    told,    \* notices sent for each row
    failed,  \* rows whose notice could not be persisted
    doubled, \* rows a second fan-out read before the first had deleted them
    owed     \* rows a committed change owes a notice

site == <<status, driver, live, group, cap, member>>
people == <<asked, feed, sub, dead>>
history == <<told, failed, doubled>>
noticesVars == <<site, rows, people, task, events, history, owed>>

Ids == 1 .. MaxRows
NoRow == [state |-> "none", kind |-> "watch", user |-> Nobody, plug |-> Nobody]
Resting == [op |-> "idle"]
Event == events < MaxEvents /\ events' = events + 1
Armed(kind) == {i \in Ids : rows[i].state = "armed" /\ rows[i].kind = kind}
Mine(kind, u, p) == {i \in Armed(kind) : rows[i].user = u /\ rows[i].plug = p}

\* circuit_load_a and effective_plug_cap, in plugs.
Load(d) == Cardinality({p \in Plugs : d[p] # Nobody})
Fits(d, c) == c > 0 /\ Load(d) + 1 <= c

\* ensure_plug_group_access.  There is no unique index on a membership; with
\* two rows the lookup raises, so only exactly one grants access.
Access(u) == group = "private" => member[u] = 1

-----------------------------------------------------------------------------
(* Arming and disarming.                                                   *)

Ask(r, request) ==
    /\ asked[r] = Resting
    /\ Event
    /\ asked' = [asked EXCEPT ![r] = request]
    /\ UNCHANGED <<site, rows, feed, sub, dead, task, history, owed>>

WatchPlug(r, u, p) ==
    /\ Access(u)
    /\ ~(status[p] = "available" /\ live)
    /\ Ask(r, [op |-> "watch", user |-> u, plug |-> p])

RequestCapacity(r, u, p) ==
    /\ Access(u)
    /\ group # "deleted"
    /\ cap > 0
    /\ ~Fits(driver, cap)
    /\ Ask(r, [op |-> "capacity", user |-> u, plug |-> p])

\* Mutant: no unique key on the watch.
ArmAgain(kind, u, p) ==
    LET next == Cardinality({i \in Ids : rows[i].state # "none"}) + 1 IN
    /\ next \in Ids
    /\ rows' = [rows EXCEPT ![next] =
                  [state |-> "armed", kind |-> kind, user |-> u, plug |-> p]]

\* A row is inserted once: UNIQUE(user_id, plug_id), and the handlers swallow
\* the conflict.
Arm(kind, u, p) ==
    LET next == Cardinality({i \in Ids : rows[i].state # "none"}) + 1 IN
    IF Mine(kind, u, p) # {} THEN UNCHANGED rows
    ELSE /\ next \in Ids
         /\ rows' = [rows EXCEPT ![next] =
                       [state |-> "armed", kind |-> kind, user |-> u, plug |-> p]]

\* The insert; a capacity request for a group deleted meanwhile breaks its
\* foreign key and is dropped.
Insert(r) ==
    /\ asked[r].op \in {"watch", "capacity"}
    /\ IF asked[r].op = "capacity" /\ group = "deleted" THEN UNCHANGED rows
       ELSE Arm(asked[r].op, asked[r].user, asked[r].plug)
    /\ asked' = [asked EXCEPT ![r] = Resting]
    /\ UNCHANGED <<site, feed, sub, dead, task, events, history, owed>>

\* A favourite waits for nothing, so its check and its insert are one step.
FavoritePlug(u, p) ==
    /\ Access(u)
    /\ Event
    /\ Arm("favorite", u, p)
    /\ UNCHANGED <<site, people, task, history, owed>>

\* Nothing disarms a capacity request.
Disarm(u, p, kind) ==
    /\ Event
    /\ Mine(kind, u, p) # {}
    /\ rows' = [i \in Ids |->
                  IF i \in Mine(kind, u, p) THEN [rows[i] EXCEPT !.state = "dropped"]
                  ELSE rows[i]]
    /\ owed' = owed \ Mine(kind, u, p)
    /\ UNCHANGED <<site, people, task, history>>

\* No access check: a driver who left the group still clears what is theirs.
UnwatchPlug(u, p) == Disarm(u, p, "watch")
UnfavoritePlug(u, p) == Disarm(u, p, "favorite")

-----------------------------------------------------------------------------
(* The plugs change state.                                                 *)

\* A row is owed a notice when the change that frees its plug or its circuit
\* commits, until it is told, disarmed or no longer fits.
Fitting(d, c) == IF Fits(d, c) THEN Armed("capacity") ELSE {}
StillOwed(d, c) == {i \in owed : rows[i].kind = "watch" \/ Fits(d, c)}

StartSession(u, p) ==
    /\ Event
    /\ Access(u)
    /\ status[p] = "available" /\ live
    /\ group # "deleted" /\ cap > 0 => Fits(driver, cap)
    /\ status' = [status EXCEPT ![p] = "occupied"]
    /\ driver' = [driver EXCEPT ![p] = u]
    /\ owed' = StillOwed(driver', cap)
    /\ UNCHANGED <<live, group, cap, member, rows, people, task, history>>

\* finalize_charging_session after its commit: watchers, then the circuit,
\* except for the driver who just finished.
FinalizeSession(t, p) ==
    /\ task[t] = Resting
    /\ driver[p] # Nobody
    /\ Event
    /\ status' = [status EXCEPT ![p] = "available"]
    /\ driver' = [driver EXCEPT ![p] = Nobody]
    /\ task' = [task EXCEPT ![t] =
                  [op |-> "watchers", plug |-> p, skip |-> driver[p], circuit |-> TRUE]]
    /\ owed' = owed \cup {i \in Armed("watch") : rows[i].plug = p /\ rows[i].user # driver[p]}
                    \cup {i \in Fitting(driver', cap) : rows[i].user # driver[p]}
    /\ UNCHANGED <<live, group, cap, member, rows, people, history>>

MaintenanceEnter(p) ==
    /\ status[p] # "maintenance"
    /\ Event
    /\ status' = [status EXCEPT ![p] = "maintenance"]
    /\ UNCHANGED <<driver, live, group, cap, member, rows, people, task, history, owed>>

MaintenanceClear(t, p) ==
    /\ task[t] = Resting
    /\ status[p] # "available"
    /\ driver[p] = Nobody
    /\ Event
    /\ status' = [status EXCEPT ![p] = "available"]
    /\ task' = [task EXCEPT ![t] =
                  [op |-> "watchers", plug |-> p, skip |-> Nobody, circuit |-> FALSE]]
    /\ owed' = owed \cup {i \in Armed("watch") : rows[i].plug = p}
    /\ UNCHANGED <<driver, live, group, cap, member, rows, people, history>>

GatewayFlaps ==
    /\ Event
    /\ live' = ~live
    /\ UNCHANGED <<status, driver, group, cap, member, rows, people, task, history, owed>>

-----------------------------------------------------------------------------
(* The fan-out to watchers, then to the circuit.                           *)

Continue(t, stage) == task' = [task EXCEPT ![t] = stage]

\* Mutant: the circuit is forgotten once the watchers are told.
StopAfterWatchers(t) == Resting

\* After the watchers comes the circuit, when a session ended.
AfterWatchers(t) ==
    IF task[t].circuit
    THEN [op |-> "requests", skip |-> task[t].skip]
    ELSE Resting

\* The rows a task has read and not yet deleted (history).
InHand(t) ==
    CASE task[t].op \in {"load", "notify"} -> task[t].read
      [] task[t].op = "push" -> task[t].then.read
      [] OTHER -> {}

Reading(t, read) ==
    doubled' = doubled \cup (read \cap UNION {InHand(s) : s \in Tasks \ {t}})

Watchers(t) == {i \in Armed("watch") : rows[i].plug = task[t].plug /\ rows[i].user # task[t].skip}
Requests(t) == {i \in Armed("capacity") : rows[i].user # task[t].skip}

WatchersRead(t) ==
    /\ task[t].op = "watchers"
    /\ LET read == Watchers(t) IN
         /\ IF read = {} THEN Continue(t, AfterWatchers(t))
            ELSE Continue(t, [op |-> "notify", read |-> read, left |-> read,
                              then |-> AfterWatchers(t)])
         /\ Reading(t, read)
    /\ UNCHANGED <<site, rows, people, events, told, failed, owed>>

\* notify_capacity_available: the group and its requests, then the load.
RequestsRead(t) ==
    /\ task[t].op = "requests"
    /\ LET read == Requests(t) IN
         IF group = "deleted" \/ cap = 0 \/ read = {}
         THEN Continue(t, Resting) /\ UNCHANGED doubled
         ELSE Continue(t, [op |-> "load", read |-> read, cap |-> cap]) /\ Reading(t, read)
    /\ UNCHANGED <<site, rows, people, events, told, failed, owed>>

LoadRead(t) ==
    /\ task[t].op = "load"
    /\ LET fits == IF Fits(driver, task[t].cap) THEN task[t].read ELSE {} IN
         IF fits = {} THEN Continue(t, Resting)
         ELSE Continue(t, [op |-> "notify", read |-> fits, left |-> fits, then |-> Resting])
    /\ UNCHANGED <<site, rows, people, events, history, owed>>

\* notify: the feed row is committed by itself; a failure is swallowed.
\* Then the user's subscriptions are read for the push.
Notify(t, i, persisted) ==
    /\ task[t].op = "notify"
    /\ i \in task[t].left
    /\ LET u == rows[i].user IN
         /\ IF persisted
            THEN /\ told' = [told EXCEPT ![i] = @ + 1]
                 /\ feed' = [feed EXCEPT ![u].unread = @ + 1]
                 /\ UNCHANGED failed
            ELSE failed' = failed \cup {i} /\ UNCHANGED <<told, feed>>
         /\ Continue(t, [op |-> "push",
                         subs |-> IF persisted THEN {e \in Endpoints : sub[e] = u} ELSE {},
                         then |-> [task[t] EXCEPT !.left = @ \ {i}]])
    /\ owed' = owed \ {i}
    /\ UNCHANGED <<site, rows, asked, sub, dead, events, doubled>>

\* _push_to_user: what the push service reports gone is pruned by id.
Push(t) ==
    /\ task[t].op = "push"
    /\ sub' = [e \in Endpoints |-> IF e \in task[t].subs \cap dead THEN Nobody ELSE sub[e]]
    /\ Continue(t, task[t].then)
    /\ UNCHANGED <<site, rows, asked, feed, dead, events, history, owed>>

\* Mutant: every row of the same kind is deleted, told or not.
ClearedOfKind(t) ==
    {i \in Ids : rows[i].kind \in {rows[j].kind : j \in task[t].read}}

\* Exactly the rows fanned out are deleted.
Cleared(t) == task[t].read

\* Mutant: the rows told stay armed.
FanOutKeeps(t) ==
    /\ task[t].op = "notify"
    /\ task[t].left = {}
    /\ owed' = owed \ Cleared(t)
    /\ Continue(t, task[t].then)
    /\ UNCHANGED <<site, rows, people, events, history>>

FanOutClear(t) ==
    /\ task[t].op = "notify"
    /\ task[t].left = {}
    /\ rows' = [i \in Ids |->
                  IF i \in Cleared(t) /\ rows[i].state = "armed"
                  THEN [rows[i] EXCEPT !.state = "fired"] ELSE rows[i]]
    /\ owed' = owed \ Cleared(t)
    /\ Continue(t, task[t].then)
    /\ UNCHANGED <<site, people, events, history>>

\* A statement of the fan-out fails: rolled back and logged, the rows stay and
\* the caller goes on with the next stage.
FanOutFails(t) ==
    /\ Event
    /\ \/ /\ task[t].op = "watchers"
          /\ Continue(t, AfterWatchers(t))
          /\ owed' = owed \ Watchers(t)
       \/ /\ task[t].op \in {"requests", "load"}
          /\ Continue(t, Resting)
          /\ owed' = owed \ (IF task[t].op = "load" THEN task[t].read ELSE Requests(t))
       \/ /\ task[t].op = "notify" /\ task[t].left = {}
          /\ Continue(t, task[t].then)
          /\ owed' = owed \ task[t].read
    /\ doubled' = doubled \cup {i \in InHand(t) : told[i] > 0}
    /\ UNCHANGED <<site, rows, people, told, failed>>

\* The process dies: fan-outs and requests in flight are lost.
BackendRestarts ==
    /\ \E t \in Tasks : task[t] # Resting
    /\ Event
    /\ task' = [t \in Tasks |-> Resting]
    /\ asked' = [r \in Callers |-> Resting]
    /\ owed' = {}
    /\ doubled' = doubled \cup {i \in UNION {InHand(t) : t \in Tasks} : told[i] > 0}
    /\ UNCHANGED <<site, rows, feed, sub, dead, told, failed>>

-----------------------------------------------------------------------------
(* The group.                                                              *)

JoinGroup(r, u) ==
    /\ group = "private"
    /\ member[u] = 0
    /\ Ask(r, [op |-> "join", user |-> u])

JoinInsert(r) ==
    /\ asked[r].op = "join"
    /\ asked' = [asked EXCEPT ![r] = Resting]
    /\ member' = IF group = "deleted" THEN member
                 ELSE [member EXCEPT ![asked[r].user] = @ + 1]
    /\ UNCHANGED <<status, driver, live, group, cap, rows, feed, sub, dead, task, events, history, owed>>

\* leave_group; with two rows the lookup raises.
LeaveGroup(u) ==
    /\ member[u] = 1
    /\ Event
    /\ member' = [member EXCEPT ![u] = 0]
    /\ UNCHANGED <<status, driver, live, group, cap, rows, people, task, history, owed>>

RemoveGroupMember(u) == group # "deleted" /\ LeaveGroup(u)

\* cpo_update_group: the cap is written and the waiting drivers are told.
UpdateCap(t, c) ==
    /\ task[t] = Resting
    /\ group # "deleted"
    /\ Event
    /\ cap' = c
    /\ task' = [task EXCEPT ![t] = [op |-> "requests", skip |-> Nobody]]
    /\ owed' = StillOwed(driver, c) \cup Fitting(driver, c)
    /\ UNCHANGED <<status, driver, live, group, member, rows, people, history>>

UpdateGroup ==
    /\ group # "deleted"
    /\ Event
    /\ group' = IF group = "public" THEN "private" ELSE "public"
    /\ UNCHANGED <<status, driver, live, cap, member, rows, people, task, history, owed>>

\* cpo_delete_group: plugs are unlinked; memberships and requests cascade.
DeleteGroup ==
    /\ group # "deleted"
    /\ Event
    /\ group' = "deleted"
    /\ cap' = 0
    /\ member' = [u \in Drivers |-> 0]
    /\ rows' = [i \in Ids |-> IF i \in Armed("capacity")
                              THEN [rows[i] EXCEPT !.state = "dropped"] ELSE rows[i]]
    /\ owed' = StillOwed(driver, 0)
    /\ UNCHANGED <<status, driver, live, people, task, history>>

-----------------------------------------------------------------------------
(* The feed and the push subscriptions.                                    *)

MarkAllRead(u) ==
    /\ Event
    /\ feed[u].unread > 0
    /\ feed' = [feed EXCEPT ![u] = [unread |-> 0, read |-> @.read + @.unread]]
    /\ UNCHANGED <<site, rows, asked, sub, dead, task, history, owed>>

MarkRead(u) ==
    /\ Event
    /\ feed[u].unread > 0
    /\ feed' = [feed EXCEPT ![u] = [unread |-> @.unread - 1, read |-> @.read + 1]]
    /\ UNCHANGED <<site, rows, asked, sub, dead, task, history, owed>>

\* A browser that changed hands moves to whoever subscribes last.
\* Only a new row counts against the cap on subscriptions.
PushSubscribe(u, e) ==
    /\ sub[e] # u
    /\ sub[e] = Nobody => Cardinality({f \in Endpoints : sub[f] = u}) < MaxSubs
    /\ Event
    /\ sub' = [sub EXCEPT ![e] = u]
    /\ UNCHANGED <<site, rows, asked, feed, dead, task, history, owed>>

PushUnsubscribe(u, e) ==
    /\ Event
    /\ sub[e] = u
    /\ sub' = [sub EXCEPT ![e] = Nobody]
    /\ UNCHANGED <<site, rows, asked, feed, dead, task, history, owed>>

EndpointDies(e) ==
    /\ Event
    /\ sub[e] # Nobody
    /\ dead' = dead \cup {e}
    /\ e \notin dead
    /\ UNCHANGED <<site, rows, asked, feed, sub, task, history, owed>>

-----------------------------------------------------------------------------
NoticesInit ==
    /\ driver \in [Plugs -> Drivers \cup {Nobody}]
    /\ status = [p \in Plugs |-> IF driver[p] = Nobody THEN "available" ELSE "occupied"]
    /\ live = TRUE
    /\ group = "public"
    /\ cap \in {c \in Caps : c > 0 => Load(driver) <= c}
    /\ member = [u \in Drivers |-> 0]
    /\ rows = [i \in Ids |-> NoRow]
    /\ asked = [r \in Callers |-> Resting]
    /\ task = [t \in Tasks |-> Resting]
    /\ feed = [u \in Drivers |-> [unread |-> 0, read |-> 0]]
    /\ sub = [e \in Endpoints |-> Nobody]
    /\ dead = {}
    /\ events = 0
    /\ told = [i \in Ids |-> 0]
    /\ failed = {} /\ doubled = {} /\ owed = {}

FanOut(t) ==
    \/ WatchersRead(t) \/ RequestsRead(t) \/ LoadRead(t)
    \/ \E i \in Ids, persisted \in BOOLEAN : Notify(t, i, persisted)
    \/ Push(t) \/ FanOutClear(t)

Driver(u) ==
    \/ \E r \in Callers :
         \/ JoinGroup(r, u)
         \/ \E p \in Plugs :
              WatchPlug(r, u, p) \/ RequestCapacity(r, u, p)
    \/ \E p \in Plugs :
         \/ StartSession(u, p) \/ FavoritePlug(u, p)
         \/ UnwatchPlug(u, p) \/ UnfavoritePlug(u, p)
    \/ LeaveGroup(u)
    \/ MarkRead(u) \/ MarkAllRead(u)
    \/ \E e \in Endpoints : PushSubscribe(u, e) \/ PushUnsubscribe(u, e)

NoticesNext ==
    \/ \E t \in Tasks :
         \/ FanOut(t) \/ FanOutFails(t)
         \/ \E p \in Plugs : FinalizeSession(t, p) \/ MaintenanceClear(t, p)
         \/ \E c \in Caps : UpdateCap(t, c)
    \/ \E u \in Drivers : Driver(u) \/ RemoveGroupMember(u)
    \/ \E r \in Callers : Insert(r) \/ JoinInsert(r)
    \/ \E p \in Plugs : MaintenanceEnter(p)
    \/ \E e \in Endpoints : EndpointDies(e)
    \/ UpdateGroup \/ DeleteGroup \/ GatewayFlaps \/ BackendRestarts

\* A fan-out is a coroutine of a running process: each of its awaits returns.
Fairness == \A t \in Tasks : WF_noticesVars(FanOut(t))
NoticesSpec == NoticesInit /\ [][NoticesNext]_noticesVars /\ Fairness

-----------------------------------------------------------------------------
(* Properties                                                              *)

\* Type invariant; at most one armed row per user, plug and kind.
NoticesTypeOK ==
    /\ status \in [Plugs -> {"available", "occupied", "maintenance"}]
    /\ driver \in [Plugs -> Drivers \cup {Nobody}]
    /\ group \in {"public", "private", "deleted"}
    /\ cap \in Caps \cup {0}
    /\ \A i \in Ids : rows[i].state \in {"none", "armed", "fired", "dropped"}
    /\ \A u \in Drivers, p \in Plugs : \A kind \in {"watch", "favorite", "capacity"} :
         Cardinality(Mine(kind, u, p)) <= 1
    /\ \A t \in Tasks : task[t].op \in {"idle", "watchers", "requests", "load", "notify", "push"}

\* A fan-out never takes away what it did not answer: a watch armed in the
\* middle of one, the finishing driver's own and every favourite survive.  The
\* only silent loss is a notice that could not be persisted.
FiredWasTold ==
    \A i \in Ids : rows[i].state = "fired"
       => rows[i].kind # "favorite" /\ (told[i] > 0 \/ i \in failed)

\* A waiting driver hears once, unless a second fan-out read the row before
\* the first had deleted it, or the delete failed or was lost in a crash.
ToldOnce == \A i \in Ids : told[i] > 1 => i \in doubled

\* Whoever was waiting when a session's end, a cleared maintenance or a raised
\* cap committed is told, or disarms, or loses the room again, or the fan-out
\* itself is lost.
OwedIsPaid == \A i \in Ids : (i \in owed) ~> (i \notin owed)

\* Every row that a fan-out takes away was answered, and answered once, while
\* rows are armed and dropped under it (notify_watchers_plug_available,
\* notify_capacity_available).
AnsweredOnce == NoticesTypeOK /\ FiredWasTold /\ ToldOnce
=============================================================================
