----------------------------- MODULE GatewayLink -----------------------------
(***************************************************************************)
(* The link between the backend and one gateway: the retained status topic *)
(* and the telemetry that feed gateways.status, the delayed notice to      *)
(* drivers, and the OFF commands that keep a relay from staying on with no *)
(* session behind it.                                                      *)
(*                                                                         *)
(* Messages reach the backend in order, and each starts a coroutine of its *)
(* own; the coroutines interleave at every await.  A coroutine reads the   *)
(* gateway row without a lock and writes it later, and only if the value   *)
(* it read differs.  Telemetry writes the row too, but only one frame per  *)
(* GATEWAY_SEEN_BUMP_INTERVAL_SEC.  A command reaches the relay if the     *)
(* link is up, and is lost otherwise.                                      *)
(***************************************************************************)
EXTENDS Naturals, Sequences

CONSTANTS
    Plugs,
    Tasks,       \* the coroutines that can be in flight together
    MaxWire,     \* bound: messages on the way
    MaxEvents    \* bound: link failures, replays and restarts

ASSUME GatewayLinkAssumption == MaxWire \in Nat /\ MaxEvents \in Nat

VARIABLES
    up,        \* the gateway is connected to the broker
    relay,     \* the relays that are on
    wire,      \* messages on the way to the backend
    retained,  \* the retained message of the status topic
    status,    \* gateways.status
    window,    \* a frame has refreshed the gateway less than a minute ago
    task,      \* the coroutines
    notice,    \* the pending offline notice
    told,      \* history: notices of the present outage that were sent
    torn,      \* history: handlers overlapped, and none has stored alone since
    last,      \* history: what the last message says of the gateway
    session,   \* the plugs' ACTIVE sessions
    held,      \* plugs with a WAITING queued charge in its debounce
    events

vars == <<up, relay, wire, retained, status, window, task, notice, told, torn, last, session, held, events>>
gateway == <<up, relay, retained>>
history == <<told, torn, last>>
charging == <<session, held>>

StatusMsg(word) == [kind |-> "status", word |-> word]
FrameMsg(p) == [kind |-> "frame", plug |-> p, on |-> p \in relay]
Message == [kind : {"status"}, word : {"online", "offline"}]
             \cup [kind : {"frame"}, plug : Plugs, on : BOOLEAN]

IsOnline(msg) == msg = StatusMsg("online")
IsFrame(msg) == msg.kind = "frame"

\* What the handlers store: a frame proves that the gateway is alive.
Says(msg) == IF IsOnline(msg) \/ IsFrame(msg) THEN "ONLINE" ELSE "OFFLINE"

\* was is the status the coroutine read; active is the snapshot of the orphan
\* sweep and since is history, the plugs on which a session began after it.
NoTask == [at |-> "idle"]
Task(at, msg) == [at |-> at, msg |-> msg, was |-> status, active |-> {}, since |-> {}]

\* back is history: the gateway came back after the notice read OFFLINE.
NoNotice == [at |-> "none", back |-> FALSE]

Active(p) == session[p] # "none"
Switch(S) == IF up THEN relay \ S ELSE relay
-----------------------------------------------------------------------------
Init ==
    /\ up = FALSE /\ relay = {} /\ wire = <<>> /\ retained = "none"
    /\ status = "OFFLINE" /\ window = FALSE /\ task = [t \in Tasks |-> NoTask] /\ notice = NoNotice
    /\ told = 1 /\ torn = FALSE /\ last = "OFFLINE"
    /\ session = [p \in Plugs |-> "none"] /\ held = {} /\ events = 0
-----------------------------------------------------------------------------
(* The gateway and the broker *)

\* The gateway connects and publishes its retained `online'.
Connect ==
    /\ ~up /\ Len(wire) < MaxWire /\ up' = TRUE
    /\ retained' = "online" /\ wire' = Append(wire, StatusMsg("online"))
    /\ UNCHANGED <<relay, status, window, task, notice, history, charging, events>>

\* The connection is lost and the broker publishes the last will.
Disconnect ==
    /\ up /\ Len(wire) < MaxWire /\ events < MaxEvents /\ events' = events + 1 /\ up' = FALSE
    /\ retained' = "offline" /\ wire' = Append(wire, StatusMsg("offline"))
    /\ UNCHANGED <<relay, status, window, task, notice, history, charging>>

\* Telemetry of a plug, with the state of its relay.
SendFrame(p) ==
    /\ up /\ Len(wire) < MaxWire /\ wire' = Append(wire, FrameMsg(p))
    /\ UNCHANGED <<gateway, status, window, task, notice, history, charging, events>>

\* _on_connect subscribes again, and the broker replays the retained status.
Replay ==
    /\ retained # "none" /\ Len(wire) < MaxWire /\ events < MaxEvents /\ events' = events + 1
    /\ wire' = Append(wire, StatusMsg(retained))
    /\ UNCHANGED <<gateway, status, window, task, notice, history, charging>>

\* The backend dies: coroutines and the pending notice are lost, and what was
\* on the way, and the window; stop cancels the notice too.  The replay follows.
Restart ==
    /\ retained # "none" /\ events < MaxEvents /\ events' = events + 1
    /\ task' = [t \in Tasks |-> NoTask] /\ notice' = NoNotice /\ window' = FALSE
    /\ wire' = <<StatusMsg(retained)>>
    /\ session' = [p \in Plugs |-> IF Active(p) THEN "active" ELSE "none"]
    /\ torn' = TRUE /\ last' = Says(StatusMsg(retained))
    /\ UNCHANGED <<gateway, status, told, held>>
-----------------------------------------------------------------------------
(* Status and telemetry handlers *)

\* A handler has read the status and not yet stored it, armed or cancelled.
Unsettled == \E t \in Tasks : task[t].at \in {"read", "online", "offline"}

\* The next message reaches _on_message.
Receive ==
    /\ wire # <<>> /\ wire' = Tail(wire) /\ last' = Says(Head(wire))
    /\ UNCHANGED <<gateway, status, notice, told, charging, events>>

\* A handler that will store the status starts; if it is alone, it will repair
\* what handlers that overlapped have left.
Torn == Unsettled \/ (torn /\ notice.at # "none")

\* _handle_gateway_status hands the message to the event loop; the coroutine
\* reads the gateway row.
Deliver(t) ==
    /\ Receive /\ ~IsFrame(Head(wire)) /\ task[t] = NoTask
    /\ task' = [task EXCEPT ![t] = Task("read", Head(wire))]
    /\ torn' = Torn /\ UNCHANGED window

\* _handle_gateway_telemetry starts _persist_telemetry; inside the window
\* _should_bump_gateway_seen says no.
DeliverFrame(t) ==
    /\ Receive /\ IsFrame(Head(wire)) /\ window /\ task[t] = NoTask
    /\ task' = [task EXCEPT ![t] = Task("frame", Head(wire))]
    /\ UNCHANGED <<torn, window>>

\* The first frame after it starts _persist_gateway_seen as well.
DeliverSeen(t, u) ==
    /\ Receive /\ IsFrame(Head(wire)) /\ ~window
    /\ t # u /\ task[t] = NoTask /\ task[u] = NoTask
    /\ task' = [task EXCEPT ![t] = Task("frame", Head(wire)), ![u] = Task("read", Head(wire))]
    /\ torn' = Torn /\ window' = TRUE

\* A minute has passed.
WindowEnds ==
    /\ window /\ window' = FALSE
    /\ UNCHANGED <<gateway, wire, status, task, notice, history, charging, events>>

\* Mutant: every `offline' counts, a replayed one too.
BecameOfflineReplayed(k) == ~IsFrame(k.msg) /\ Says(k.msg) = "OFFLINE"

BecameOffline(k) == ~IsFrame(k.msg) /\ Says(k.msg) = "OFFLINE" /\ k.was = "ONLINE"

\* Where the coroutine goes once the status is stored.
AfterWrite(k) ==
    CASE IsOnline(k.msg) -> [k EXCEPT !.at = "online"]
      [] BecameOffline(k) -> [k EXCEPT !.at = "offline"]
      [] OTHER -> NoTask

\* Mutant: a frame leaves a gateway that is stored OFFLINE as it is.
StoreStatusUnhealed(t) ==
    LET k == task[t] IN
    /\ k.at = "read"
    /\ status' = IF IsFrame(k.msg) \/ k.was = Says(k.msg) THEN status ELSE Says(k.msg)
    /\ told' = IF status' = "ONLINE" THEN 0 ELSE told
    /\ notice' = [notice EXCEPT !.back = @ \/ (notice.at = "due" /\ status' = "ONLINE")]
    /\ task' = [task EXCEPT ![t] = AfterWrite(k)]
    /\ UNCHANGED <<gateway, wire, window, torn, last, charging, events>>

\* _persist_gateway_status, and _persist_gateway_seen for a frame, commit.
StoreStatus(t) ==
    LET k == task[t] IN
    /\ k.at = "read"
    /\ status' = IF k.was = Says(k.msg) THEN status ELSE Says(k.msg)
    /\ told' = IF status' = "ONLINE" THEN 0 ELSE told
    /\ notice' = [notice EXCEPT !.back = @ \/ (notice.at = "due" /\ status' = "ONLINE")]
    /\ task' = [task EXCEPT ![t] = AfterWrite(k)]
    /\ UNCHANGED <<gateway, wire, window, torn, last, charging, events>>

\* _schedule_offline_notice, on a transition only; replaces a pending one.
ArmNotice(t) ==
    /\ task[t].at = "offline"
    /\ notice' = [at |-> "armed", back |-> FALSE]
    /\ task' = [task EXCEPT ![t] = NoTask]
    /\ UNCHANGED <<gateway, wire, status, window, history, charging, events>>

\* Any `online' drops the pending notice.
CancelNotice(t) ==
    /\ task[t].at = "online"
    /\ notice' = NoNotice
    /\ task' = [task EXCEPT ![t].at = "sweep"]
    /\ UNCHANGED <<gateway, wire, status, window, history, charging, events>>

\* Mutant: the notice goes out without a look at the stored status.
NoticeDueUnread ==
    /\ notice.at = "armed"
    /\ notice' = [notice EXCEPT !.at = "due"]
    /\ UNCHANGED <<gateway, wire, status, window, task, history, charging, events>>

\* _deferred_offline_notice wakes up and reads the gateway once more.
NoticeDue ==
    /\ notice.at = "armed"
    /\ notice' = IF status = "OFFLINE" THEN [notice EXCEPT !.at = "due"] ELSE NoNotice
    /\ UNCHANGED <<gateway, wire, status, window, task, history, charging, events>>

\* The notice leaves the pending map, out of reach of a cancellation, and the
\* drivers with an ACTIVE session are told.
NoticeSent ==
    /\ notice.at = "due"
    /\ notice' = NoNotice /\ told' = IF notice.back THEN told ELSE told + 1
    /\ UNCHANGED <<gateway, wire, status, window, task, torn, last, charging, events>>
-----------------------------------------------------------------------------
(* OFF commands *)

\* Mutant: a session that is still being published does not count.
SweepSnapshotRunning(t) ==
    /\ task[t].at = "sweep"
    /\ task' = [task EXCEPT ![t].at = "snapped", ![t].active = {p \in Plugs : session[p] = "active"}]
    /\ UNCHANGED <<gateway, wire, status, window, notice, history, charging, events>>

\* _republish_off_for_orphaned_plugs reads the plugs with an ACTIVE session ...
SweepSnapshot(t) ==
    /\ task[t].at = "sweep"
    /\ task' = [task EXCEPT ![t].at = "snapped", ![t].active = {p \in Plugs : Active(p)}]
    /\ UNCHANGED <<gateway, wire, status, window, notice, history, charging, events>>

\* ... and, once the query for queued charges has returned, sends the OFFs.
SweepPublish(t) ==
    /\ task[t].at = "snapped"
    /\ relay' = Switch(Plugs \ (task[t].active \cup held))
    /\ task' = [task EXCEPT ![t] = NoTask]
    /\ UNCHANGED <<up, wire, retained, status, window, notice, history, charging, events>>

\* Mutant: only a reconnect reconciles.
ReconcileNothing(t) ==
    /\ task[t].at = "frame"
    /\ task' = [task EXCEPT ![t] = NoTask]
    /\ UNCHANGED <<gateway, wire, status, window, notice, history, charging, events>>

\* _persist_telemetry: a relay that is on without an ACTIVE session gets an OFF.
Reconcile(t) ==
    LET msg == task[t].msg IN
    /\ task[t].at = "frame"
    /\ relay' = IF msg.on /\ ~Active(msg.plug) THEN Switch({msg.plug}) ELSE relay
    /\ task' = [task EXCEPT ![t] = NoTask]
    /\ UNCHANGED <<up, wire, retained, status, window, notice, history, charging, events>>
-----------------------------------------------------------------------------
(* Sessions, as far as the link sees them *)

\* The claim of begin_active_session.  gateway_is_live refuses a driver's own
\* start while the gateway is stored OFFLINE, but not that of a queued charge.
StartCommit(p) ==
    /\ ~Active(p)
    /\ session' = [session EXCEPT ![p] = "starting"]
    /\ task' = [t \in Tasks |-> IF task[t].at = "snapped"
                                THEN [task[t] EXCEPT !.since = @ \cup {p}] ELSE task[t]]
    /\ UNCHANGED <<gateway, wire, status, window, notice, history, held, events>>

\* Mutant: a status of its own for a start whose publish failed.
StartPublishFailed(p, sent) ==
    /\ session[p] = "starting"
    /\ session' = [session EXCEPT ![p] = IF sent THEN "active" ELSE "failed"]
    /\ relay' = IF sent /\ up THEN relay \cup {p} ELSE relay
    /\ UNCHANGED <<up, wire, retained, status, window, task, notice, history, held, events>>

\* ON is published, or is not and the claim is undone.
StartPublish(p, sent) ==
    /\ session[p] = "starting"
    /\ session' = [session EXCEPT ![p] = IF sent THEN "active" ELSE "none"]
    /\ relay' = IF sent /\ up THEN relay \cup {p} ELSE relay
    /\ UNCHANGED <<up, wire, retained, status, window, task, notice, history, held, events>>

\* finalize_charging_session; its OFF may fail on the way.
Stop(p, sent) ==
    /\ session[p] = "active"
    /\ session' = [session EXCEPT ![p] = "none"]
    /\ relay' = IF sent THEN Switch({p}) ELSE relay
    /\ UNCHANGED <<up, wire, retained, status, window, task, notice, history, held, events>>

\* A charge is queued on the plug, or its debounce ends.
Queue(p) ==
    /\ held' = IF p \in held THEN held \ {p} ELSE held \cup {p}
    /\ UNCHANGED <<gateway, wire, status, window, task, notice, history, session, events>>

Step(t) ==
    \/ StoreStatus(t) \/ ArmNotice(t) \/ CancelNotice(t)
    \/ SweepSnapshot(t) \/ SweepPublish(t) \/ Reconcile(t)

Next ==
    \/ Connect \/ Disconnect \/ Replay \/ Restart
    \/ WindowEnds \/ NoticeDue \/ NoticeSent
    \/ \E t \in Tasks : \/ Deliver(t) \/ DeliverFrame(t) \/ Step(t)
                        \/ \E u \in Tasks : DeliverSeen(t, u)
    \/ \E p \in Plugs : \/ SendFrame(p) \/ StartCommit(p) \/ Queue(p)
                        \/ \E sent \in BOOLEAN : StartPublish(p, sent) \/ Stop(p, sent)

Spec == Init /\ [][Next]_vars

\* The event loop runs every coroutine, and a connected gateway keeps reporting.
FairSpec ==
    /\ Spec
    /\ WF_vars(\E t \in Tasks : \/ Deliver(t) \/ DeliverFrame(t)
                                \/ \E u \in Tasks : DeliverSeen(t, u))
    /\ \A t \in Tasks : WF_vars(Step(t))
    /\ \A p \in Plugs : SF_vars(SendFrame(p))
-----------------------------------------------------------------------------
(* Properties *)

\* The state stays within its domains.
TypeOK ==
    /\ up \in BOOLEAN /\ relay \subseteq Plugs /\ held \subseteq Plugs
    /\ wire \in Seq(Message) /\ status \in {"ONLINE", "OFFLINE"}
    /\ \A t \in Tasks : task[t].at \in {"idle", "read", "online", "offline", "frame", "sweep", "snapped"}
    /\ notice.at \in {"none", "armed", "due"}
    /\ session \in [Plugs -> {"none", "starting", "active"}]

\* Once every coroutine has stored what it has to, gateways.status is what the
\* last message says, although frames inside the window store nothing; with
\* nothing on the way it is whether the gateway is connected.  Handlers that
\* overlap lose an update, until one that stores runs alone.
StatusFollows ==
    (\A t \in Tasks : task[t].at # "read") =>
        torn \/ (status = last /\ (wire = <<>> => (status = "ONLINE") = up))

\* Drivers hear of an outage once, however often the retained `offline' is
\* replayed, as long as the status handlers did not overlap.
ToldOnce == [][told' > told => torn \/ told = 0]_vars

\* "Charger connection lost" goes out for a gateway that is stored OFFLINE, or
\* came back only after the notice had read that it was.
ToldTheTruth ==
    [][notice.at = "due" /\ told' = told + 1 => status = "OFFLINE"]_vars

\* The OFFs of a reconnect and of the telemetry never cut a running session,
\* except one that began after the sweep had read which sessions run.
SparesRunning ==
    [][\A p \in Plugs : p \in relay \ relay' /\ Active(p)' =>
           \E t \in Tasks : task[t].at = "snapped" /\ p \in task[t].since]_vars

\* A relay that is on with no session behind it is switched off while the link
\* is up, although OFF commands get lost.
OrphanSwitchedOff ==
    \A p \in Plugs : (up /\ p \in relay /\ ~Active(p)) ~> (~up \/ p \notin relay \/ Active(p))

\* What the backend stores of the gateway is what the gateway last said and is
\* (_persist_gateway_status, _persist_gateway_seen).
LinkConsistent == TypeOK /\ StatusFollows

\* Drivers hear of an outage once, and only of one that is there
\* (_deferred_offline_notice).
ToldOnceTruly == ToldOnce /\ ToldTheTruth
=============================================================================
