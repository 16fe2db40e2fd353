----------------------------- MODULE GatewayProofs -----------------------------
(***************************************************************************)
(* The two halves of what passes between a gateway and the backend, each   *)
(* for every value of its constants.                                       *)
(*                                                                         *)
(* GatewayLink: the messages themselves carry half of the argument         *)
(* (Chain): telemetry never follows an `offline' without an `online' in    *)
(* between.  The other half is what the one handler in flight knows as     *)
(* long as no two of them have overlapped (Alone, Pending).                *)
(*                                                                         *)
(* Metering: each boot of the gateway has a lag, by how much its meter     *)
(* falls short of the energy delivered (Lags).  A reading plus the lag of  *)
(* its boot is a total; the totals of the live readings never fall         *)
(* (Ordered), and while nothing is lost a boot begins with the total that  *)
(* the one before it ended with (Continuous), so that the drop the backend *)
(* banks is the difference of two lags.                                    *)
(***************************************************************************)
EXTENDS GatewayLink, Metering, SequenceTheorems, TLAPS

Words == {"ONLINE", "OFFLINE"}
TaskState == {NoTask} \cup
    [at : {"read", "online", "offline", "frame", "sweep", "snapped"}, msg : Message,
     was : Words, active : SUBSET Plugs, since : SUBSET Plugs]

Shape ==
    /\ up \in BOOLEAN /\ relay \subseteq Plugs /\ held \subseteq Plugs
    /\ wire \in Seq(Message) /\ retained \in {"none", "online", "offline"}
    /\ status \in Words /\ last \in Words /\ told \in Nat /\ torn \in BOOLEAN
    /\ window \in BOOLEAN
    /\ task \in [Tasks -> TaskState]
    /\ notice \in [at : {"none", "armed", "due"}, back : BOOLEAN]
    /\ session \in [Plugs -> {"none", "starting", "active"}]

\* What the message before the i-th says of the gateway.
Before(i) == IF i = 1 THEN last ELSE Says(wire[i - 1])

\* A frame comes from a gateway that was last heard of as online.
Chain ==
    /\ \A i \in 1 .. Len(wire) : IsFrame(wire[i]) => Before(i) = "ONLINE"
    /\ up <=> retained = "online"
    /\ up <=> Before(Len(wire) + 1) = "ONLINE"

UnsettledTask(t) == task[t].at \in {"read", "online", "offline"}

\* What a handler knows while it is the only one.
Knows(t) ==
    /\ task[t].at = "read" => /\ task[t].was = status /\ Says(task[t].msg) = last
                              /\ IsFrame(task[t].msg) => notice.at = "none"
    /\ task[t].at = "offline" => status = "OFFLINE" /\ told = 0 /\ notice.at = "none"

\* As long as no handlers have overlapped there is one at a time, and the
\* status is what was heard last, but for the one that is about to store it.
Alone ==
    ~torn => /\ \A s, t \in Tasks : UnsettledTask(s) /\ UnsettledTask(t) => s = t
             /\ \A t \in Tasks : Knows(t)
             /\ (\A t \in Tasks : task[t].at # "read") => status = last

\* A pending notice is about the present outage, which has had none yet.
Pending ==
    /\ status = "ONLINE" => told = 0
    /\ notice.back => notice.at = "due"
    /\ notice.at = "due" /\ ~notice.back => status = "OFFLINE"
    /\ ~torn /\ notice.at # "none" =>
           /\ ~notice.back => told = 0
           /\ status = "OFFLINE" \/ \E t \in Tasks : task[t].at = "online"

\* The sweep's snapshot misses only the sessions that began after it.
Snapshots ==
    \A t \in Tasks : task[t].at = "snapped" =>
        \A p \in Plugs : Active(p) => p \in task[t].active \cup task[t].since

Inv == Shape /\ Chain /\ Alone /\ Pending /\ Snapshots
-----------------------------------------------------------------------------
(* Messages and coroutines *)

LEMMA Messages ==
    /\ \A word \in {"online", "offline"} :
         /\ StatusMsg(word) \in Message /\ ~IsFrame(StatusMsg(word))
         /\ Says(StatusMsg(word)) = (IF word = "online" THEN "ONLINE" ELSE "OFFLINE")
    /\ \A p \in Plugs : /\ FrameMsg(p) \in Message /\ IsFrame(FrameMsg(p))
                        /\ Says(FrameMsg(p)) = "ONLINE"
    /\ \A msg : Says(msg) \in Words /\ (IsOnline(msg) \/ IsFrame(msg) => Says(msg) = "ONLINE")
    /\ \A msg : IsOnline(msg) => ~IsFrame(msg)
<1>1. ASSUME NEW word \in {"online", "offline"}
      PROVE  /\ StatusMsg(word) \in Message /\ ~IsFrame(StatusMsg(word))
             /\ Says(StatusMsg(word)) = (IF word = "online" THEN "ONLINE" ELSE "OFFLINE")
  BY <1>1 DEF StatusMsg, Message, IsFrame, Says, IsOnline
<1>2. ASSUME NEW p \in Plugs PROVE FrameMsg(p) \in Message /\ IsFrame(FrameMsg(p))
  <2> DEFINE on == p \in relay
  <2>1. FrameMsg(p) = [kind |-> "frame", plug |-> p, on |-> on] /\ on \in BOOLEAN
    BY DEF FrameMsg
  <2> HIDE DEF on
  <2> QED
    BY <2>1 DEF Message, IsFrame
<1>3. \A msg : Says(msg) \in Words /\ (IsOnline(msg) \/ IsFrame(msg) => Says(msg) = "ONLINE")
  BY DEF Says, Words
<1>4. \A msg : IsOnline(msg) => ~IsFrame(msg)
  BY DEF IsOnline, IsFrame, StatusMsg
<1> QED
  BY <1>1, <1>2, <1>3, <1>4

\* A coroutine that is under way has its record.
LEMMA Running ==
    ASSUME Shape, NEW t \in Tasks, task[t].at # "idle"
    PROVE  task[t] \in [at : {"read", "online", "offline", "frame", "sweep", "snapped"},
                        msg : Message, was : Words, active : SUBSET Plugs, since : SUBSET Plugs]
BY DEF Shape, TaskState, NoTask

LEMMA TaskWritten ==
    ASSUME Shape, NEW t \in Tasks, NEW new \in TaskState, task' = [task EXCEPT ![t] = new]
    PROVE  /\ task' \in [Tasks -> TaskState] /\ task'[t] = new
           /\ \A s \in Tasks : s # t => task'[s] = task[s]
BY DEF Shape

LEMMA NoTaskIdle == NoTask \in TaskState /\ NoTask.at = "idle"
BY DEF NoTask, TaskState

\* Where a coroutine goes once it has stored the status.
LEMMA AfterWriteFacts ==
    ASSUME Shape, NEW t \in Tasks, task[t].at = "read"
    PROVE  /\ AfterWrite(task[t]) \in TaskState
           /\ AfterWrite(task[t]).at \in {"online", "offline", "idle"}
           /\ AfterWrite(task[t]).at = "online" <=> IsOnline(task[t].msg)
           /\ AfterWrite(task[t]).at = "offline" => BecameOffline(task[t])
<1> DEFINE k == task[t]
<1>1. k \in [at : {"read", "online", "offline", "frame", "sweep", "snapped"},
             msg : Message, was : Words, active : SUBSET Plugs, since : SUBSET Plugs]
  BY Running
<1>2. \A a \in {"online", "frame", "offline"} :
         [k EXCEPT !.at = a] \in TaskState /\ [k EXCEPT !.at = a].at = a
  BY <1>1 DEF TaskState
<1> HIDE DEF k
<1>3. CASE IsOnline(k.msg)
  <2>1. ~IsFrame(k.msg) /\ ~BecameOffline(k)
    BY <1>3, Messages DEF BecameOffline
  <2>2. AfterWrite(k) = [k EXCEPT !.at = "online"]
    BY <1>3, <2>1 DEF AfterWrite
  <2> QED
    BY <1>2, <1>3, <2>2 DEF k
<1>5. CASE ~IsOnline(k.msg) /\ BecameOffline(k)
  <2>1. AfterWrite(k) = [k EXCEPT !.at = "offline"]
    BY <1>5 DEF AfterWrite
  <2> QED
    BY <1>2, <1>5, <2>1 DEF k
<1>6. CASE ~IsOnline(k.msg) /\ ~BecameOffline(k)
  <2>1. AfterWrite(k) = NoTask
    BY <1>6 DEF AfterWrite
  <2> QED
    BY <1>6, <2>1, NoTaskIdle DEF k
<1> QED
  BY <1>3, <1>5, <1>6

\* A message starts a coroutine, or two for a frame outside the window.
Delivered(t) ==
    Deliver(t) \/ DeliverFrame(t) \/ \E u \in Tasks : DeliverSeen(t, u)

LEMMA Received ==
    ASSUME Shape, Receive
    PROVE  /\ wire \in Seq(Message) /\ Len(wire) \in Nat /\ Len(wire) >= 1 /\ 1 \in 1 .. Len(wire)
           /\ Head(wire) = wire[1] /\ wire[1] \in Message
           /\ wire' = Tail(wire) /\ Tail(wire) \in Seq(Message) /\ Len(wire') = Len(wire) - 1
           /\ \A i \in 1 .. Len(wire) - 1 : wire'[i] = wire[i + 1]
           /\ last' = Says(wire[1])
           /\ UNCHANGED <<up, relay, retained, status, notice, told, session, held>>
<1>1. wire \in Seq(Message) /\ wire # <<>> /\ Len(wire) \in Nat
  BY LenProperties DEF Receive, Shape
<1>2. Head(wire) = wire[1] /\ Len(wire) >= 1 /\ wire[1] \in Message
  BY <1>1, HeadTailProperties, EmptySeq
<1>3. /\ wire' = Tail(wire) /\ Tail(wire) \in Seq(Message) /\ Len(wire') = Len(wire) - 1
      /\ \A i \in 1 .. Len(wire) - 1 : wire'[i] = wire[i + 1]
  BY <1>1, HeadTailProperties DEF Receive
<1> QED
  BY <1>1, <1>2, <1>3 DEF Receive, gateway, charging

LEMMA TaskMade ==
    ASSUME Shape, NEW msg \in Message, NEW at \in {"read", "frame"}
    PROVE  /\ Task(at, msg) \in TaskState /\ Task(at, msg).at = at /\ Task(at, msg).msg = msg
           /\ Task(at, msg).was = status
<1>1. status \in Words
  BY DEF Shape
<1> QED
  BY <1>1 DEF Task, TaskState

\* What reaches the coroutines: t hears of the gateway, and whatever else is
\* started only looks at a relay.
Hears(t) ==
    /\ task'[t] \in TaskState /\ task'[t].at = "read" /\ task'[t].was = status
    /\ task'[t].msg = wire[1]
    /\ \A s \in Tasks : s # t => \/ task'[s] = task[s]
                                 \/ task[s].at = "idle" /\ task'[s].at = "frame"
    /\ torn' = Torn

\* Nobody does: a frame inside the window.
Ignored ==
    /\ \A s \in Tasks : \/ task'[s] = task[s]
                        \/ task[s].at = "idle" /\ task'[s].at = "frame"
    /\ UNCHANGED torn /\ IsFrame(wire[1])

LEMMA Delivers ==
    ASSUME Shape, NEW t \in Tasks, Delivered(t)
    PROVE  /\ Receive /\ task' \in [Tasks -> TaskState] /\ window' \in BOOLEAN
           /\ Ignored \/ \E u \in Tasks : Hears(u)
<1>1. CASE Deliver(t)
  <2> DEFINE k == Task("read", wire[1])
  <2>1. /\ Receive /\ task' = [task EXCEPT ![t] = k] /\ torn' = Torn /\ UNCHANGED window
    BY <1>1, Received DEF Deliver
  <2>2. k \in TaskState /\ k.at = "read" /\ k.was = status /\ k.msg = wire[1]
    BY <2>1, Received, TaskMade
  <2> HIDE DEF k
  <2>3. /\ task' \in [Tasks -> TaskState] /\ task'[t] = k
        /\ \A s \in Tasks : s # t => task'[s] = task[s]
    BY <2>1, <2>2, TaskWritten
  <2>4. Hears(t)
    BY <2>1, <2>2, <2>3 DEF Hears
  <2> QED
    BY <2>1, <2>3, <2>4 DEF Shape
<1>2. CASE DeliverFrame(t)
  <2> DEFINE k == Task("frame", wire[1])
  <2>1. /\ Receive /\ task' = [task EXCEPT ![t] = k] /\ UNCHANGED <<torn, window>>
        /\ IsFrame(wire[1]) /\ task[t] = NoTask
    BY <1>2, Received DEF DeliverFrame
  <2>2. k \in TaskState /\ k.at = "frame"
    BY <2>1, Received, TaskMade
  <2> HIDE DEF k
  <2>3. /\ task' \in [Tasks -> TaskState] /\ task'[t] = k
        /\ \A s \in Tasks : s # t => task'[s] = task[s]
    BY <2>1, <2>2, TaskWritten
  <2>4. Ignored
    BY <2>1, <2>2, <2>3, NoTaskIdle DEF Ignored
  <2> QED
    BY <2>1, <2>3, <2>4 DEF Shape
<1>3. ASSUME NEW u \in Tasks, DeliverSeen(t, u)
      PROVE  Receive /\ task' \in [Tasks -> TaskState] /\ window' \in BOOLEAN /\ Hears(u)
  <2> DEFINE k == Task("frame", wire[1])
             l == Task("read", wire[1])
  <2>1. /\ Receive /\ task' = [task EXCEPT ![t] = k, ![u] = l] /\ torn' = Torn /\ window' = TRUE
        /\ t # u /\ task[t] = NoTask
    BY <1>3, Received DEF DeliverSeen
  <2>2. /\ k \in TaskState /\ k.at = "frame"
        /\ l \in TaskState /\ l.at = "read" /\ l.was = status /\ l.msg = wire[1]
    BY <2>1, Received, TaskMade
  <2> HIDE DEF k, l
  <2>3. /\ task' \in [Tasks -> TaskState] /\ task'[t] = k /\ task'[u] = l
        /\ \A s \in Tasks : s # t /\ s # u => task'[s] = task[s]
    BY <2>1, <2>2 DEF Shape
  <2>4. Hears(u)
    BY <2>1, <2>2, <2>3, NoTaskIdle DEF Hears
  <2> QED
    BY <2>1, <2>3, <2>4
<1> QED
  BY <1>1, <1>2, <1>3 DEF Delivered
-----------------------------------------------------------------------------
(* Types *)

LEMMA ShapeTasks ==
    ASSUME Shape, NEW t \in Tasks, Step(t)
    PROVE  task' \in [Tasks -> TaskState]
<1>1. ASSUME task' = [task EXCEPT ![t] = NoTask] PROVE task' \in [Tasks -> TaskState]
  BY <1>1, NoTaskIdle, TaskWritten
<1>3. CASE StoreStatus(t)
  <2>1. task[t].at = "read" /\ task' = [task EXCEPT ![t] = AfterWrite(task[t])]
    BY <1>3 DEF StoreStatus
  <2> QED
    BY <2>1, AfterWriteFacts, TaskWritten
<1>4. CASE ArmNotice(t) \/ SweepPublish(t) \/ Reconcile(t)
  BY <1>1, <1>4 DEF ArmNotice, SweepPublish, Reconcile
<1>5. CASE CancelNotice(t)
  <2> DEFINE new == [task[t] EXCEPT !.at = "sweep"]
  <2>1. task[t].at # "idle" /\ task' = [task EXCEPT ![t] = new]
    BY <1>5 DEF CancelNotice
  <2>2. new \in TaskState
    BY <2>1, Running DEF TaskState
  <2> HIDE DEF new
  <2> QED
    BY <2>1, <2>2, TaskWritten
<1>6. CASE SweepSnapshot(t)
  <2> DEFINE A == {p \in Plugs : Active(p)}
             new == [task[t] EXCEPT !.at = "snapped", !.active = A]
  <2>1. task[t].at # "idle" /\ task' = [task EXCEPT ![t] = new]
    BY <1>6 DEF SweepSnapshot
  <2>2. A \in SUBSET Plugs
    OBVIOUS
  <2> HIDE DEF A
  <2>3. new \in TaskState
    BY <2>1, <2>2, Running DEF TaskState
  <2> HIDE DEF new
  <2> QED
    BY <2>1, <2>3, TaskWritten
<1> QED
  BY <1>3, <1>4, <1>5, <1>6 DEF Step

\* StartCommit notes the plug in the snapshots that are in use.
LEMMA StartCommitTasks ==
    ASSUME Shape, NEW p \in Plugs, StartCommit(p)
    PROVE  /\ task' \in [Tasks -> TaskState]
           /\ \A t \in Tasks :
                /\ task[t].at # "snapped" => task'[t] = task[t]
                /\ task[t].at = "snapped" => /\ task'[t].at = "snapped"
                                             /\ task'[t].active = task[t].active
                                             /\ task'[t].since = task[t].since \cup {p}
<1>1. task' = [t \in Tasks |-> IF task[t].at = "snapped"
                               THEN [task[t] EXCEPT !.since = @ \cup {p}] ELSE task[t]]
  BY DEF StartCommit
<1>2. ASSUME NEW t \in Tasks, task[t].at = "snapped"
      PROVE  /\ task'[t] \in TaskState /\ task'[t].at = "snapped"
             /\ task'[t].active = task[t].active /\ task'[t].since = task[t].since \cup {p}
  <2> DEFINE S == task[t].since \cup {p}
             new == [task[t] EXCEPT !.since = S]
  <2>1. task[t] \in [at : {"read", "online", "offline", "frame", "sweep", "snapped"},
                     msg : Message, was : Words, active : SUBSET Plugs, since : SUBSET Plugs]
    BY <1>2, Running
  <2>2. task'[t] = new /\ S \in SUBSET Plugs
    BY <1>1, <1>2, <2>1
  <2> HIDE DEF S
  <2>3. new \in TaskState /\ new.at = "snapped" /\ new.active = task[t].active /\ new.since = S
    BY <1>2, <2>1, <2>2 DEF TaskState
  <2> HIDE DEF new
  <2> QED
    BY <2>2, <2>3 DEF S
<1>3. \A t \in Tasks : task[t].at # "snapped" => task'[t] = task[t] /\ task[t] \in TaskState
  BY <1>1 DEF Shape
<1>4. task' = [t \in Tasks |-> task'[t]]
  BY <1>1
<1>5. \A t \in Tasks : task'[t] \in TaskState
  BY <1>2, <1>3
<1> QED
  BY <1>2, <1>3, <1>4, <1>5

LEMMA WireShape ==
    ASSUME Shape, [Next]_vars
    PROVE  wire' \in Seq(Message)
<1>1. ASSUME NEW msg \in Message, wire' = Append(wire, msg) PROVE wire' \in Seq(Message)
  BY <1>1, AppendProperties DEF Shape
<1>2. CASE Connect \/ Disconnect
  BY <1>1, <1>2, Messages DEF Connect, Disconnect
<1>3. ASSUME NEW p \in Plugs, SendFrame(p) PROVE wire' \in Seq(Message)
  BY <1>1, <1>3, Messages DEF SendFrame
<1>4. CASE Replay
  <2>1. retained \in {"online", "offline"}
    BY <1>4 DEF Replay, Shape
  <2> QED
    BY <1>1, <1>4, <2>1, Messages DEF Replay
<1>5. CASE Restart
  <2>1. retained \in {"online", "offline"} /\ wire' = <<StatusMsg(retained)>>
    BY <1>5 DEF Restart, Shape
  <2>2. StatusMsg(retained) \in Message
    BY <2>1, Messages
  <2> QED
    BY <2>1, <2>2
<1>6. ASSUME NEW t \in Tasks, Delivered(t) PROVE wire' \in Seq(Message)
  BY <1>6, Delivers, Received
<1>7. ASSUME UNCHANGED wire PROVE wire' \in Seq(Message)
  BY <1>7 DEF Shape
<1>8. ASSUME NEW t \in Tasks, Step(t) PROVE UNCHANGED wire
  BY <1>8 DEF Step, StoreStatus, ArmNotice, CancelNotice, SweepSnapshot, SweepPublish, Reconcile
<1>9. ASSUME NEW p \in Plugs, StartCommit(p) \/ Queue(p)
                 \/ \E sent \in BOOLEAN : StartPublish(p, sent) \/ Stop(p, sent)
      PROVE  UNCHANGED wire
  BY <1>9 DEF StartCommit, Queue, StartPublish, Stop
<1>10. ASSUME WindowEnds \/ NoticeDue \/ NoticeSent \/ UNCHANGED vars PROVE UNCHANGED wire
  BY <1>10 DEF WindowEnds, NoticeDue, NoticeSent, vars
<1> QED
  BY <1>2, <1>3, <1>4, <1>5, <1>6, <1>7, <1>8, <1>9, <1>10 DEF Next, Delivered

\* StoreStatus, the handler's write.
LEMMA Stores ==
    ASSUME Shape, NEW t \in Tasks, StoreStatus(t)
    PROVE  /\ task[t].at = "read" /\ task'[t] = AfterWrite(task[t])
           /\ \A s \in Tasks : s # t => task'[s] = task[s]
           /\ status' = (IF task[t].was = Says(task[t].msg) THEN status ELSE Says(task[t].msg))
           /\ status' \in Words
           /\ told' = (IF status' = "ONLINE" THEN 0 ELSE told)
           /\ notice' \in [at : {"none", "armed", "due"}, back : BOOLEAN]
           /\ notice'.at = notice.at
           /\ notice'.back <=> notice.back \/ (notice.at = "due" /\ status' = "ONLINE")
           /\ UNCHANGED <<up, relay, retained, wire, window, torn, last, session, held>>
<1>1. task[t].at = "read" /\ task' = [task EXCEPT ![t] = AfterWrite(task[t])]
  BY DEF StoreStatus
<1>2. task'[t] = AfterWrite(task[t]) /\ \A s \in Tasks : s # t => task'[s] = task[s]
  BY <1>1, AfterWriteFacts, TaskWritten
<1>3. status' = (IF task[t].was = Says(task[t].msg) THEN status ELSE Says(task[t].msg))
  BY DEF StoreStatus
<1>4. status' \in Words
  BY <1>3, Messages DEF Shape
<1> DEFINE b == notice.back \/ (notice.at = "due" /\ status' = "ONLINE")
<1>5. notice' = [notice EXCEPT !.back = b]
  BY DEF StoreStatus
<1>6. b \in BOOLEAN /\ notice \in [at : {"none", "armed", "due"}, back : BOOLEAN]
  BY DEF Shape
<1> HIDE DEF b
<1>7. /\ notice' \in [at : {"none", "armed", "due"}, back : BOOLEAN]
      /\ notice'.at = notice.at /\ notice'.back = b
  BY <1>5, <1>6
<1> QED
  BY <1>1, <1>2, <1>3, <1>4, <1>7 DEF StoreStatus, gateway, charging, b

LEMMA ShapeStep == ASSUME Shape, [Next]_vars PROVE Shape'
<1> DEFINE Rest == /\ up \in BOOLEAN /\ relay \subseteq Plugs /\ held \subseteq Plugs
                   /\ retained \in {"none", "online", "offline"}
                   /\ status \in Words /\ last \in Words /\ told \in Nat /\ torn \in BOOLEAN
                   /\ window \in BOOLEAN
                   /\ task \in [Tasks -> TaskState]
                   /\ notice \in [at : {"none", "armed", "due"}, back : BOOLEAN]
                   /\ session \in [Plugs -> {"none", "starting", "active"}]
<1>1. NoNotice \in [at : {"none", "armed", "due"}, back : BOOLEAN]
  BY DEF NoNotice
<1>2. ASSUME Connect \/ Disconnect \/ Replay \/ \E p \in Plugs : SendFrame(p) PROVE Rest'
  BY <1>2 DEF Connect, Disconnect, Replay, SendFrame, Shape, gateway, history, charging
<1>3. ASSUME Restart PROVE Rest'
  <2>1. task' \in [Tasks -> TaskState]
    BY <1>3, NoTaskIdle DEF Restart
  <2>2. session' \in [Plugs -> {"none", "starting", "active"}]
    BY <1>3 DEF Restart
  <2>3. last' \in Words
    BY <1>3, Messages DEF Restart
  <2> QED
    BY <1>1, <1>3, <2>1, <2>2, <2>3 DEF Restart, Shape, gateway
<1>4. ASSUME NEW t \in Tasks, Delivered(t) PROVE Rest'
  <2>1. /\ Receive /\ task' \in [Tasks -> TaskState] /\ window' \in BOOLEAN
        /\ Ignored \/ \E u \in Tasks : Hears(u)
    BY <1>4, Delivers
  <2>2. last' \in Words
    BY <2>1, Received, Messages
  <2>3. Torn \in BOOLEAN
    BY DEF Torn, Unsettled
  <2>4. torn' \in BOOLEAN
    BY <2>1, <2>3 DEF Ignored, Hears, Shape
  <2> QED
    BY <2>1, <2>2, <2>4, Received DEF Shape
<1>5. ASSUME NEW t \in Tasks, StoreStatus(t) PROVE Rest'
  <2>1. task' \in [Tasks -> TaskState]
    BY <1>5, ShapeTasks DEF Step
  <2> QED
    BY <1>5, <2>1, Stores DEF Shape
<1>6. ASSUME NEW t \in Tasks, ArmNotice(t) \/ CancelNotice(t) \/ SweepSnapshot(t) PROVE Rest'
  <2>1. task' \in [Tasks -> TaskState]
    BY <1>6, ShapeTasks DEF Step
  <2>2. notice' \in [at : {"none", "armed", "due"}, back : BOOLEAN]
    <3>1. [at |-> "armed", back |-> FALSE] \in [at : {"none", "armed", "due"}, back : BOOLEAN]
      OBVIOUS
    <3> QED
      BY <1>1, <1>6, <3>1 DEF ArmNotice, CancelNotice, SweepSnapshot, Shape
  <2>3. UNCHANGED <<up, relay, retained, status, window, last, told, torn, session, held>>
    BY <1>6 DEF ArmNotice, CancelNotice, SweepSnapshot, gateway, history, charging
  <2> QED
    BY <2>1, <2>2, <2>3 DEF Shape
<1>7. ASSUME NEW t \in Tasks, SweepPublish(t) \/ Reconcile(t) PROVE Rest'
  <2>1. task' \in [Tasks -> TaskState]
    BY <1>7, ShapeTasks DEF Step
  <2>2. relay' \subseteq Plugs
    BY <1>7 DEF SweepPublish, Reconcile, Switch, Shape
  <2> QED
    BY <1>7, <2>1, <2>2 DEF SweepPublish, Reconcile, Shape, history, charging
<1>8. ASSUME NoticeDue PROVE Rest'
  <2>1. notice' \in [at : {"none", "armed", "due"}, back : BOOLEAN]
    BY <1>1, <1>8 DEF NoticeDue, Shape
  <2> QED
    BY <1>8, <2>1 DEF NoticeDue, Shape, gateway, history, charging
<1>9. ASSUME NoticeSent PROVE Rest'
  <2>1. told' \in Nat
    BY <1>9 DEF NoticeSent, Shape
  <2> QED
    BY <1>1, <1>9, <2>1 DEF NoticeSent, Shape, gateway, charging
<1>10. ASSUME NEW p \in Plugs, StartCommit(p) PROVE Rest'
  <2>1. session' \in [Plugs -> {"none", "starting", "active"}]
    BY <1>10 DEF StartCommit, Shape
  <2> QED
    BY <1>10, <2>1, StartCommitTasks DEF StartCommit, Shape, gateway, history
<1>11. ASSUME NEW p \in Plugs, NEW sent \in BOOLEAN, StartPublish(p, sent) \/ Stop(p, sent)
       PROVE  Rest'
  <2>1. session' \in [Plugs -> {"none", "starting", "active"}]
    BY <1>11 DEF StartPublish, Stop, Shape
  <2>2. relay' \subseteq Plugs
    BY <1>11 DEF StartPublish, Stop, Switch, Shape
  <2> QED
    BY <1>11, <2>1, <2>2 DEF StartPublish, Stop, Shape, history
<1>12. ASSUME WindowEnds \/ \E p \in Plugs : Queue(p) PROVE Rest'
  BY <1>12 DEF WindowEnds, Queue, Shape, gateway, history, charging
<1>13. ASSUME UNCHANGED vars PROVE Rest'
  BY <1>13 DEF vars, Shape
<1> HIDE DEF Rest
<1>14. Rest'
  BY <1>2, <1>3, <1>4, <1>5, <1>6, <1>7, <1>8, <1>9, <1>10, <1>11, <1>12, <1>13
     DEF Next, Step, Delivered
<1> QED
  BY <1>14, WireShape DEF Shape, Rest
-----------------------------------------------------------------------------
(* The messages *)

\* A message is added: a status that agrees with the link, or a frame of a
\* gateway that is up.
LEMMA ChainAppend ==
    ASSUME Shape, Chain, NEW msg \in Message, wire' = Append(wire, msg), UNCHANGED last,
           IsFrame(msg) => up,
           up' <=> retained' = "online", up' <=> Says(msg) = "ONLINE"
    PROVE  Chain'
<1>1. Len(wire) \in Nat /\ wire \in Seq(Message)
  BY LenProperties DEF Shape
<1>2. /\ Len(wire') = Len(wire) + 1 /\ wire'[Len(wire) + 1] = msg
      /\ \A i \in 1 .. Len(wire) : wire'[i] = wire[i]
  BY <1>1, AppendProperties
<1>3. \A i \in 1 .. Len(wire) + 1 : Before(i)' = Before(i)
  <2> SUFFICES ASSUME NEW i \in 1 .. Len(wire) + 1
               PROVE  (IF i = 1 THEN last' ELSE Says(wire'[i - 1])) =
                      (IF i = 1 THEN last ELSE Says(wire[i - 1]))
    BY DEF Before, Says, IsOnline, IsFrame, StatusMsg
  <2>1. i # 1 => i - 1 \in 1 .. Len(wire)
    BY <1>1
  <2> QED
    BY <1>2, <2>1
<1>4. ASSUME NEW i \in 1 .. Len(wire'), IsFrame(wire'[i]) PROVE Before(i)' = "ONLINE"
  <2>1. CASE i \in 1 .. Len(wire)
    BY <1>1, <1>2, <1>3, <1>4, <2>1 DEF Chain
  <2>2. CASE i = Len(wire) + 1
    BY <1>1, <1>2, <1>3, <1>4, <2>2 DEF Chain
  <2> QED
    BY <1>1, <1>2, <2>1, <2>2
<1>5. Before(Len(wire) + 1)' = Says(msg)
  <2>1. (IF Len(wire') + 1 = 1 THEN last' ELSE Says(wire'[Len(wire') + 1 - 1])) = Says(msg)
    <3>1. Len(wire') + 1 # 1 /\ Len(wire') + 1 - 1 = Len(wire) + 1
      BY <1>1, <1>2
    <3> QED
      BY <1>2, <3>1
  <2> QED
    BY <2>1 DEF Before, Says, IsOnline, IsFrame, StatusMsg
<1> QED
  BY <1>4, <1>5 DEF Chain, IsFrame

LEMMA ChainStep == ASSUME Shape, Chain, [Next]_vars PROVE Chain'
<1>1. ASSUME UNCHANGED <<up, retained, wire, last>> PROVE Chain'
  BY <1>1 DEF Chain, Before, IsFrame, Says, IsOnline, StatusMsg
<1>2. CASE Connect
  <2>1. /\ wire' = Append(wire, StatusMsg("online")) /\ UNCHANGED last /\ retained' = "online"
        /\ up'
    BY <1>2 DEF Connect, history
  <2> QED
    BY <2>1, Messages, ChainAppend
<1>3. CASE Disconnect
  <2>1. /\ wire' = Append(wire, StatusMsg("offline")) /\ UNCHANGED last /\ ~up'
        /\ retained' = "offline"
    BY <1>3 DEF Disconnect, history
  <2> QED
    BY <2>1, Messages, ChainAppend
<1>4. ASSUME NEW p \in Plugs, SendFrame(p) PROVE Chain'
  <2>1. wire' = Append(wire, FrameMsg(p)) /\ UNCHANGED <<last, up, retained>> /\ up
    BY <1>4 DEF SendFrame, history, gateway
  <2>2. retained = "online"
    BY <2>1 DEF Chain
  <2> QED
    BY <2>1, <2>2, Messages, ChainAppend
<1>5. CASE Replay
  <2>1. /\ wire' = Append(wire, StatusMsg(retained)) /\ UNCHANGED <<last, up, retained>>
        /\ retained \in {"online", "offline"}
    BY <1>5 DEF Replay, history, gateway, Shape
  <2>2. up <=> retained = "online"
    BY DEF Chain
  <2>3. StatusMsg(retained) \in Message /\ ~IsFrame(StatusMsg(retained))
        /\ (up <=> Says(StatusMsg(retained)) = "ONLINE")
    BY <2>1, <2>2, Messages
  <2> QED
    BY <2>1, <2>2, <2>3, ChainAppend
<1>6. CASE Restart
  <2>1. /\ wire' = <<StatusMsg(retained)>> /\ UNCHANGED <<up, retained>>
        /\ retained \in {"online", "offline"}
    BY <1>6 DEF Restart, gateway, Shape
  <2>2. Len(wire') = 1 /\ wire'[1] = StatusMsg(retained)
    BY <2>1
  <2>3. ~IsFrame(wire'[1]) /\ (up <=> retained = "online") /\ (up <=> Says(wire'[1]) = "ONLINE")
    BY <2>1, <2>2, Messages DEF Chain
  <2>4. ~IsFrame(wire[1])' /\ (up' <=> Before(Len(wire) + 1)' = "ONLINE")
    BY <2>1, <2>2, <2>3 DEF Before, IsFrame, Says, IsOnline, StatusMsg
  <2> QED
    BY <2>1, <2>2, <2>3, <2>4 DEF Chain
<1>7. ASSUME NEW t \in Tasks, Delivered(t) PROVE Chain'
  <2>1. Receive /\ UNCHANGED <<up, retained>>
    BY <1>7, Delivers, Received
  <2>2. wire \in Seq(Message) /\ Len(wire) \in Nat
    BY LenProperties DEF Shape
  <2>3. Len(wire) >= 1 /\ Len(wire') = Len(wire) - 1 /\ \A i \in 1 .. Len(wire) - 1 : wire'[i] = wire[i + 1]
    BY <2>1, Received
  <2>4. last' = Says(wire[1])
    BY <2>1, Received
  <2>5. \A i \in 1 .. Len(wire) : (IF i = 1 THEN last' ELSE Says(wire'[i - 1])) = Says(wire[i])
    <3> SUFFICES ASSUME NEW i \in 1 .. Len(wire), i # 1 PROVE wire'[i - 1] = wire[i]
      BY <2>4
    <3>1. i - 1 \in 1 .. Len(wire) - 1 /\ i - 1 + 1 = i
      BY <2>2
    <3> QED
      BY <2>3, <3>1
  <2>6. \A i \in 1 .. Len(wire) : Before(i)' = Says(wire[i])
    BY <2>5 DEF Before, Says, IsFrame, IsOnline, StatusMsg
  <2>7. \A i \in 1 .. Len(wire) : Before(i + 1) = Says(wire[i])
    BY <2>2 DEF Before
  <2>8. ASSUME NEW i \in 1 .. Len(wire'), IsFrame(wire'[i]) PROVE Before(i)' = "ONLINE"
    <3>1. i \in 1 .. Len(wire) /\ i + 1 \in 1 .. Len(wire) /\ wire'[i] = wire[i + 1]
      BY <2>2, <2>3
    <3> QED
      BY <2>6, <2>7, <2>8, <3>1 DEF Chain
  <2>9. up <=> Before(Len(wire) + 1)' = "ONLINE"
    <3>1. Len(wire) \in 1 .. Len(wire) /\ Len(wire') + 1 = Len(wire)
      BY <2>2, <2>3
    <3>2. up <=> Says(wire[Len(wire)]) = "ONLINE"
      BY <2>7, <3>1 DEF Chain
    <3>3. up <=> (IF Len(wire') + 1 = 1 THEN last' ELSE Says(wire'[Len(wire') + 1 - 1])) = "ONLINE"
      BY <2>5, <3>1, <3>2
    <3> QED
      BY <3>3 DEF Before, Says, IsFrame, IsOnline, StatusMsg
  <2> QED
    BY <2>1, <2>8, <2>9 DEF Chain, IsFrame
<1>8. ASSUME NEW t \in Tasks, Step(t) PROVE UNCHANGED <<up, retained, wire, last>>
  BY <1>8 DEF Step, StoreStatus, ArmNotice, CancelNotice, SweepSnapshot, SweepPublish, Reconcile,
     gateway, history
<1>9. ASSUME NEW p \in Plugs, StartCommit(p) \/ Queue(p)
                 \/ \E sent \in BOOLEAN : StartPublish(p, sent) \/ Stop(p, sent)
      PROVE  UNCHANGED <<up, retained, wire, last>>
  BY <1>9 DEF StartCommit, Queue, StartPublish, Stop, gateway, history
<1>10. ASSUME WindowEnds \/ NoticeDue \/ NoticeSent \/ UNCHANGED vars
       PROVE  UNCHANGED <<up, retained, wire, last>>
  BY <1>10 DEF WindowEnds, NoticeDue, NoticeSent, vars, gateway, history
<1> QED
  BY <1>1, <1>2, <1>3, <1>4, <1>5, <1>6, <1>7, <1>8, <1>9, <1>10 DEF Next, Delivered
-----------------------------------------------------------------------------
(* The sweep of orphans *)

LEMMA SnapshotsStep == ASSUME Shape, Snapshots, [Next]_vars PROVE Snapshots'
<1>1. ASSUME \A p \in Plugs : Active(p)' => Active(p),
             \A t \in Tasks : task'[t].at = "snapped" => task'[t] = task[t]
      PROVE  Snapshots'
  BY <1>1 DEF Snapshots
<1>9. ASSUME NEW t \in Tasks, Delivered(t) PROVE Snapshots'
  <2>1. \A p \in Plugs : Active(p)' => Active(p)
    BY <1>9, Delivers, Received DEF Active
  <2>2. \A s \in Tasks : task'[s].at = "snapped" => task'[s] = task[s]
    BY <1>9, Delivers DEF Ignored, Hears
  <2> QED
    BY <1>1, <2>1, <2>2
<1>2. ASSUME NEW t \in Tasks, StoreStatus(t) \/ ArmNotice(t) \/ CancelNotice(t)
                              \/ SweepPublish(t) \/ Reconcile(t)
      PROVE  Snapshots'
  <2>1. \A p \in Plugs : Active(p)' => Active(p)
    BY <1>2 DEF StoreStatus, ArmNotice, CancelNotice, SweepPublish, Reconcile, charging,
       Active
  <2>2. \A s \in Tasks : s # t => task'[s] = task[s]
    BY <1>2 DEF StoreStatus, ArmNotice, CancelNotice, SweepPublish, Reconcile, Shape
  <2>3. task'[t].at # "snapped"
    <3>2. CASE StoreStatus(t)
      BY <3>2, Stores, AfterWriteFacts
    <3>3. CASE CancelNotice(t)
      <4>1. task[t].at # "idle" /\ task' = [task EXCEPT ![t].at = "sweep"]
        BY <3>3 DEF CancelNotice
      <4>2. task'[t] = [task[t] EXCEPT !.at = "sweep"]
        BY <4>1 DEF Shape
      <4> QED
        BY <4>1, <4>2, Running
    <3>4. CASE ArmNotice(t) \/ SweepPublish(t) \/ Reconcile(t)
      BY <3>4, NoTaskIdle DEF ArmNotice, SweepPublish, Reconcile, Shape
    <3> QED
      BY <1>2, <3>2, <3>3, <3>4
  <2> QED
    BY <1>1, <2>1, <2>2, <2>3
<1>3. ASSUME NEW t \in Tasks, SweepSnapshot(t) PROVE Snapshots'
  <2> DEFINE A == {p \in Plugs : Active(p)}
  <2>1. /\ task[t].at # "idle" /\ UNCHANGED session
        /\ task' = [task EXCEPT ![t].at = "snapped", ![t].active = A]
    BY <1>3 DEF SweepSnapshot, charging
  <2> HIDE DEF A
  <2>2. task'[t] = [task[t] EXCEPT !.at = "snapped", !.active = A]
    BY <2>1 DEF Shape
  <2>3. task'[t].active = A
    BY <2>1, <2>2, Running
  <2>4. \A p \in Plugs : Active(p)' => p \in A
    BY <2>1 DEF Active, A
  <2>5. \A s \in Tasks : s # t => task'[s] = task[s]
    BY <2>1 DEF Shape
  <2>6. \A s \in Tasks : task'[s].at = "snapped" =>
           \A p \in Plugs : Active(p)' => p \in task'[s].active \cup task'[s].since
    BY <2>1, <2>3, <2>4, <2>5 DEF Snapshots, Active
  <2> QED
    BY <2>6 DEF Snapshots
<1>4. ASSUME NEW p \in Plugs, StartCommit(p) PROVE Snapshots'
  <2>1. \A q \in Plugs : q # p => (Active(q)' <=> Active(q))
    BY <1>4 DEF StartCommit, Active, Shape
  <2>2. \A s \in Tasks : task'[s].at = "snapped" =>
           /\ task[s].at = "snapped" /\ task'[s].active = task[s].active
           /\ task'[s].since = task[s].since \cup {p}
    BY <1>4, StartCommitTasks
  <2> QED
    BY <2>1, <2>2 DEF Snapshots
<1>5. ASSUME NEW p \in Plugs, NEW sent \in BOOLEAN, StartPublish(p, sent) \/ Stop(p, sent)
      PROVE  Snapshots'
  <2>1. UNCHANGED task /\ \A q \in Plugs : Active(q)' => Active(q)
    BY <1>5 DEF StartPublish, Stop, Active, Shape
  <2> QED
    BY <1>1, <2>1
<1>6. CASE Restart
  <2>1. \A t \in Tasks : task'[t].at # "snapped"
    BY <1>6, NoTaskIdle DEF Restart
  <2> QED
    BY <2>1 DEF Snapshots
<1>7. ASSUME Connect \/ Disconnect \/ Replay \/ WindowEnds \/ NoticeDue \/ NoticeSent
             \/ UNCHANGED vars \/ \E p \in Plugs : SendFrame(p) \/ Queue(p)
      PROVE  UNCHANGED <<task, session>>
  BY <1>7 DEF WindowEnds, Connect, Disconnect, Replay, NoticeDue, NoticeSent, vars, SendFrame, Queue, charging
<1>8. ASSUME UNCHANGED <<task, session>> PROVE Snapshots'
  BY <1>8 DEF Snapshots, Active
<1> QED
  BY <1>2, <1>3, <1>4, <1>5, <1>6, <1>7, <1>8, <1>9 DEF Next, Step, Delivered
-----------------------------------------------------------------------------
(* Status and notices *)

\* A step that leaves the status, the notice and the status handlers alone.
Idles ==
    /\ UNCHANGED <<status, last, notice, told, torn>>
    /\ \A t \in Tasks : task'[t] = task[t] \/ (~UnsettledTask(t) /\ ~UnsettledTask(t)')

\* The steps that do not.
Touches ==
    \/ Restart \/ NoticeDue \/ NoticeSent
    \/ \E t \in Tasks : Delivered(t) \/ StoreStatus(t) \/ ArmNotice(t) \/ CancelNotice(t)

LEMMA Kinds == ASSUME Shape, [Next]_vars PROVE Idles \/ Touches
<1>1. ASSUME Connect \/ Disconnect \/ Replay \/ WindowEnds \/ UNCHANGED vars
             \/ \E p \in Plugs : \/ SendFrame(p) \/ Queue(p)
                                 \/ \E sent \in BOOLEAN : StartPublish(p, sent) \/ Stop(p, sent)
      PROVE  Idles
  BY <1>1 DEF Connect, Disconnect, Replay, WindowEnds, vars, SendFrame, Queue, StartPublish, Stop,
     Idles, history
<1>2. ASSUME NEW p \in Plugs, StartCommit(p) PROVE Idles
  <2>1. UNCHANGED <<status, last, notice, told, torn>>
    BY <1>2 DEF StartCommit, history
  <2>2. \A t \in Tasks : task'[t] = task[t] \/ (task[t].at = "snapped" /\ task'[t].at = "snapped")
    BY <1>2, StartCommitTasks
  <2> QED
    BY <2>1, <2>2 DEF Idles, UnsettledTask
<1>3. ASSUME NEW t \in Tasks, SweepPublish(t) \/ Reconcile(t) \/ SweepSnapshot(t) PROVE Idles
  <2>1. UNCHANGED <<status, last, notice, told, torn>> /\ task[t].at \in {"snapped", "frame", "sweep"}
    BY <1>3 DEF SweepPublish, Reconcile, SweepSnapshot, history
  <2>2. \A s \in Tasks : s # t => task'[s] = task[s]
    BY <1>3 DEF SweepPublish, Reconcile, SweepSnapshot, Shape
  <2>3. task'[t].at \in {"idle", "snapped"}
    <3>1. CASE SweepPublish(t) \/ Reconcile(t)
      BY <3>1, NoTaskIdle DEF SweepPublish, Reconcile, Shape
    <3>2. CASE SweepSnapshot(t)
      <4> DEFINE A == {p \in Plugs : Active(p)}
      <4>1. task' = [task EXCEPT ![t].at = "snapped", ![t].active = A]
        BY <3>2 DEF SweepSnapshot
      <4> HIDE DEF A
      <4>2. task'[t] = [task[t] EXCEPT !.at = "snapped", !.active = A]
        BY <4>1 DEF Shape
      <4> QED
        BY <2>1, <4>2, Running
    <3> QED
      BY <1>3, <3>1, <3>2
  <2> QED
    BY <2>1, <2>2, <2>3 DEF Idles, UnsettledTask
<1> QED
  BY <1>1, <1>2, <1>3 DEF Next, Step, Touches, Delivered

\* Who hears of the gateway is alone if nobody was at work.
LEMMA HearsAlone ==
    ASSUME Shape, NEW u \in Tasks, Hears(u), ~torn'
    PROVE  /\ \A s \in Tasks : ~UnsettledTask(s)
           /\ \A s \in Tasks : s # u => ~UnsettledTask(s)'
           /\ ~torn \/ notice.at = "none"
<1>1. ~Unsettled /\ (~torn \/ notice.at = "none")
  BY DEF Hears, Torn
<1>2. \A s \in Tasks : ~UnsettledTask(s)
  BY <1>1 DEF Unsettled, UnsettledTask
<1>3. \A s \in Tasks : s # u => ~UnsettledTask(s)'
  BY <1>2 DEF Hears, UnsettledTask
<1> QED
  BY <1>1, <1>2, <1>3

\* A frame that nobody hears finds what was heard last to be the same.
LEMMA IgnoredIdles ==
    ASSUME Shape, Chain, Receive, Ignored
    PROVE  /\ UNCHANGED <<status, last, notice, told, torn>>
           /\ \A s \in Tasks : task'[s] = task[s] \/ (~UnsettledTask(s) /\ ~UnsettledTask(s)')
<1>1. last = "ONLINE" /\ last' = "ONLINE"
  BY Received, Messages DEF Ignored, Chain, Before
<1>2. \A s \in Tasks : task'[s] = task[s] \/ (~UnsettledTask(s) /\ ~UnsettledTask(s)')
  BY DEF Ignored, UnsettledTask
<1> QED
  BY <1>1, <1>2, Received DEF Ignored

\* ArmNotice and CancelNotice settle their handler.
LEMMA Settles ==
    ASSUME Shape, NEW t \in Tasks, ArmNotice(t) \/ CancelNotice(t)
    PROVE  /\ task[t].at \in {"offline", "online"} /\ task'[t].at \in {"idle", "sweep"}
           /\ \A s \in Tasks : s # t => task'[s] = task[s]
           /\ UNCHANGED <<status, last, told, torn>>
           /\ ArmNotice(t) => /\ task[t].at = "offline"
                              /\ notice'.at = "armed" /\ ~notice'.back
           /\ CancelNotice(t) => notice'.at = "none" /\ ~notice'.back
<1>1. CASE ArmNotice(t)
  BY <1>1, NoTaskIdle DEF ArmNotice, CancelNotice, Shape, history
<1>2. CASE CancelNotice(t)
  <2>1. task[t].at = "online" /\ task' = [task EXCEPT ![t].at = "sweep"] /\ notice' = NoNotice
    BY <1>2 DEF CancelNotice
  <2>2. task'[t] = [task[t] EXCEPT !.at = "sweep"] /\ \A s \in Tasks : s # t => task'[s] = task[s]
    BY <2>1 DEF Shape
  <2>3. task'[t].at = "sweep"
    BY <2>1, <2>2, Running
  <2> QED
    BY <1>2, <2>1, <2>2, <2>3 DEF CancelNotice, ArmNotice, NoNotice, history
<1> QED
  BY <1>1, <1>2

\* The status a handler that is alone stores is what it heard.
LEMMA StoresHeard ==
    ASSUME Shape, Alone, ~torn, NEW t \in Tasks, StoreStatus(t)
    PROVE  /\ status' = Says(task[t].msg) /\ status' = last /\ task[t].was = status
           /\ \A s \in Tasks : s # t => ~UnsettledTask(s)
           /\ IsFrame(task[t].msg) => notice.at = "none"
<1>1. task[t].at = "read"
      /\ status' = (IF task[t].was = Says(task[t].msg) THEN status ELSE Says(task[t].msg))
  BY Stores
<1>2. Knows(t) /\ \A s \in Tasks : UnsettledTask(s) /\ UnsettledTask(t) => s = t
  BY DEF Alone
<1> QED
  BY <1>1, <1>2 DEF Knows, UnsettledTask

LEMMA AloneStep == ASSUME Shape, Chain, Alone, Pending, [Next]_vars PROVE Alone'
<1> SUFFICES ASSUME ~torn'
             PROVE  /\ \A s, t \in Tasks : UnsettledTask(s)' /\ UnsettledTask(t)' => s = t
                    /\ \A t \in Tasks : Knows(t)'
                    /\ (\A t \in Tasks : task'[t].at # "read") => status' = last'
  BY DEF Alone
<1>1. CASE Idles
  <2>1. ~torn
    BY <1>1 DEF Idles
  <2>2. \A t \in Tasks : Knows(t)'
    BY <1>1, <2>1 DEF Alone, Idles, Knows, UnsettledTask, Says, IsOnline, IsFrame, StatusMsg
  <2>3. (\A t \in Tasks : task'[t].at # "read") => \A t \in Tasks : task[t].at # "read"
    BY <1>1 DEF Idles, UnsettledTask
  <2> QED
    BY <1>1, <2>1, <2>2, <2>3 DEF Alone, Idles, UnsettledTask
<1>2. ASSUME NEW t \in Tasks, Receive, Hears(t)
      PROVE  /\ \A s, r \in Tasks : UnsettledTask(s)' /\ UnsettledTask(r)' => s = r
             /\ \A s \in Tasks : Knows(s)'
             /\ (\A s \in Tasks : task'[s].at # "read") => status' = last'
  <2>1. /\ \A s \in Tasks : ~UnsettledTask(s)
        /\ ~torn \/ notice.at = "none"
    BY <1>2, HearsAlone
  <2>2. \A s \in Tasks : s # t => ~UnsettledTask(s)'
    BY <1>2, HearsAlone
  <2>3. \A s \in Tasks : s # t => Knows(s)'
    BY <2>2 DEF Knows, UnsettledTask
  <2>4. IsFrame(wire[1]) => notice.at = "none"
    <3> SUFFICES ASSUME IsFrame(wire[1]), ~torn PROVE notice.at = "none"
      BY <2>1
    <3>1. last = "ONLINE"
      BY <1>2, Received DEF Chain, Before
    <3>2. \A s \in Tasks : task[s].at # "read" /\ task[s].at # "online"
      BY <2>1 DEF UnsettledTask
    <3>3. status = "ONLINE"
      BY <3>1, <3>2 DEF Alone
    <3> QED
      BY <3>2, <3>3 DEF Pending
  <2>5. Knows(t)'
    <3>1. /\ task'[t].at = "read" /\ task'[t].was = status /\ UNCHANGED <<status, notice>>
          /\ task'[t].msg = wire[1] /\ last' = Says(wire[1])
      BY <1>2, Received DEF Hears
    <3> QED
      BY <2>4, <3>1 DEF Knows, Says, IsOnline, IsFrame, StatusMsg
  <2> QED
    BY <1>2, <2>2, <2>3, <2>5 DEF Hears
<1>3. ASSUME NEW t \in Tasks, StoreStatus(t)
      PROVE  /\ \A s, r \in Tasks : UnsettledTask(s)' /\ UnsettledTask(r)' => s = r
             /\ \A s \in Tasks : Knows(s)'
             /\ (\A s \in Tasks : task'[s].at # "read") => status' = last'
  <2>1. ~torn /\ UNCHANGED last /\ \A s \in Tasks : s # t => task'[s] = task[s]
    BY <1>3, Stores
  <2>2. /\ status' = Says(task[t].msg) /\ status' = last /\ task[t].was = status
        /\ \A s \in Tasks : s # t => ~UnsettledTask(s)
    BY <1>3, <2>1, StoresHeard
  <2>3. \A s \in Tasks : s # t => ~UnsettledTask(s)' /\ Knows(s)'
    BY <2>1, <2>2 DEF UnsettledTask, Knows
  <2>4. task'[t].at # "read"
    BY <1>3, Stores, AfterWriteFacts
  <2>5. ASSUME task'[t].at = "offline"
        PROVE  status' = "OFFLINE" /\ told' = 0 /\ notice'.at = "none"
    <3>1. BecameOffline(task[t]) /\ task[t].at = "read"
      BY <1>3, <2>5, Stores, AfterWriteFacts
    <3>2. status' = "OFFLINE" /\ status = "ONLINE"
      BY <2>2, <3>1 DEF BecameOffline
    <3>3. told = 0 /\ told' = told
      BY <1>3, <3>2, Stores DEF Pending
    <3>4. \A s \in Tasks : task[s].at # "online"
      BY <2>2, <3>1 DEF UnsettledTask
    <3>5. notice.at = "none"
      BY <2>1, <3>2, <3>4 DEF Pending
    <3> QED
      BY <1>3, <3>2, <3>3, <3>5, Stores
  <2>6. Knows(t)'
    BY <2>4, <2>5 DEF Knows
  <2> QED
    BY <2>1, <2>2, <2>3, <2>6
<1>4. ASSUME NEW t \in Tasks, ArmNotice(t) \/ CancelNotice(t)
      PROVE  /\ \A s, r \in Tasks : UnsettledTask(s)' /\ UnsettledTask(r)' => s = r
             /\ \A s \in Tasks : Knows(s)'
             /\ (\A s \in Tasks : task'[s].at # "read") => status' = last'
  <2>1. /\ task[t].at \in {"offline", "online"} /\ task'[t].at \in {"idle", "sweep"}
        /\ \A s \in Tasks : s # t => task'[s] = task[s]
        /\ UNCHANGED <<status, last, told, torn>>
    BY <1>4, Settles
  <2>2. \A s \in Tasks : s # t => ~UnsettledTask(s)
    BY <2>1 DEF Alone, UnsettledTask
  <2>3. \A s \in Tasks : ~UnsettledTask(s)' /\ Knows(s)' /\ task[s].at # "read"
    BY <2>1, <2>2 DEF UnsettledTask, Knows
  <2> QED
    BY <2>1, <2>3 DEF Alone
<1>5. ASSUME NoticeDue \/ NoticeSent
      PROVE  /\ \A s, r \in Tasks : UnsettledTask(s)' /\ UnsettledTask(r)' => s = r
             /\ \A s \in Tasks : Knows(s)'
             /\ (\A s \in Tasks : task'[s].at # "read") => status' = last'
  <2>1. UNCHANGED <<status, last, torn, task>> /\ notice.at # "none"
    BY <1>5 DEF NoticeDue, NoticeSent, history
  <2>2. \A s \in Tasks : Knows(s)'
    BY <2>1 DEF Alone, Knows, Says, IsOnline, IsFrame, StatusMsg
  <2> QED
    BY <2>1, <2>2 DEF Alone, UnsettledTask
<1>6. ~Restart
  BY DEF Restart
<1> QED
  BY <1>1, <1>2, <1>3, <1>4, <1>5, <1>6, Kinds, Delivers, IgnoredIdles DEF Touches, Idles

LEMMA PendingStep == ASSUME Shape, Chain, Alone, Pending, [Next]_vars PROVE Pending'
<1>1. CASE Idles
  <2>1. \A t \in Tasks : task[t].at = "online" => task'[t].at = "online"
    BY <1>1 DEF Idles, UnsettledTask
  <2> QED
    BY <1>1, <2>1 DEF Pending, Idles
<1>2. ASSUME NEW t \in Tasks, Receive, Hears(t) PROVE Pending'
  <2>1. /\ UNCHANGED <<status, notice, told>>
        /\ ~torn' => /\ \A s \in Tasks : ~UnsettledTask(s)
                     /\ ~torn \/ notice.at = "none"
    BY <1>2, Received, HearsAlone
  <2>2. ~torn' => \A s \in Tasks : task[s].at # "online"
    BY <2>1 DEF UnsettledTask
  <2> QED
    BY <2>1, <2>2 DEF Pending
<1>3. ASSUME NEW t \in Tasks, StoreStatus(t) PROVE Pending'
  <2>1. /\ status' \in Words /\ told' = (IF status' = "ONLINE" THEN 0 ELSE told)
        /\ notice'.at = notice.at /\ UNCHANGED torn
        /\ notice'.back <=> notice.back \/ (notice.at = "due" /\ status' = "ONLINE")
        /\ task[t].at = "read" /\ task'[t] = AfterWrite(task[t])
    BY <1>3, Stores
  <2>2. ASSUME ~torn', notice'.at # "none", status' # "OFFLINE"
        PROVE  \E s \in Tasks : task'[s].at = "online"
    <3>1. status' = "ONLINE"
      BY <2>1, <2>2 DEF Words
    <3>2. status' = Says(task[t].msg) /\ (IsFrame(task[t].msg) => notice.at = "none")
      BY <1>3, <2>1, <2>2, StoresHeard
    <3>3. IsOnline(task[t].msg)
      BY <2>1, <2>2, <3>1, <3>2 DEF Says
    <3>4. task'[t].at = "online"
      BY <2>1, <3>3, AfterWriteFacts
    <3> QED
      BY <3>4
  <2> QED
    BY <2>1, <2>2 DEF Pending, Words
<1>4. ASSUME NEW t \in Tasks, ArmNotice(t) PROVE Pending'
  <2>1. /\ UNCHANGED <<status, told, torn>> /\ task[t].at = "offline"
        /\ notice'.at = "armed" /\ ~notice'.back
    BY <1>4, Settles
  <2>2. ~torn => status = "OFFLINE" /\ told = 0
    BY <2>1 DEF Alone, Knows
  <2> QED
    BY <2>1, <2>2 DEF Pending
<1>5. ASSUME NEW t \in Tasks, CancelNotice(t) PROVE Pending'
  <2>1. UNCHANGED <<status, told, torn>> /\ notice'.at = "none" /\ ~notice'.back
    BY <1>5, Settles
  <2> QED
    BY <2>1 DEF Pending
<1>6. CASE NoticeDue
  <2>1. notice.at = "armed" /\ ~notice.back /\ UNCHANGED <<status, told, torn, task>>
    BY <1>6 DEF NoticeDue, Pending, history
  <2>2. CASE status = "OFFLINE"
    <3>1. notice' = [notice EXCEPT !.at = "due"]
      BY <1>6, <2>2 DEF NoticeDue
    <3>2. notice'.at = "due" /\ ~notice'.back
      BY <2>1, <3>1 DEF Shape
    <3> QED
      BY <2>1, <2>2, <3>2 DEF Pending
  <2>3. CASE status # "OFFLINE"
    BY <1>6, <2>1, <2>3 DEF NoticeDue, Pending, NoNotice
  <2> QED
    BY <2>2, <2>3
<1>7. CASE NoticeSent
  <2>1. /\ notice.at = "due" /\ notice' = NoNotice /\ UNCHANGED <<status, torn, task>>
        /\ told' = IF notice.back THEN told ELSE told + 1
    BY <1>7 DEF NoticeSent
  <2>2. notice'.at = "none" /\ ~notice'.back
    BY <2>1 DEF NoNotice
  <2> QED
    BY <2>1, <2>2 DEF Pending
<1>8. CASE Restart
  <2>1. torn' /\ notice' = NoNotice /\ UNCHANGED <<status, told>>
    BY <1>8 DEF Restart
  <2> QED
    BY <2>1 DEF Pending, NoNotice
<1> QED
  BY <1>1, <1>2, <1>3, <1>4, <1>5, <1>6, <1>7, <1>8, Kinds, Delivers, IgnoredIdles
     DEF Touches, Idles
-----------------------------------------------------------------------------
(* The theorems *)

LEMMA InitInv == Init => Inv
<1> SUFFICES ASSUME Init PROVE Inv
  OBVIOUS
<1>1. \A t \in Tasks : task[t] = NoTask /\ task[t].at = "idle"
  BY NoTaskIdle DEF Init
<1>2. notice.at = "none" /\ ~notice.back
      /\ notice \in [at : {"none", "armed", "due"}, back : BOOLEAN]
  BY DEF Init, NoNotice
<1>3. wire \in Seq(Message) /\ Len(wire) = 0
  BY EmptySeq DEF Init
<1>4. Shape
  BY <1>2, <1>3, NoTaskIdle DEF Init, Shape, Words
<1>5. Chain
  BY <1>3 DEF Init, Chain, Before
<1>6. Alone /\ Pending /\ Snapshots
  BY <1>1, <1>2 DEF Init, Alone, Knows, UnsettledTask, Pending, Snapshots
<1> QED
  BY <1>4, <1>5, <1>6 DEF Inv

LEMMA NextInv == Inv /\ [Next]_vars => Inv'
BY ShapeStep, ChainStep, AloneStep, PendingStep, SnapshotsStep DEF Inv

LEMMA SpecInv == Spec => []Inv
BY InitInv, NextInv, PTL DEF Spec

LEMMA InvLink == Inv => LinkConsistent
<1> SUFFICES ASSUME Inv PROVE LinkConsistent
  OBVIOUS
<1>1. Shape /\ Alone
  BY DEF Inv
<1>2. \A t \in Tasks :
         task[t].at \in {"idle", "read", "online", "offline", "frame", "sweep", "snapped"}
  BY <1>1, Running
<1>3. TypeOK
  BY <1>1, <1>2 DEF TypeOK, Shape, Words
<1>4. wire = <<>> => (last = "ONLINE") = up
  <2>1. wire = <<>> => Before(Len(wire) + 1) = last
    BY EmptySeq DEF Before
  <2> QED
    BY <1>1, <2>1 DEF Inv, Chain, Shape
<1>5. StatusFollows
  BY <1>1, <1>4 DEF StatusFollows, Alone
<1> QED
  BY <1>3, <1>5 DEF LinkConsistent

\* What _persist_gateway_status and the throttled _persist_gateway_seen leave in
\* gateways.status is what the gateway last said, and with nothing on the way
\* whether it is connected, as long as their coroutines did not overlap.
THEOREM LinkConsistentHolds == Spec => []LinkConsistent
BY SpecInv, InvLink, PTL

\* Only a notice that still stands counts as one.
LEMMA ToldMoves ==
    ASSUME Shape, [Next]_vars
    PROVE  \/ told' = told \/ told' = 0
           \/ NoticeSent /\ ~notice.back /\ told' = told + 1
<1>1. CASE Idles
  BY <1>1 DEF Idles
<1>4. ASSUME NEW t \in Tasks, Delivered(t) PROVE told' = told
  BY <1>4, Delivers, Received
<1>2. ASSUME NEW t \in Tasks, StoreStatus(t) \/ ArmNotice(t) \/ CancelNotice(t)
      PROVE  told' = told \/ told' = 0
  BY <1>2 DEF StoreStatus, ArmNotice, CancelNotice, history
<1>3. CASE Restart \/ NoticeDue \/ NoticeSent
  BY <1>3 DEF Restart, NoticeDue, NoticeSent, history
<1> QED
  BY <1>1, <1>2, <1>3, <1>4, Kinds DEF Touches

\* _deferred_offline_notice tells the drivers of an outage once, and of one
\* that is there.
THEOREM ToldOnceTrulyHolds == Spec => ToldOnceTruly
<1>1. ASSUME Inv, [Next]_vars
      PROVE  [told' > told => torn \/ told = 0]_vars
  <2>1. Shape /\ Pending /\ told \in Nat
    BY <1>1 DEF Inv, Shape
  <2>2. NoticeSent /\ ~notice.back => torn \/ told = 0
    BY <2>1 DEF Pending, NoticeSent
  <2> QED
    BY <1>1, <2>1, <2>2, ToldMoves
<1>2. ASSUME Inv, [Next]_vars
      PROVE  [notice.at = "due" /\ told' = told + 1 => status = "OFFLINE"]_vars
  <2>1. Shape /\ Pending /\ told \in Nat
    BY <1>2 DEF Inv, Shape
  <2>2. told' = told + 1 => NoticeSent /\ ~notice.back
    BY <1>2, <2>1, ToldMoves
  <2> QED
    BY <2>1, <2>2 DEF Pending
<1> QED
  BY <1>1, <1>2, SpecInv, PTL DEF Spec, ToldOnceTruly, ToldOnce, ToldTheTruth

\* The OFFs of _republish_off_for_orphaned_plugs and of _persist_telemetry cut
\* no running session but one that began behind the sweep's back.
THEOREM SparesRunningHolds == Spec => SparesRunning
<1>1. ASSUME Inv, [Next]_vars, NEW p \in Plugs, p \in relay \ relay', Active(p)'
      PROVE  \E t \in Tasks : task[t].at = "snapped" /\ p \in task[t].since
  <2>1. Shape /\ Snapshots
    BY <1>1 DEF Inv
  <2>2. ASSUME NEW t \in Tasks, SweepPublish(t)
        PROVE  task[t].at = "snapped" /\ p \in task[t].since
    <3>1. /\ task[t].at = "snapped" /\ UNCHANGED session
          /\ relay' = Switch(Plugs \ (task[t].active \cup held))
      BY <2>2 DEF SweepPublish, charging
    <3>2. Active(p) /\ p \notin task[t].active
      BY <1>1, <3>1 DEF Active, Switch
    <3> QED
      BY <2>1, <3>1, <3>2 DEF Snapshots
  <2>3. ASSUME NEW t \in Tasks, Reconcile(t) PROVE FALSE
    <3>1. UNCHANGED session /\ \E q : ~Active(q) /\ relay' = Switch({q})
      BY <1>1, <2>3 DEF Reconcile, charging
    <3> QED
      BY <1>1, <3>1 DEF Active, Switch
  <2>4. ASSUME NEW q \in Plugs, NEW sent \in BOOLEAN, StartPublish(q, sent) \/ Stop(q, sent)
        PROVE  FALSE
    BY <1>1, <2>1, <2>4 DEF StartPublish, Stop, Switch, Active, Shape
  <2>5. ASSUME NEW q \in Plugs, SendFrame(q) \/ StartCommit(q) \/ Queue(q) PROVE UNCHANGED relay
    BY <2>5 DEF SendFrame, StartCommit, Queue, gateway
  <2>6. ASSUME NEW t \in Tasks, StoreStatus(t) \/ ArmNotice(t) \/ CancelNotice(t) \/ SweepSnapshot(t)
        PROVE  UNCHANGED relay
    BY <2>6 DEF StoreStatus, ArmNotice, CancelNotice, SweepSnapshot, gateway
  <2>7. ASSUME \/ Connect \/ Disconnect \/ Replay \/ Restart \/ WindowEnds \/ NoticeDue \/ NoticeSent
               \/ UNCHANGED vars
        PROVE  UNCHANGED relay
    BY <2>7 DEF Connect, Disconnect, Replay, Restart, WindowEnds, NoticeDue, NoticeSent, vars, gateway
  <2>8. ASSUME NEW t \in Tasks, Delivered(t) PROVE UNCHANGED relay
    BY <2>1, <2>8, Delivers, Received
  <2> QED
    BY <1>1, <2>2, <2>3, <2>4, <2>5, <2>6, <2>7, <2>8 DEF Next, Step, Delivered
<1>2. ASSUME Inv, [Next]_vars
      PROVE  [\A p \in Plugs : p \in relay \ relay' /\ Active(p)' =>
                  \E t \in Tasks : task[t].at = "snapped" /\ p \in task[t].since]_vars
  BY <1>1, <1>2
<1> QED
  BY <1>2, SpecInv, PTL DEF Spec, SparesRunning
-----------------------------------------------------------------------------
(* Metering: the meter, the ring and the topic *)
\* The reading of the meter.
Reading == SessionKwh(meter)

\* The last live reading that was persisted; none counts as 0.
Heard == IF lastRaw < 0 THEN 0 ELSE lastRaw

\* How far a meter is below the baseline.
Sunk(m) == IF m < 0 THEN -m ELSE 0

MeterShape ==
    /\ MeteringTypeOK
    /\ saved <= meter /\ 1 - PersistEvery <= saved
    /\ Reading <= counted /\ counted <= delivered
    /\ offset + Heard <= billed
    /\ draining => connected /\ ring # <<>>
    /\ \A i \in 1 .. Len(topic) : topic[i].boot <= reboots

\* The energy that the readings never showed is what reboots have set the meter
\* back below the baseline, and each by less than the threshold.
LossBounded == delivered - counted + Sunk(meter) <= reboots * (PersistEvery - 1)

\* lag[b]: by how much the readings of boot b fall short of the energy counted,
\* which is what the reboots up to it have set it back.
Lags(lag) ==
    /\ lag[reboots] = counted - Reading
    /\ \A a, b \in 0 .. reboots : a <= b => lag[a] <= lag[b]

\* The readings in the order in which they were published.  Place 0 is the last
\* live one that was persisted, of the given boot; the others are on the topic.
Places == 0 .. Len(topic)
LiveAt(i) == i = 0 \/ topic[i].live
BootOf(i, boot) == IF i = 0 THEN boot ELSE topic[i].boot
TotalOf(i, lag, boot) == IF i = 0 THEN Heard + lag[boot] ELSE topic[i].raw + lag[topic[i].boot]

\* No reading claims more than was counted, boots follow each other, and
\* live readings rise.
Ordered(lag, boot) ==
    /\ \A i \in Places : TotalOf(i, lag, boot) <= counted
    /\ \A i, j \in Places : i < j =>
          /\ BootOf(i, boot) <= BootOf(j, boot)
          /\ LiveAt(i) /\ LiveAt(j) => TotalOf(i, lag, boot) <= TotalOf(j, lag, boot)
    /\ \A k \in 1 .. Len(ring) : ring[k] <= Reading
    /\ offset <= lag[boot] /\ billed <= counted

Quiet(from, to) == \A k \in from + 1 .. to - 1 : ~LiveAt(k)

\* A boot begins where the last live reading before it ended.
Joined(i, j, lag, boot) ==
    \/ BootOf(i, boot) = BootOf(j, boot)
    \/ TotalOf(i, lag, boot) = TotalOf(j, lag, boot)

\* What the meter shows has been billed or is on its way.
Underway(lag, boot) ==
    \/ billed = counted
    \/ \E i \in 1 .. Len(topic) : TotalOf(i, lag, boot) = counted
    \/ ring # <<>> /\ ring[Len(ring)] = Reading

\* Nothing has been lost or masked, so the readings have no gap.
Continuous(lag, boot) ==
    /\ offset = lag[boot]
    /\ fresh => ~hidden /\ \A k \in 1 .. Len(ring) : ring[k] = Reading
    /\ \A i, j \in Places : i < j /\ LiveAt(i) /\ Quiet(i, j) => Joined(i, j, lag, boot)
    /\ \A i \in Places : LiveAt(i) /\ Quiet(i, Len(topic) + 1) =>
          /\ fresh \/ BootOf(i, boot) = reboots
          /\ ~hidden => TotalOf(i, lag, boot) = counted
    /\ Underway(lag, boot)

Consistent(lag, boot) ==
    Lags(lag) /\ Ordered(lag, boot) /\ (~lost /\ ~masked => Continuous(lag, boot))

Accounted ==
    ~mixed => \E lag \in [0 .. reboots -> Nat], boot \in 0 .. reboots : Consistent(lag, boot)

MeterInv == MeterShape /\ LossBounded /\ Accounted
-----------------------------------------------------------------------------
(* The sequences *)

LEMMA Readings ==
    ASSUME MeterShape
    PROVE  /\ Len(topic) \in Nat /\ DOMAIN topic = 1 .. Len(topic)
           /\ \A i \in 1 .. Len(topic) : /\ topic[i] \in Frame /\ topic[i].raw \in Nat
                                        /\ topic[i].live \in BOOLEAN
                                        /\ topic[i].boot \in 0 .. reboots
           /\ Len(ring) \in Nat /\ \A k \in 1 .. Len(ring) : ring[k] \in Nat
           /\ Heard \in Nat
<1>1. topic \in Seq(Frame) /\ ring \in Seq(Nat)
  BY DEF MeterShape, MeteringTypeOK
<1>2. Len(topic) \in Nat /\ DOMAIN topic = 1 .. Len(topic) /\ Len(ring) \in Nat
  BY <1>1
<1>3. ASSUME NEW i \in 1 .. Len(topic)
      PROVE  /\ topic[i] \in Frame /\ topic[i].raw \in Nat /\ topic[i].live \in BOOLEAN
             /\ topic[i].boot \in 0 .. reboots
  <2>1. topic[i] \in Frame
    BY <1>1, <1>2, ElementOfSeq
  <2> QED
    BY <2>1 DEF Frame, MeterShape, MeteringTypeOK
<1>4. \A k \in 1 .. Len(ring) : ring[k] \in Nat
  BY <1>1, ElementOfSeq
<1>5. Heard \in Nat
  BY DEF Heard, MeterShape, MeteringTypeOK
<1> QED
  BY <1>2, <1>3, <1>4, <1>5

\* Where a reading was before the one at place i was taken off the topic.
Shift(i, k) == IF k < i THEN k ELSE k + 1

LEMMA Removed ==
    ASSUME MeterShape, NEW i \in 1 .. Len(topic), topic' = RemoveAt(topic, i)
    PROVE  /\ topic' \in Seq(Frame) /\ Len(topic') = Len(topic) - 1
           /\ \A k \in 1 .. Len(topic') : topic'[k] = topic[Shift(i, k)]
<1> DEFINE a == SubSeq(topic, 1, i - 1)
           b == SubSeq(topic, i + 1, Len(topic))
<1>1. topic \in Seq(Frame) /\ Len(topic) \in Nat /\ i \in Nat
  BY Readings DEF MeterShape, MeteringTypeOK
<1>2. a \in Seq(Frame) /\ Len(a) = i - 1 /\ \A k \in 1 .. i - 1 : a[k] = topic[k]
  BY <1>1, SubSeqProperties
<1>3. b \in Seq(Frame) /\ Len(b) = Len(topic) - i /\ \A k \in 1 .. Len(topic) - i : b[k] = topic[i + k]
  BY <1>1, SubSeqProperties
<1>4. topic' = a \o b
  BY DEF RemoveAt
<1> HIDE DEF a, b
<1>5. topic' \in Seq(Frame) /\ Len(topic') = Len(topic) - 1
  BY <1>1, <1>2, <1>3, <1>4, ConcatProperties
<1>6. ASSUME NEW k \in 1 .. Len(topic') PROVE topic'[k] = topic[Shift(i, k)]
  <2>1. topic'[k] = IF k <= Len(a) THEN a[k] ELSE b[k - Len(a)]
    BY <1>1, <1>2, <1>3, <1>4, <1>5, ConcatProperties
  <2>2. CASE k < i
    BY <1>1, <1>2, <2>1, <2>2 DEF Shift
  <2>3. CASE ~(k < i)
    <3>1. k - (i - 1) \in 1 .. Len(topic) - i /\ i + (k - (i - 1)) = k + 1
      BY <1>1, <1>5, <2>3
    <3>2. topic'[k] = b[k - (i - 1)]
      BY <1>1, <1>2, <1>5, <2>1, <2>3
    <3> QED
      BY <1>3, <2>3, <3>1, <3>2 DEF Shift
  <2> QED
    BY <2>2, <2>3
<1> QED
  BY <1>5, <1>6

\* A reading is appended to the topic.
LEMMA Published ==
    ASSUME MeterShape, NEW f \in Frame, topic' = Append(topic, f)
    PROVE  /\ topic' \in Seq(Frame) /\ Len(topic') = Len(topic) + 1
           /\ topic'[Len(topic) + 1] = f /\ \A k \in 1 .. Len(topic) : topic'[k] = topic[k]
  BY AppendProperties DEF MeterShape, MeteringTypeOK

\* offline_log_append: the newest reading is the last, and the rest was there.
Logged(m) ==
    /\ ring' \in Seq(Nat) /\ ring' # <<>> /\ Len(ring') \in 1 .. RingSize
    /\ ring'[Len(ring')] = m
    /\ \A k \in 1 .. Len(ring') - 1 : \E j \in 1 .. Len(ring) : ring'[k] = ring[j]

LEMMA Buffered ==
    ASSUME MeterShape, NEW m \in Nat, ring' = OfflineLogAppend(m)
    PROVE  Logged(m)
<1> DEFINE kept == IF Len(ring) < RingSize THEN ring ELSE Tail(ring)
<1>1. ring \in Seq(Nat) /\ Len(ring) \in Nat /\ Len(ring) <= RingSize /\ RingSize \in Nat \ {0}
  BY MeteringAssumption DEF MeterShape, MeteringTypeOK
<1>2. /\ kept \in Seq(Nat) /\ Len(kept) \in Nat /\ Len(kept) < RingSize
      /\ \A k \in 1 .. Len(kept) : \E j \in 1 .. Len(ring) : kept[k] = ring[j]
  <2>1. CASE Len(ring) < RingSize
    BY <1>1, <2>1
  <2>2. CASE ~(Len(ring) < RingSize)
    <3>1. ring # <<>> /\ Len(ring) = RingSize
      BY <1>1, <2>2
    <3>2. Tail(ring) \in Seq(Nat) /\ Len(Tail(ring)) = Len(ring) - 1
          /\ \A k \in 1 .. Len(Tail(ring)) : Tail(ring)[k] = ring[k + 1]
      BY <1>1, <3>1, HeadTailProperties
    <3>3. kept = Tail(ring)
      BY <2>2
    <3>4. \A k \in 1 .. Len(ring) - 1 : k + 1 \in 1 .. Len(ring)
      BY <1>1
    <3> QED
      BY <1>1, <3>1, <3>2, <3>3, <3>4
  <2> QED
    BY <2>1, <2>2
<1>3. ring' = Append(kept, m)
  BY DEF OfflineLogAppend
<1> HIDE DEF kept
<1>4. /\ ring' \in Seq(Nat) /\ Len(ring') = Len(kept) + 1 /\ ring'[Len(kept) + 1] = m
      /\ \A k \in 1 .. Len(kept) : ring'[k] = kept[k]
  BY <1>2, <1>3, AppendProperties
<1>5. ring' # <<>>
  BY <1>2, <1>4
<1> QED
  BY <1>1, <1>2, <1>4, <1>5 DEF Logged

\* resync_offline_logs takes the oldest reading out.
LEMMA Drained ==
    ASSUME MeterShape, ring # <<>>, ring' = Tail(ring)
    PROVE  /\ ring' \in Seq(Nat) /\ Len(ring') = Len(ring) - 1 /\ Len(ring) >= 1
           /\ Head(ring) = ring[1] /\ Head(ring) \in Nat
           /\ \A k \in 1 .. Len(ring') : ring'[k] = ring[k + 1]
<1>1. ring \in Seq(Nat)
  BY DEF MeterShape, MeteringTypeOK
<1> QED
  BY <1>1, HeadTailProperties

LEMMA MeterShapeInit == MeteringInit => MeterShape
<1> SUFFICES ASSUME MeteringInit PROVE MeterShape
  OBVIOUS
<1>1. ring = <<>> /\ topic = <<>> /\ Len(ring) = 0 /\ Len(topic) = 0 /\ 0 <= RingSize
  BY MeteringAssumption DEF MeteringInit
<1>2. ring \in Seq(Nat) /\ topic \in Seq(Frame)
  BY <1>1
<1>3. /\ delivered = 0 /\ counted = 0 /\ meter = 0 /\ reboots = 0
      /\ saved \in Int /\ saved <= 0 /\ 1 - PersistEvery <= saved
      /\ billed = 0 /\ offset = 0 /\ lastRaw = -1
  BY MeteringAssumption DEF MeteringInit
<1>4. /\ booting = FALSE /\ fresh = FALSE /\ connected = TRUE /\ draining = FALSE
      /\ lost = FALSE /\ hidden = FALSE /\ mixed = FALSE /\ masked = FALSE
  BY DEF MeteringInit
<1>5. MeteringTypeOK
  <2>1. /\ booting \in BOOLEAN /\ fresh \in BOOLEAN /\ connected \in BOOLEAN /\ draining \in BOOLEAN
        /\ lost \in BOOLEAN /\ hidden \in BOOLEAN /\ mixed \in BOOLEAN /\ masked \in BOOLEAN
    BY <1>4
  <2>2. /\ delivered \in Nat /\ counted \in Nat /\ meter \in Int /\ saved \in Int /\ reboots \in Nat
        /\ billed \in Nat /\ offset \in Nat /\ lastRaw \in Nat \cup {-1}
    BY <1>3
  <2>3. ring \in Seq(Nat) /\ Len(ring) <= RingSize /\ topic \in Seq(Frame)
    BY <1>1, <1>2
  <2> QED
    BY <2>1, <2>2, <2>3 DEF MeteringTypeOK
<1>6. Reading = 0 /\ Heard = 0
  BY <1>3 DEF Reading, SessionKwh, Heard
<1> QED
  BY <1>1, <1>3, <1>4, <1>5, <1>6 DEF MeterShape

\* What a poll does to the reading and to the energy counted.
Rises(accrued, gain) ==
    /\ gain \in Nat /\ gain <= accrued
    /\ Reading \in Nat /\ Reading' \in Nat /\ Reading' = Reading + gain
    /\ counted' = counted + gain /\ delivered' = delivered + accrued
    /\ Sunk(meter') \in Nat /\ Sunk(meter') = Sunk(meter) + gain - accrued

LEMMA Rising ==
    ASSUME MeterShape, NEW accrued \in {0, 1}, Poll(accrued), NEW gain, gain = Rise(accrued)
    PROVE  Rises(accrued, gain)
<1>1. meter \in Int /\ meter' = meter + accrued
  BY DEF MeterShape, MeteringTypeOK, Poll
<1>2. counted' = counted + gain /\ delivered' = delivered + accrued
  BY DEF Poll
<1>3. gain = SessionKwh(meter + accrued) - SessionKwh(meter)
  BY DEF Rise
<1>4. /\ gain \in Nat /\ gain <= accrued
      /\ Reading \in Nat /\ Reading' \in Nat /\ Reading' = Reading + gain
  BY <1>1, <1>3 DEF Reading, SessionKwh
<1>5. Sunk(meter') \in Nat /\ Sunk(meter') = Sunk(meter) + gain - accrued
  BY <1>1, <1>3 DEF Sunk, SessionKwh
<1> QED
  BY <1>2, <1>4, <1>5 DEF Rises

\* The meter is saved, or stays within the threshold of what is.
LEMMA Saves ==
    ASSUME MeterShape, NEW accrued \in {0, 1}, Poll(accrued)
    PROVE  /\ meter' \in Int /\ saved' \in Int /\ saved' <= meter'
           /\ 1 - PersistEvery <= saved'
<1>1. /\ meter \in Int /\ saved \in Int /\ saved <= meter /\ 1 - PersistEvery <= saved
      /\ meter' = meter + accrued /\ saved' = PersistedAfter(meter')
  BY DEF MeterShape, MeteringTypeOK, Poll
<1> QED
  BY <1>1, MeteringAssumption DEF PersistedAfter

\* What is on the topic after a step that keeps the boots in order.
LEMMA MeterShapeStep == ASSUME MeterShape, [MeteringNext]_meteringVars PROVE MeterShape'
<1> USE DEF gatewayVars, sessionVars
<1>1. ASSUME NEW accrued \in {0, 1}, Poll(accrued) PROVE MeterShape'
  <2>1. /\ booting' = FALSE /\ fresh' = (fresh /\ ~connected)
        /\ hidden' = (~connected /\ (hidden \/ Rise(accrued) > 0))
        /\ masked' = (masked \/ (fresh /\ Rise(accrued) > 0))
        /\ UNCHANGED <<connected, draining, reboots, lost, mixed, sessionVars>>
    BY <1>1 DEF Poll
  <2>2. /\ delivered' \in Nat /\ counted' \in Nat /\ Reading' \in Nat
        /\ Reading' <= counted' /\ counted' <= delivered'
    <3>1. PICK gain : gain = Rise(accrued)
      OBVIOUS
    <3>2. Rises(accrued, gain)
      BY <1>1, <3>1, Rising
    <3>3. counted \in Nat /\ delivered \in Nat /\ Reading <= counted /\ counted <= delivered
      BY DEF MeterShape, MeteringTypeOK
    <3> QED
      BY <3>2, <3>3 DEF Rises
  <2>5. /\ booting' \in BOOLEAN /\ fresh' \in BOOLEAN /\ hidden' \in BOOLEAN /\ masked' \in BOOLEAN
    BY <2>1, Zenon DEF MeterShape, MeteringTypeOK
  <2>6. /\ meter' \in Int /\ saved' \in Int /\ saved' <= meter' /\ 1 - PersistEvery <= saved'
    BY <1>1, Saves
  <2>7. offset' + Heard' <= billed'
    BY <2>1 DEF MeterShape, Heard
  <2>8. SessionKwh(meter') = Reading'
    BY DEF Reading
  <2>9. ASSUME ring' \in Seq(Nat), Len(ring') <= RingSize, topic' \in Seq(Frame)
        PROVE  MeteringTypeOK'
    <3>1. /\ connected' \in BOOLEAN /\ draining' \in BOOLEAN /\ lost' \in BOOLEAN /\ mixed' \in BOOLEAN
          /\ reboots' \in Nat /\ billed' \in Nat /\ offset' \in Nat /\ lastRaw' \in Nat \cup {-1}
      BY <2>1 DEF MeterShape, MeteringTypeOK
    <3> QED
      BY <2>2, <2>5, <2>6, <2>9, <3>1 DEF MeteringTypeOK
  <2>3. CASE connected
    <3> DEFINE f == [raw |-> Reading', live |-> TRUE, boot |-> reboots]
    <3>1. f \in Frame /\ f.boot = reboots
      BY <2>2 DEF Frame, MeterShape, MeteringTypeOK
    <3>2. topic' = Append(topic, f) /\ ring' = ring
      BY <1>1, <2>3, <2>8 DEF Poll
    <3> HIDE DEF f
    <3>3. /\ topic' \in Seq(Frame) /\ Len(topic') = Len(topic) + 1
          /\ topic'[Len(topic) + 1] = f /\ \A k \in 1 .. Len(topic) : topic'[k] = topic[k]
      BY <3>1, <3>2, Published
    <3>4. \A k \in 1 .. Len(topic') : topic'[k].boot <= reboots
      <4>1. reboots \in Nat /\ Len(topic) \in Nat /\ \A k \in 1 .. Len(topic) : topic[k].boot <= reboots
        BY Readings DEF MeterShape, MeteringTypeOK
      <4> QED
        BY <3>1, <3>3, <4>1
    <3>5. MeteringTypeOK'
      BY <2>9, <3>2, <3>3 DEF MeterShape, MeteringTypeOK
    <3> QED
      BY <2>1, <2>2, <2>6, <2>7, <3>2, <3>3, <3>4, <3>5 DEF MeterShape
  <2>4. CASE ~connected
    <3>1. ring' = OfflineLogAppend(Reading') /\ topic' = topic
      BY <1>1, <2>4, <2>8 DEF Poll
    <3>2. ring' \in Seq(Nat) /\ ring' # <<>> /\ Len(ring') <= RingSize
      BY <2>2, <3>1, Buffered, MeteringAssumption DEF Logged
    <3>3. MeteringTypeOK'
      BY <2>9, <3>1, <3>2 DEF MeterShape, MeteringTypeOK
    <3> QED
      BY <2>1, <2>2, <2>4, <2>6, <2>7, <3>1, <3>2, <3>3 DEF MeterShape
  <2> QED
    BY <2>3, <2>4
<1>2. CASE MqttDisconnected
  BY <1>2 DEF MqttDisconnected, MeterShape, MeteringTypeOK, Reading, Heard
<1>3. CASE MqttConnected
  BY <1>3 DEF MqttConnected, MeterShape, MeteringTypeOK, Reading, Heard
<1>4. CASE Resync
  <2> DEFINE f == [raw |-> Head(ring), live |-> FALSE, boot |-> reboots]
  <2>1. ring # <<>> /\ ring' = Tail(ring) /\ draining' = (Len(ring) > 1)
        /\ topic' = Append(topic, f)
        /\ UNCHANGED <<delivered, counted, meter, saved, booting, fresh, connected, reboots>>
        /\ UNCHANGED <<lost, hidden, mixed, masked, sessionVars>>
    BY <1>4 DEF Resync, MeterShape
  <2>2. /\ ring' \in Seq(Nat) /\ Len(ring') = Len(ring) - 1 /\ Len(ring) >= 1
        /\ Head(ring) \in Nat
    BY <2>1, Drained
  <2>3. f \in Frame /\ f.boot = reboots
    BY <2>2 DEF Frame, MeterShape, MeteringTypeOK
  <2> HIDE DEF f
  <2>4. /\ topic' \in Seq(Frame) /\ Len(topic') = Len(topic) + 1
        /\ topic'[Len(topic) + 1] = f /\ \A k \in 1 .. Len(topic) : topic'[k] = topic[k]
    BY <2>1, <2>3, Published
  <2>5. \A k \in 1 .. Len(topic') : topic'[k].boot <= reboots
    <3>1. reboots \in Nat /\ Len(topic) \in Nat /\ \A k \in 1 .. Len(topic) : topic[k].boot <= reboots
      BY Readings DEF MeterShape, MeteringTypeOK
    <3> QED
      BY <2>3, <2>4, <3>1
  <2>6. draining' => connected /\ ring' # <<>>
    <3>1. draining /\ connected
      BY <1>4 DEF Resync, MeterShape
    <3>2. Len(ring) > 1 => Len(ring') > 0
      BY <2>2, Readings
    <3>3. Len(ring') > 0 => ring' # <<>>
      OBVIOUS
    <3> QED
      BY <2>1, <3>1, <3>2, <3>3
  <2>7. Len(ring') <= RingSize
    BY <2>2, Readings, MeteringAssumption DEF MeterShape, MeteringTypeOK
  <2>8. draining' \in BOOLEAN
    BY <2>1
  <2>9. MeteringTypeOK'
    BY <2>1, <2>2, <2>4, <2>7, <2>8 DEF MeterShape, MeteringTypeOK
  <2>10. Reading' = Reading /\ Heard' = Heard
    BY <2>1 DEF Reading, Heard
  <2> QED
    BY <2>1, <2>4, <2>5, <2>6, <2>9, <2>10 DEF MeterShape
<1>5. CASE Reboot
  <2>1. /\ reboots' = reboots + 1 /\ meter' = saved /\ booting' = TRUE /\ fresh' = TRUE
        /\ connected' = FALSE /\ draining' = FALSE
        /\ UNCHANGED <<delivered, counted, saved, ring, topic, lost, hidden, sessionVars>>
    BY <1>5 DEF Reboot
  <2>4. mixed' \in BOOLEAN /\ masked' \in BOOLEAN
    BY <1>5, Zenon DEF Reboot, MeterShape, MeteringTypeOK
  <2>2. \A i \in 1 .. Len(topic) : topic[i].boot <= reboots + 1
    BY Readings DEF MeterShape, MeteringTypeOK
  <2>3. reboots + 1 \in Nat
    BY DEF MeterShape, MeteringTypeOK
  <2> QED
    <3>1. /\ booting' \in BOOLEAN /\ fresh' \in BOOLEAN /\ connected' \in BOOLEAN
          /\ draining' \in BOOLEAN /\ ~draining' /\ mixed' \in BOOLEAN /\ masked' \in BOOLEAN
      BY <2>1, <2>4
    <3>2. MeteringTypeOK'
      BY <2>1, <2>3, <3>1 DEF MeterShape, MeteringTypeOK
    <3>3. saved' <= meter' /\ 1 - PersistEvery <= saved'
      BY <2>1 DEF MeterShape, MeteringTypeOK
    <3>4. Reading' <= counted' /\ counted' <= delivered'
      <4>1. SessionKwh(saved) <= SessionKwh(meter) /\ SessionKwh(saved) \in Nat /\ SessionKwh(meter) \in Nat
        BY DEF MeterShape, MeteringTypeOK, SessionKwh
      <4>2. SessionKwh(meter) <= counted /\ counted <= delivered /\ counted \in Nat
        BY DEF MeterShape, MeteringTypeOK, Reading
      <4>3. Reading' = SessionKwh(saved)
        BY <2>1 DEF Reading
      <4> QED
        BY <2>1, <4>1, <4>2, <4>3
    <3>5. offset' + Heard' <= billed'
      BY <2>1 DEF MeterShape, Heard
    <3> QED
      BY <2>1, <2>2, <3>1, <3>2, <3>3, <3>4, <3>5 DEF MeterShape
<1>6. ASSUME NEW i \in DOMAIN topic, Lose(i) \/ Persist(i) PROVE MeterShape'
  <2>1. i \in 1 .. Len(topic) /\ topic' = RemoveAt(topic, i) /\ UNCHANGED <<gatewayVars, hidden>>
    BY <1>6, Readings DEF Lose, Persist
  <2>2. /\ topic' \in Seq(Frame) /\ Len(topic') = Len(topic) - 1
        /\ \A k \in 1 .. Len(topic') : topic'[k] = topic[Shift(i, k)]
    BY <2>1, Removed
  <2>3. \A k \in 1 .. Len(topic') : topic'[k].boot <= reboots
    <3>1. \A k \in 1 .. Len(topic') : Shift(i, k) \in 1 .. Len(topic)
      BY <2>1, <2>2, Readings DEF Shift
    <3> QED
      BY <2>2, <3>1 DEF MeterShape
  <2>4. /\ lost' \in BOOLEAN /\ mixed' \in BOOLEAN /\ masked' \in BOOLEAN
        /\ billed' \in Nat /\ offset' \in Nat /\ lastRaw' \in Nat \cup {-1}
        /\ offset' + Heard' <= billed'
    <3>1. CASE Lose(i)
      BY <3>1 DEF Lose, MeterShape, MeteringTypeOK, Heard
    <3>2. CASE Persist(i)
      <4>1. topic[i].raw \in Nat
        BY <2>1, Readings
      <4>2. Banked(topic[i]) \in Nat
        BY <4>1 DEF Banked, MeterShape, MeteringTypeOK
      <4>3. /\ lost' = lost /\ masked' = masked /\ mixed' = (mixed \/ Overtakes(i))
            /\ offset' = offset + Banked(topic[i])
            /\ lastRaw' = IF topic[i].live THEN topic[i].raw ELSE lastRaw
            /\ billed' = IF offset' + topic[i].raw > billed THEN offset' + topic[i].raw ELSE billed
        BY <3>2 DEF Persist
      <4>4. /\ lost \in BOOLEAN /\ masked \in BOOLEAN /\ mixed \in BOOLEAN
            /\ billed \in Nat /\ offset \in Nat /\ lastRaw \in Nat \cup {-1}
            /\ offset + Heard <= billed
        BY DEF MeterShape, MeteringTypeOK
      <4>5. /\ offset' \in Nat /\ lastRaw' \in Nat \cup {-1} /\ billed' \in Nat
            /\ billed' >= billed /\ billed' >= offset' + topic[i].raw
        BY <4>1, <4>2, <4>3, <4>4
      <4>6. offset' + Heard' <= billed'
        <5>1. CASE topic[i].live
          BY <4>1, <4>3, <4>5, <5>1 DEF Heard
        <5>2. CASE ~topic[i].live
          <6>1. Banked(topic[i]) = 0
            BY <5>2 DEF Banked
          <6>2. Heard' = Heard /\ offset' = offset /\ Heard \in Nat
            BY <4>3, <4>4, <5>2, <6>1, Readings DEF Heard
          <6> QED
            BY <4>4, <4>5, <6>2
        <5> QED
          BY <5>1, <5>2
      <4> QED
        BY <4>3, <4>4, <4>5, <4>6
    <3> QED
      BY <1>6, <3>1, <3>2
  <2>5. MeteringTypeOK'
    BY <2>1, <2>2, <2>4 DEF MeterShape, MeteringTypeOK
  <2>6. Reading' = Reading
    BY <2>1 DEF Reading
  <2> QED
    BY <2>1, <2>2, <2>3, <2>4, <2>5, <2>6 DEF MeterShape
<1>7. CASE UNCHANGED meteringVars
  BY <1>7 DEF meteringVars, MeterShape, MeteringTypeOK, Reading, Heard
<1> QED
  BY <1>1, <1>2, <1>3, <1>4, <1>5, <1>6, <1>7 DEF MeteringNext
-----------------------------------------------------------------------------
(* The account of the readings *)

LEMMA Measures ==
    ASSUME MeterShape, NEW lag \in [0 .. reboots -> Nat], NEW boot \in 0 .. reboots
    PROVE  \A i \in Places : /\ i \in Nat /\ TotalOf(i, lag, boot) \in Nat
                             /\ BootOf(i, boot) \in 0 .. reboots /\ LiveAt(i) \in BOOLEAN
<1> SUFFICES ASSUME NEW i \in Places
             PROVE  /\ i \in Nat /\ TotalOf(i, lag, boot) \in Nat
                    /\ BootOf(i, boot) \in 0 .. reboots /\ LiveAt(i) \in BOOLEAN
  OBVIOUS
<1>1. CASE i = 0
  BY <1>1, Readings DEF TotalOf, BootOf, LiveAt
<1>2. CASE i # 0
  <2>1. i \in 1 .. Len(topic) /\ i \in Nat
    BY <1>2, Readings DEF Places
  <2>2. topic[i].raw \in Nat /\ topic[i].live \in BOOLEAN /\ topic[i].boot \in 0 .. reboots
    BY <2>1, Readings
  <2>3. TotalOf(i, lag, boot) = topic[i].raw + lag[topic[i].boot] /\ BootOf(i, boot) = topic[i].boot
    BY <1>2 DEF TotalOf, BootOf
  <2>4. LiveAt(i) = topic[i].live
    BY <1>2, <2>2 DEF LiveAt
  <2> QED
    BY <2>1, <2>2, <2>3, <2>4
<1> QED
  BY <1>1, <1>2

\* A step that touches neither the readings nor the bill.
LEMMA AccountSame ==
    ASSUME Accounted, UNCHANGED <<counted, Reading, fresh, ring, topic, hidden, reboots,
                                  billed, offset, lastRaw, lost, mixed, masked>>
    PROVE  Accounted'
<1>1. /\ Places' = Places
      /\ \A i, lag, boot : /\ LiveAt(i)' = LiveAt(i) /\ BootOf(i, boot)' = BootOf(i, boot)
                            /\ TotalOf(i, lag, boot)' = TotalOf(i, lag, boot)
  BY DEF Places, LiveAt, BootOf, TotalOf, Heard
<1>2. \A i, j : Quiet(i, j)' = Quiet(i, j)
  BY DEF Quiet, LiveAt
<1>3. \A i, j, lag, boot : Joined(i, j, lag, boot)' = Joined(i, j, lag, boot)
  BY DEF Joined, LiveAt, BootOf, TotalOf, Heard
<1>4. ASSUME NEW lag, NEW boot, Consistent(lag, boot) PROVE Consistent(lag, boot)'
  <2>1. Lags(lag)' /\ lost' = lost /\ masked' = masked
    BY <1>4 DEF Consistent, Lags
  <2>2. Ordered(lag, boot)'
    BY <1>1, <1>4 DEF Consistent, Ordered
  <2>3. ASSUME ~lost, ~masked PROVE Continuous(lag, boot)'
    <3>1. Underway(lag, boot)'
      BY <1>1, <1>4, <2>3 DEF Consistent, Continuous, Underway
    <3> QED
      BY <1>1, <1>2, <1>3, <1>4, <2>3, <3>1 DEF Consistent, Continuous
  <2> QED
    BY <2>1, <2>2, <2>3 DEF Consistent
<1> QED
  BY <1>4 DEF Accounted

\* The places after a reading has been appended at place n.
Grown(f, lag, boot, n) ==
    /\ n \in Nat /\ n # 0 /\ Len(topic') = n /\ Places' = Places \cup {n} /\ n \notin Places
    /\ \A i \in Places : /\ i < n /\ LiveAt(i)' = LiveAt(i)
                         /\ BootOf(i, boot)' = BootOf(i, boot)
                         /\ TotalOf(i, lag, boot)' = TotalOf(i, lag, boot)
    /\ LiveAt(n)' = f.live /\ BootOf(n, boot)' = f.boot
    /\ TotalOf(n, lag, boot)' = f.raw + lag[f.boot]

LEMMA Extended ==
    ASSUME MeterShape, NEW f \in Frame, topic' = Append(topic, f), lastRaw' = lastRaw,
           NEW lag, NEW boot, NEW n, n = Len(topic) + 1
    PROVE  Grown(f, lag, boot, n)
<1>1. /\ Len(topic') = n /\ topic'[n] = f /\ \A k \in 1 .. Len(topic) : topic'[k] = topic[k]
  BY Published
<1>2. Len(topic) \in Nat
  BY Readings
<1>3. n \in Nat /\ n # 0 /\ Places' = Places \cup {n} /\ n \notin Places
  BY <1>1, <1>2 DEF Places
<1>4. ASSUME NEW i \in Places
      PROVE  /\ i < n /\ LiveAt(i)' = LiveAt(i) /\ BootOf(i, boot)' = BootOf(i, boot)
             /\ TotalOf(i, lag, boot)' = TotalOf(i, lag, boot)
  <2>1. CASE i = 0
    BY <1>2, <2>1 DEF LiveAt, BootOf, TotalOf, Heard
  <2>2. CASE i # 0
    <3>1. i \in 1 .. Len(topic) /\ i < n
      BY <1>2, <2>2 DEF Places
    <3>2. topic'[i] = topic[i]
      BY <1>1, <3>1
    <3> QED
      BY <2>2, <3>1, <3>2 DEF LiveAt, BootOf, TotalOf
  <2> QED
    BY <2>1, <2>2
<1>5. f.live \in BOOLEAN
  BY DEF Frame
<1>6. /\ LiveAt(n)' = f.live /\ BootOf(n, boot)' = f.boot
      /\ TotalOf(n, lag, boot)' = f.raw + lag[f.boot]
  BY <1>1, <1>3, <1>5 DEF LiveAt, BootOf, TotalOf
<1> QED
  BY <1>1, <1>3, <1>4, <1>6 DEF Grown

\* A reading of the present boot is published.
LEMMA OrderedAppended ==
    ASSUME MeterShape, NEW lag \in [0 .. reboots -> Nat], NEW boot \in 0 .. reboots,
           Ordered(lag, boot), NEW f \in Frame, topic' = Append(topic, f), f.boot = reboots,
           UNCHANGED <<lastRaw, offset, billed>>, counted' \in Nat, counted <= counted',
           f.raw + lag[reboots] <= counted', f.live => counted <= f.raw + lag[reboots],
           \A k \in 1 .. Len(ring') : ring'[k] <= Reading'
    PROVE  Ordered(lag, boot)'
<1>1. PICK n : n = Len(topic) + 1
  OBVIOUS
<1>2. /\ n \in Nat /\ Places' = Places \cup {n} /\ n \notin Places
      /\ \A i \in Places : /\ i < n /\ LiveAt(i)' = LiveAt(i)
                           /\ BootOf(i, boot)' = BootOf(i, boot)
                           /\ TotalOf(i, lag, boot)' = TotalOf(i, lag, boot)
      /\ LiveAt(n)' = f.live /\ BootOf(n, boot)' = reboots
      /\ TotalOf(n, lag, boot)' = f.raw + lag[reboots]
  <2>1. Grown(f, lag, boot, n)
    BY <1>1, Extended
  <2> QED
    BY <2>1 DEF Grown
<1>3. \A i \in Places : /\ i \in Nat /\ TotalOf(i, lag, boot) \in Nat
                        /\ BootOf(i, boot) \in 0 .. reboots /\ LiveAt(i) \in BOOLEAN
  BY Measures
<1>4. counted \in Nat /\ billed \in Nat /\ f.raw \in Nat /\ lag[reboots] \in Nat /\ reboots \in Nat
  BY DEF MeterShape, MeteringTypeOK, Frame
<1>5. \A i \in Places' : TotalOf(i, lag, boot)' <= counted'
  BY <1>2, <1>3, <1>4 DEF Ordered
<1>6. ASSUME NEW i \in Places', NEW j \in Places', i < j
      PROVE  /\ BootOf(i, boot)' <= BootOf(j, boot)'
             /\ LiveAt(i)' /\ LiveAt(j)' => TotalOf(i, lag, boot)' <= TotalOf(j, lag, boot)'
  <2>1. i \in Places
    BY <1>2, <1>3, <1>6
  <2>2. CASE j \in Places
    BY <1>2, <1>6, <2>1, <2>2 DEF Ordered
  <2>3. CASE j = n
    <3>1. BootOf(i, boot) <= reboots /\ TotalOf(i, lag, boot) <= counted
      BY <1>3, <1>4, <2>1 DEF Ordered
    <3>2. TotalOf(i, lag, boot) \in Nat
      BY <1>3, <2>1
    <3> QED
      BY <1>2, <1>4, <2>1, <2>3, <3>1, <3>2
  <2> QED
    BY <1>2, <2>2, <2>3
<1>7. offset' <= lag[boot] /\ billed' <= counted'
  BY <1>4 DEF Ordered
<1> QED
  BY <1>5, <1>6, <1>7 DEF Ordered

LEMMA ContinuousAppended ==
    ASSUME MeterShape, NEW lag \in [0 .. reboots -> Nat], NEW boot \in 0 .. reboots,
           Continuous(lag, boot), NEW f \in Frame, topic' = Append(topic, f), f.boot = reboots,
           UNCHANGED <<lastRaw, offset, reboots>>,
           fresh => f.raw + lag[reboots] = counted,
           f.live => ~fresh' /\ counted' = f.raw + lag[reboots],
           ~f.live => fresh' = fresh /\ hidden' = hidden /\ counted' = counted,
           fresh' => ~hidden' /\ \A k \in 1 .. Len(ring') : ring'[k] = Reading',
           Underway(lag, boot)'
    PROVE  Continuous(lag, boot)'
<1>1. PICK n : n = Len(topic) + 1
  OBVIOUS
<1>2. /\ n \in Nat /\ Len(topic') = n /\ Places' = Places \cup {n} /\ n \notin Places
      /\ \A i \in Places : /\ i < n /\ LiveAt(i)' = LiveAt(i)
                           /\ BootOf(i, boot)' = BootOf(i, boot)
                           /\ TotalOf(i, lag, boot)' = TotalOf(i, lag, boot)
      /\ LiveAt(n)' = f.live /\ BootOf(n, boot)' = reboots
      /\ TotalOf(n, lag, boot)' = f.raw + lag[reboots]
  <2>1. Grown(f, lag, boot, n)
    BY <1>1, Extended
  <2> QED
    BY <2>1 DEF Grown
<1>3. \A i \in Places : i \in Nat
  BY Measures
<1>4. ASSUME NEW i \in Places, NEW j \in Places', Quiet(i, j)' PROVE Quiet(i, j)
  <2> SUFFICES ASSUME NEW k \in i + 1 .. j - 1 PROVE ~LiveAt(k)
    BY DEF Quiet
  <2>1. k \in Places
    BY <1>1, <1>2, <1>3, Readings DEF Places
  <2>2. ~LiveAt(k)'
    BY <1>4 DEF Quiet
  <2> QED
    BY <1>2, <2>1, <2>2
<1>5. ASSUME NEW i \in Places, LiveAt(i), Quiet(i, n)
      PROVE  /\ fresh \/ BootOf(i, boot) = reboots
             /\ ~hidden => TotalOf(i, lag, boot) = counted
  BY <1>1, <1>5 DEF Continuous
<1>6. ASSUME NEW i \in Places', NEW j \in Places', i < j, LiveAt(i)', Quiet(i, j)'
      PROVE  Joined(i, j, lag, boot)'
  <2>1. i \in Places /\ Quiet(i, j) /\ LiveAt(i)
    BY <1>2, <1>3, <1>4, <1>6
  <2>2. CASE j \in Places
    <3>1. Joined(i, j, lag, boot)
      BY <1>6, <2>1, <2>2 DEF Continuous
    <3> QED
      BY <1>2, <2>1, <2>2, <3>1 DEF Joined
  <2>3. CASE j = n
    <3>1. CASE BootOf(i, boot) = reboots
      BY <1>2, <2>1, <2>3, <3>1 DEF Joined
    <3>2. CASE fresh
      <4>1. ~hidden
        BY <3>2 DEF Continuous
      <4>2. TotalOf(i, lag, boot) = f.raw + lag[reboots]
        BY <1>5, <2>1, <2>3, <3>2, <4>1
      <4> QED
        BY <1>2, <2>1, <2>3, <4>2 DEF Joined
    <3> QED
      BY <1>5, <2>1, <2>3, <3>1, <3>2
  <2> QED
    BY <1>2, <2>2, <2>3
<1>7. ASSUME NEW i \in Places', LiveAt(i)', Quiet(i, n + 1)'
      PROVE  /\ fresh' \/ BootOf(i, boot)' = reboots
             /\ ~hidden' => TotalOf(i, lag, boot)' = counted'
  <2>1. CASE i = n
    BY <1>2, <1>7, <2>1
  <2>2. CASE i \in Places
    <3>1. n \in i + 1 .. (n + 1) - 1 /\ \A k \in i + 1 .. n - 1 : k \in i + 1 .. (n + 1) - 1
      BY <1>2, <1>3, <2>2
    <3>2. ~LiveAt(n)' /\ \A k \in i + 1 .. n - 1 : ~LiveAt(k)'
      BY <1>7, <3>1 DEF Quiet
    <3>3. Quiet(i, n)'
      BY <3>2 DEF Quiet
    <3>4. Quiet(i, n) /\ LiveAt(i)
      BY <1>2, <1>4, <1>7, <2>2, <3>3
    <3> QED
      BY <1>2, <1>5, <2>2, <3>2, <3>4
  <2> QED
    BY <1>2, <2>1, <2>2
<1>8. \A i \in Places' : LiveAt(i)' /\ Quiet(i, Len(topic) + 1)' =>
          (fresh' \/ BootOf(i, boot)' = reboots') /\ (~hidden' => TotalOf(i, lag, boot)' = counted')
  <2>1. \A i : Quiet(i, Len(topic) + 1)' <=> Quiet(i, n + 1)'
    BY <1>2 DEF Quiet
  <2> QED
    BY <1>7, <2>1
<1>9. offset' = lag[boot]
  BY DEF Continuous
<1> QED
  BY <1>6, <1>8, <1>9 DEF Continuous

\* The places after a step that leaves the readings alone.
Still(lag, boot) ==
    /\ Places' = Places
    /\ \A i \in Places : /\ LiveAt(i)' = LiveAt(i) /\ BootOf(i, boot)' = BootOf(i, boot)
                         /\ TotalOf(i, lag, boot)' = TotalOf(i, lag, boot)
    /\ \A i, j : Quiet(i, j)' = Quiet(i, j)
    /\ \A i, j \in Places : Joined(i, j, lag, boot)' = Joined(i, j, lag, boot)

LEMMA StillPlaces == ASSUME UNCHANGED <<topic, lastRaw>>, NEW lag, NEW boot PROVE Still(lag, boot)
<1>1. /\ Places' = Places
      /\ \A i : /\ LiveAt(i)' = LiveAt(i) /\ BootOf(i, boot)' = BootOf(i, boot)
                /\ TotalOf(i, lag, boot)' = TotalOf(i, lag, boot)
  BY DEF Places, LiveAt, BootOf, TotalOf, Heard
<1>2. \A i, j : Quiet(i, j)' = Quiet(i, j)
  BY DEF Quiet, LiveAt
<1>3. \A i, j : Joined(i, j, lag, boot)' = Joined(i, j, lag, boot)
  BY DEF Joined, LiveAt, BootOf, TotalOf, Heard
<1> QED
  BY <1>1, <1>2, <1>3 DEF Still

\* A poll hides nothing that is not recorded: before the first live reading of a
\* boot nothing rises, unless it is masked.
Recorded(gain) ==
    /\ masked' <=> masked \/ (fresh /\ gain > 0)
    /\ fresh' <=> fresh /\ ~connected
    /\ hidden' <=> ~connected /\ (hidden \/ gain > 0)
    /\ UNCHANGED <<reboots, lost, lastRaw, offset, billed>>

\* What a poll does, with gain what the reading rises by.
LEMMA Polled ==
    ASSUME MeterShape, NEW accrued \in {0, 1}, Poll(accrued)
    PROVE  \E gain \in Nat :
              /\ Recorded(gain)
              /\ Reading \in Nat /\ Reading' \in Nat /\ Reading' = Reading + gain
              /\ counted \in Nat /\ counted' \in Nat /\ counted' = counted + gain
<1>1. PICK gain : gain = Rise(accrued)
  OBVIOUS
<1>2. Rises(accrued, gain)
  BY <1>1, Rising
<1>3. gain \in Nat /\ Reading \in Nat /\ Reading' \in Nat /\ Reading' = Reading + gain
      /\ counted' = counted + gain
  BY <1>2 DEF Rises
<1>4. counted \in Nat
  BY DEF MeterShape, MeteringTypeOK
<1>5. Recorded(gain)
  <2>1. /\ masked' = (masked \/ (fresh /\ gain > 0)) /\ fresh' = (fresh /\ ~connected)
        /\ hidden' = (~connected /\ (hidden \/ gain > 0))
        /\ UNCHANGED <<reboots, lost, sessionVars>>
    BY <1>1 DEF Poll
  <2> QED
    BY <2>1 DEF Recorded, sessionVars
<1> QED
  BY <1>3, <1>4, <1>5

\* A reading is taken and published.
LEMMA LivePoll ==
    ASSUME MeterShape, NEW lag \in [0 .. reboots -> Nat], NEW boot \in 0 .. reboots,
           Consistent(lag, boot), NEW accrued \in {0, 1}, Poll(accrued), connected
    PROVE  Consistent(lag, boot)'
<1> DEFINE f == [raw |-> Reading', live |-> TRUE, boot |-> reboots]
<1>0. PICK gain \in Nat :
         /\ Recorded(gain)
         /\ Reading \in Nat /\ Reading' \in Nat /\ Reading' = Reading + gain
         /\ counted \in Nat /\ counted' \in Nat /\ counted' = counted + gain
  BY Polled
<1>1. /\ topic' = Append(topic, f) /\ ring' = ring
      /\ UNCHANGED <<reboots, lost, lastRaw, offset, billed>>
  BY <1>0 DEF Poll, Reading, Recorded
<1>2. reboots \in Nat /\ counted <= counted' /\ Reading <= Reading'
  BY <1>0 DEF MeterShape, MeteringTypeOK
<1>3. f \in Frame /\ f.raw = Reading' /\ f.live /\ f.boot = reboots
  BY <1>0, <1>2 DEF Frame
<1> HIDE DEF f
<1>4. lag[reboots] = counted - Reading /\ lag[reboots] \in Nat
  BY <1>2 DEF Consistent, Lags
<1>5. f.raw + lag[reboots] = counted'
  BY <1>0, <1>3, <1>4
<1>6. Lags(lag)'
  <2>1. lag[reboots'] = counted' - Reading'
    BY <1>0, <1>1, <1>4
  <2> QED
    BY <1>1, <2>1 DEF Consistent, Lags
<1>7. \A k \in 1 .. Len(ring') : ring'[k] <= Reading'
  <2>1. \A k \in 1 .. Len(ring) : ring[k] \in Nat /\ ring[k] <= Reading
    BY Readings DEF Consistent, Ordered
  <2> QED
    BY <1>0, <1>1, <1>2, <2>1
<1>8. Ordered(lag, boot)'
  <2>1. Ordered(lag, boot)
    BY DEF Consistent
  <2>2. /\ f.raw + lag[reboots] <= counted' /\ counted <= f.raw + lag[reboots]
        /\ UNCHANGED <<lastRaw, offset, billed>>
    BY <1>0, <1>1, <1>2, <1>5
  <2> QED
    BY <1>0, <1>1, <1>2, <1>3, <1>7, <2>1, <2>2, OrderedAppended
<1>9. PICK n : n = Len(topic) + 1
  OBVIOUS
<1>10. Grown(f, lag, boot, n)
  BY <1>1, <1>3, <1>9, Extended
<1>11. Underway(lag, boot)'
  <2>1. n \in 1 .. Len(topic') /\ TotalOf(n, lag, boot)' = counted'
    BY <1>3, <1>5, <1>10 DEF Grown
  <2> QED
    BY <2>1 DEF Underway
<1>12. ASSUME ~lost', ~masked' PROVE Continuous(lag, boot)'
  <2>1. ~lost /\ ~masked /\ ~fresh' /\ (fresh => ~(gain > 0))
    BY <1>0, <1>12 DEF Recorded
  <2>2. Continuous(lag, boot)
    BY <2>1 DEF Consistent
  <2>3. fresh => f.raw + lag[reboots] = counted
    BY <1>0, <1>5, <2>1
  <2> QED
    BY <1>1, <1>3, <1>5, <1>11, <2>1, <2>2, <2>3, ContinuousAppended
<1> QED
  BY <1>6, <1>8, <1>12 DEF Consistent

\* A reading is taken and buffered.
LEMMA HiddenPoll ==
    ASSUME MeterShape, NEW lag \in [0 .. reboots -> Nat], NEW boot \in 0 .. reboots,
           Consistent(lag, boot), NEW accrued \in {0, 1}, Poll(accrued), ~connected
    PROVE  Consistent(lag, boot)'
<1>0. PICK gain \in Nat :
         /\ Recorded(gain)
         /\ Reading \in Nat /\ Reading' \in Nat /\ Reading' = Reading + gain
         /\ counted \in Nat /\ counted' \in Nat /\ counted' = counted + gain
  BY Polled
<1>1. /\ topic' = topic /\ ring' = OfflineLogAppend(Reading')
      /\ UNCHANGED <<reboots, lost, lastRaw, offset, billed>>
  BY <1>0 DEF Poll, Reading, Recorded
<1>2. reboots \in Nat /\ counted <= counted' /\ Reading <= Reading' /\ billed \in Nat
  BY <1>0 DEF MeterShape, MeteringTypeOK
<1>3. Still(lag, boot)
  BY <1>1, StillPlaces
<1>4. /\ ring' # <<>> /\ Len(ring') \in Nat /\ ring'[Len(ring')] = Reading'
      /\ \A k \in 1 .. Len(ring') - 1 : \E j \in 1 .. Len(ring) : ring'[k] = ring[j]
  <2>1. Logged(Reading')
    BY <1>0, <1>1, Buffered
  <2> QED
    BY <2>1 DEF Logged
<1>5. Lags(lag)'
  <2>1. lag[reboots] = counted - Reading
    BY DEF Consistent, Lags
  <2>2. lag[reboots'] = counted' - Reading'
    BY <1>0, <1>1, <2>1
  <2> QED
    BY <1>1, <2>2 DEF Consistent, Lags
<1>6. Ordered(lag, boot)'
  <2>1. ASSUME NEW k \in 1 .. Len(ring') PROVE ring'[k] <= Reading'
    <3>1. CASE k = Len(ring')
      BY <1>0, <1>4, <3>1
    <3>2. CASE k # Len(ring')
      <4>1. PICK j \in 1 .. Len(ring) : ring'[k] = ring[j]
        BY <1>4, <3>2
      <4>2. ring[j] \in Nat
        BY Readings
      <4>3. ring[j] <= Reading
        BY DEF Consistent, Ordered
      <4>4. ring[j] <= Reading'
        BY <1>0, <1>2, <4>2, <4>3
      <4> QED
        BY <4>1, <4>4
    <3> QED
      BY <3>1, <3>2
  <2>2. \A i \in Places : TotalOf(i, lag, boot) <= counted'
    <3>1. \A i \in Places : TotalOf(i, lag, boot) \in Nat
      BY Measures
    <3> QED
      BY <1>0, <1>2, <3>1 DEF Consistent, Ordered
  <2>3. billed <= counted'
    BY <1>0, <1>2 DEF Consistent, Ordered
  <2> QED
    BY <1>1, <1>3, <2>1, <2>2, <2>3 DEF Consistent, Ordered, Still
<1>7. ASSUME ~lost', ~masked' PROVE Continuous(lag, boot)'
  <2>1. ~lost /\ ~masked /\ (fresh' <=> fresh) /\ (fresh => ~(gain > 0))
        /\ (hidden' <=> hidden \/ gain > 0)
    BY <1>0, <1>7 DEF Recorded
  <2>2. Continuous(lag, boot)
    BY <2>1 DEF Consistent
  <2>3. Underway(lag, boot)'
    BY <1>4 DEF Underway
  <2>4. ASSUME fresh PROVE ~hidden' /\ \A k \in 1 .. Len(ring') : ring'[k] = Reading'
    <3>1. ~hidden' /\ Reading' = Reading /\ \A k \in 1 .. Len(ring) : ring[k] = Reading
      BY <1>0, <2>1, <2>2, <2>4 DEF Continuous
    <3>2. ASSUME NEW k \in 1 .. Len(ring') PROVE ring'[k] = Reading'
      <4>1. CASE k = Len(ring')
        BY <1>4, <4>1
      <4>2. CASE k # Len(ring')
        <5>1. PICK j \in 1 .. Len(ring) : ring'[k] = ring[j]
          BY <1>4, <4>2
        <5> QED
          BY <3>1, <5>1
      <4> QED
        BY <4>1, <4>2
    <3> QED
      BY <3>1, <3>2
  <2>5. ~hidden' => ~hidden /\ counted' = counted
    BY <1>0, <2>1
  <2>6. \A i \in Places : LiveAt(i) /\ Quiet(i, Len(topic) + 1) =>
            /\ fresh' \/ BootOf(i, boot) = reboots
            /\ ~hidden' => TotalOf(i, lag, boot) = counted'
    BY <2>1, <2>2, <2>5 DEF Continuous
  <2>7. offset' = lag[boot] /\ (\A i, j \in Places : i < j /\ LiveAt(i) /\ Quiet(i, j)
                                   => Joined(i, j, lag, boot))
    BY <1>1, <2>2 DEF Continuous
  <2> QED
    BY <1>1, <1>3, <2>1, <2>3, <2>4, <2>6, <2>7 DEF Continuous, Still
<1> QED
  BY <1>5, <1>6, <1>7 DEF Consistent

\* A buffered reading is published.
LEMMA ResyncAccount ==
    ASSUME MeterShape, NEW lag \in [0 .. reboots -> Nat], NEW boot \in 0 .. reboots,
           Consistent(lag, boot), Resync
    PROVE  Consistent(lag, boot)'
<1> DEFINE f == [raw |-> Head(ring), live |-> FALSE, boot |-> reboots]
<1>1. /\ ring # <<>> /\ ring' = Tail(ring) /\ topic' = Append(topic, f)
      /\ UNCHANGED <<counted, Reading, fresh, reboots, lost, hidden, masked, lastRaw, offset, billed>>
  BY DEF Resync, sessionVars, MeterShape, Reading
<1>2. /\ Len(ring) \in Nat /\ Len(ring') = Len(ring) - 1 /\ Len(ring) >= 1
      /\ Head(ring) = ring[1] /\ Head(ring) \in Nat
      /\ \A k \in 1 .. Len(ring') : ring'[k] = ring[k + 1]
  BY <1>1, Drained, Readings
<1>3. counted \in Nat /\ Reading \in Nat /\ reboots \in Nat
  BY DEF MeterShape, MeteringTypeOK, Reading, SessionKwh
<1>4. f \in Frame /\ f.raw = ring[1] /\ ~f.live /\ f.boot = reboots /\ f.raw \in Nat
  BY <1>2, <1>3 DEF Frame
<1> HIDE DEF f
<1>5. lag[reboots] = counted - Reading /\ lag[reboots] \in Nat
  BY <1>3 DEF Consistent, Lags
<1>6. \A k \in 1 .. Len(ring) : ring[k] <= Reading
  BY DEF Consistent, Ordered
<1>7. f.raw + lag[reboots] <= counted
  <2>1. f.raw <= Reading
    BY <1>2, <1>4, <1>6
  <2> QED
    BY <1>3, <1>4, <1>5, <2>1
<1>8. \A k \in 1 .. Len(ring') : ring'[k] <= Reading'
  <2>1. \A k \in 1 .. Len(ring') : k + 1 \in 1 .. Len(ring)
    BY <1>2
  <2> QED
    BY <1>1, <1>2, <1>6, <2>1
<1>9. Ordered(lag, boot)'
  <2>1. /\ counted' \in Nat /\ counted <= counted' /\ f.raw + lag[reboots] <= counted'
        /\ UNCHANGED <<lastRaw, offset, billed>>
    BY <1>1, <1>3, <1>7
  <2>2. Ordered(lag, boot)
    BY DEF Consistent
  <2> QED
    BY <1>1, <1>4, <1>8, <2>1, <2>2, OrderedAppended
<1>10. ASSUME ~lost, ~masked PROVE Continuous(lag, boot)'
  <2>1. Continuous(lag, boot)
    BY <1>10 DEF Consistent
  <2>2. ASSUME fresh
        PROVE  /\ f.raw + lag[reboots] = counted
               /\ ~hidden' /\ \A k \in 1 .. Len(ring') : ring'[k] = Reading'
    <3>1. ~hidden /\ \A k \in 1 .. Len(ring) : ring[k] = Reading
      BY <2>1, <2>2 DEF Continuous
    <3>2. \A k \in 1 .. Len(ring') : k + 1 \in 1 .. Len(ring)
      BY <1>2
    <3>3. f.raw = Reading
      BY <1>2, <1>4, <3>1
    <3> QED
      BY <1>1, <1>2, <1>3, <1>5, <3>1, <3>2, <3>3
  <2>3. PICK n : n = Len(topic) + 1
    OBVIOUS
  <2>4. Grown(f, lag, boot, n)
    BY <1>1, <1>4, <2>3, Extended
  <2>5. Underway(lag, boot)'
    <3>1. CASE billed = counted
      BY <1>1, <3>1 DEF Underway
    <3>2. ASSUME NEW i \in 1 .. Len(topic), TotalOf(i, lag, boot) = counted
          PROVE  Underway(lag, boot)'
      <4>1. i \in Places /\ i \in 1 .. Len(topic')
        BY <2>3, <2>4, Readings DEF Places, Grown
      <4>2. TotalOf(i, lag, boot)' = counted'
        BY <1>1, <2>4, <3>2, <4>1 DEF Grown
      <4> QED
        BY <4>1, <4>2 DEF Underway
    <3>3. CASE ring[Len(ring)] = Reading
      <4>1. CASE Len(ring) = 1
        <5>1. n \in 1 .. Len(topic')
          BY <2>4 DEF Grown
        <5>2. TotalOf(n, lag, boot)' = counted'
          BY <1>1, <1>3, <1>4, <1>5, <2>4, <3>3, <4>1 DEF Grown
        <5> QED
          BY <5>1, <5>2 DEF Underway
      <4>2. CASE Len(ring) # 1
        <5>1. Len(ring') \in 1 .. Len(ring') /\ Len(ring') + 1 = Len(ring)
          BY <1>2, <4>2
        <5>2. ring'[Len(ring')] = Reading'
          BY <1>1, <1>2, <3>3, <5>1
        <5>3. ring' # <<>>
          BY <5>1
        <5> QED
          BY <5>2, <5>3 DEF Underway
      <4> QED
        BY <4>1, <4>2
    <3> QED
      BY <2>1, <3>1, <3>2, <3>3 DEF Continuous, Underway
  <2> QED
    BY <1>1, <1>4, <2>1, <2>2, <2>5, ContinuousAppended
<1>11. Lags(lag)'
  BY <1>1 DEF Consistent, Lags
<1> QED
  BY <1>1, <1>9, <1>10, <1>11 DEF Consistent

\* A reboot masks what the last live reading did not show.
LEMMA MaskedUpon ==
    ASSUME MeterShape, Reboot
    PROVE  masked' <=> masked \/ hidden
<1>1. masked' = (masked \/ hidden) /\ masked \in BOOLEAN /\ hidden \in BOOLEAN
  BY Zenon DEF Reboot, MeterShape, MeteringTypeOK
<1> QED
  BY <1>1

\* The gateway restarts with an empty ring: the new boot has a lag of its own.
LEMMA RebootAccount ==
    ASSUME MeterShape, NEW lag \in [0 .. reboots -> Nat], NEW boot \in 0 .. reboots,
           Consistent(lag, boot), Reboot, ~mixed'
    PROVE  \E l \in [0 .. reboots' -> Nat] : Consistent(l, boot)'
<1>0. PICK l : l = [b \in 0 .. reboots + 1 |-> IF b <= reboots THEN lag[b] ELSE counted - SessionKwh(saved)]
  OBVIOUS
<1>1. /\ reboots' = reboots + 1 /\ Reading' = SessionKwh(saved) /\ fresh' /\ ring = <<>>
      /\ UNCHANGED <<counted, ring, topic, lost, hidden, lastRaw, offset, billed>>
  BY DEF Reboot, sessionVars, Reading
<1>2. /\ reboots \in Nat /\ counted \in Nat /\ Reading \in Nat /\ SessionKwh(saved) \in Nat
      /\ SessionKwh(saved) <= Reading /\ Reading <= counted
  <2>1. /\ reboots \in Nat /\ counted \in Nat /\ meter \in Int /\ saved \in Int
        /\ saved <= meter /\ Reading <= counted
    BY DEF MeterShape, MeteringTypeOK
  <2>2. /\ Reading \in Nat /\ SessionKwh(saved) \in Nat /\ SessionKwh(saved) <= Reading
    BY <2>1 DEF Reading, SessionKwh
  <2> QED
    BY <2>1, <2>2
<1>3. lag[reboots] = counted - Reading /\ \A a, b \in 0 .. reboots : a <= b => lag[a] <= lag[b]
  BY DEF Consistent, Lags
<1>4. /\ l \in [0 .. reboots' -> Nat] /\ l[reboots + 1] = counted - SessionKwh(saved)
      /\ \A b \in 0 .. reboots : l[b] = lag[b]
  BY <1>0, <1>1, <1>2
<1>5. Lags(l)'
  <2>1. l[reboots'] = counted' - Reading'
    BY <1>1, <1>4
  <2>2. ASSUME NEW a \in 0 .. reboots', NEW b \in 0 .. reboots', a <= b PROVE l[a] <= l[b]
    <3>1. CASE b <= reboots
      <4>1. a \in 0 .. reboots /\ b \in 0 .. reboots
        BY <1>1, <1>2, <2>2, <3>1
      <4> QED
        BY <1>3, <1>4, <2>2, <4>1
    <3>2. CASE b = reboots + 1 /\ a <= reboots
      <4>1. a \in 0 .. reboots /\ reboots \in 0 .. reboots
        BY <1>1, <1>2, <3>2
      <4>2. l[a] = lag[a] /\ lag[a] <= lag[reboots] /\ lag[a] \in Nat
        BY <1>3, <1>4, <4>1
      <4> QED
        BY <1>2, <1>3, <1>4, <3>2, <4>2
    <3>3. CASE a = reboots + 1 /\ b = reboots + 1
      BY <1>2, <1>4, <3>3
    <3> QED
      BY <1>1, <1>2, <2>2, <3>1, <3>2, <3>3
  <2> QED
    BY <2>1, <2>2 DEF Lags
<1>6. Still(l, boot)
  BY <1>1, StillPlaces
<1>7. \A i \in Places : TotalOf(i, l, boot) = TotalOf(i, lag, boot)
  <2>1. ASSUME NEW i \in Places PROVE TotalOf(i, l, boot) = TotalOf(i, lag, boot)
    <3>1. i # 0 => topic[i].boot \in 0 .. reboots
      BY Readings DEF Places
    <3> QED
      BY <1>4, <3>1 DEF TotalOf
  <2> QED
    BY <2>1
<1>8. \A i, j \in Places : Joined(i, j, l, boot) = Joined(i, j, lag, boot)
  BY <1>7 DEF Joined
<1>9. Ordered(l, boot)'
  <2>1. Ordered(l, boot)
    BY <1>4, <1>7 DEF Consistent, Ordered
  <2>2. \A k \in 1 .. Len(ring') : ring'[k] <= Reading'
    BY <1>1
  <2> QED
    BY <1>1, <1>6, <2>1, <2>2 DEF Ordered, Still
<1>10. ASSUME ~lost', ~masked' PROVE Continuous(l, boot)'
  <2>0. ~lost /\ ~masked /\ ~hidden
    BY <1>1, <1>10, MaskedUpon
  <2>1. Continuous(lag, boot)
    BY <2>0 DEF Consistent
  <2>2. Underway(l, boot)'
    <3>1. CASE billed = counted
      BY <1>1, <3>1 DEF Underway
    <3>2. ASSUME NEW i \in 1 .. Len(topic), TotalOf(i, lag, boot) = counted
          PROVE  Underway(l, boot)'
      <4>1. i \in Places
        BY Readings DEF Places
      <4>2. TotalOf(i, l, boot)' = counted'
        BY <1>1, <1>6, <1>7, <3>2, <4>1 DEF Still
      <4> QED
        BY <1>1, <4>2 DEF Underway
    <3> QED
      BY <1>1, <2>1, <3>1, <3>2 DEF Continuous, Underway
  <2>3. \A i \in Places' : LiveAt(i)' /\ Quiet(i, Len(topic) + 1)' =>
            (~hidden' => TotalOf(i, l, boot)' = counted')
    <3>1. \A i \in Places : LiveAt(i) /\ Quiet(i, Len(topic) + 1) => TotalOf(i, lag, boot) = counted
      BY <2>0, <2>1 DEF Continuous
    <3>2. \A i : Quiet(i, Len(topic) + 1)' = Quiet(i, Len(topic) + 1)
      BY <1>1 DEF Quiet, LiveAt
    <3> QED
      BY <1>1, <1>6, <1>7, <3>1, <3>2 DEF Still
  <2>4. \A i, j \in Places' : i < j /\ LiveAt(i)' /\ Quiet(i, j)' => Joined(i, j, l, boot)'
    BY <1>6, <1>8, <2>1 DEF Continuous, Still
  <2>5. offset' = l[boot]
    BY <1>1, <1>4, <2>1 DEF Continuous
  <2> QED
    <3>1. ~hidden' /\ \A k \in 1 .. Len(ring') : ring'[k] = Reading'
      BY <1>1, <2>0
    <3> QED
      BY <1>1, <2>2, <2>3, <2>4, <2>5, <3>1 DEF Continuous
<1> QED
  BY <1>4, <1>5, <1>9, <1>10 DEF Consistent

\* The places after the reading at place i has been taken off the topic.
Shrunk(i, lag, boot, now) ==
    /\ Len(topic') = Len(topic) - 1
    /\ \A k \in Places' : k # 0 =>
          /\ k \in Nat /\ Shift(i, k) \in Places /\ Shift(i, k) # 0 /\ Shift(i, k) # i
          /\ LiveAt(k)' = LiveAt(Shift(i, k)) /\ BootOf(k, now)' = BootOf(Shift(i, k), boot)
          /\ TotalOf(k, lag, now)' = TotalOf(Shift(i, k), lag, boot)
    /\ \A j \in Places : j # 0 /\ j # i => \E k \in Places' : k # 0 /\ Shift(i, k) = j

LEMMA ShrunkPlaces ==
    ASSUME MeterShape, NEW i \in 1 .. Len(topic), topic' = RemoveAt(topic, i),
           NEW lag, NEW boot, NEW now
    PROVE  Shrunk(i, lag, boot, now)
<1>0. Len(topic) \in Nat /\ i \in Nat /\ i >= 1 /\ i <= Len(topic)
  BY Readings
<1>1. /\ Len(topic') = Len(topic) - 1
      /\ \A k \in 1 .. Len(topic') : topic'[k] = topic[Shift(i, k)]
  BY Removed
<1>2. ASSUME NEW k \in Places', k # 0
      PROVE  /\ k \in Nat /\ Shift(i, k) \in Places /\ Shift(i, k) # 0 /\ Shift(i, k) # i
             /\ LiveAt(k)' = LiveAt(Shift(i, k)) /\ BootOf(k, now)' = BootOf(Shift(i, k), boot)
             /\ TotalOf(k, lag, now)' = TotalOf(Shift(i, k), lag, boot)
  <2>1. k \in 1 .. Len(topic')
    BY <1>0, <1>1, <1>2 DEF Places
  <2>2. k \in Nat /\ Shift(i, k) \in Places /\ Shift(i, k) # 0 /\ Shift(i, k) # i
    BY <1>0, <1>1, <2>1 DEF Places, Shift
  <2>3. topic'[k] = topic[Shift(i, k)]
    BY <1>1, <2>1
  <2> QED
    BY <1>2, <2>2, <2>3 DEF LiveAt, BootOf, TotalOf
<1>3. ASSUME NEW j \in Places, j # 0, j # i PROVE \E k \in Places' : k # 0 /\ Shift(i, k) = j
  <2> DEFINE k == IF j < i THEN j ELSE j - 1
  <2>1. k \in Places' /\ k # 0 /\ Shift(i, k) = j
    BY <1>0, <1>1, <1>3 DEF Places, Shift
  <2> QED
    BY <2>1
<1> QED
  BY <1>1, <1>2, <1>3, Zenon DEF Shrunk

\* The readings keep their order.
LEMMA Shifts ==
    ASSUME NEW i \in Nat, NEW k \in Nat, NEW l \in Nat, k < l
    PROVE  /\ Shift(i, k) < Shift(i, l) /\ Shift(i, k) \in Nat /\ Shift(i, l) \in Nat
           /\ i > 0 => Shift(i, 0) = 0
  BY DEF Shift

\* A reading that is taken off the topic leaves the others in order.
LEMMA OrderedShrunk ==
    ASSUME MeterShape, NEW lag \in [0 .. reboots -> Nat], NEW boot \in 0 .. reboots,
           Ordered(lag, boot), NEW i \in 1 .. Len(topic), NEW now, Shrunk(i, lag, boot, now),
           UNCHANGED <<counted, Reading, ring>>,
           offset' <= lag[now], billed' <= counted,
           TotalOf(0, lag, now)' <= counted,
           \A k \in Places' : k # 0 =>
              /\ now <= BootOf(Shift(i, k), boot)
              /\ LiveAt(Shift(i, k)) => TotalOf(0, lag, now)' <= TotalOf(Shift(i, k), lag, boot)
    PROVE  Ordered(lag, now)'
<1>1. \A k \in Places' : k # 0 =>
          /\ k \in Nat /\ Shift(i, k) \in Places
          /\ LiveAt(k)' = LiveAt(Shift(i, k)) /\ BootOf(k, now)' = BootOf(Shift(i, k), boot)
          /\ TotalOf(k, lag, now)' = TotalOf(Shift(i, k), lag, boot)
  BY DEF Shrunk
<1>2. i \in Nat /\ BootOf(0, now)' = now
  BY Readings DEF BootOf
<1>3. \A k \in Places' : TotalOf(k, lag, now)' <= counted'
  <2>1. ASSUME NEW k \in Places' PROVE TotalOf(k, lag, now)' <= counted'
    <3>1. CASE k = 0
      BY <3>1
    <3>2. CASE k # 0
      BY <1>1, <3>2 DEF Ordered
    <3> QED
      BY <3>1, <3>2
  <2> QED
    BY <2>1
<1>4. ASSUME NEW k \in Places', NEW l \in Places', k < l
      PROVE  /\ BootOf(k, now)' <= BootOf(l, now)'
             /\ LiveAt(k)' /\ LiveAt(l)' => TotalOf(k, lag, now)' <= TotalOf(l, lag, now)'
  <2>1. l # 0
    BY <1>1, <1>4
  <2>2. CASE k = 0
    BY <1>1, <1>2, <2>1, <2>2
  <2>3. CASE k # 0
    <3>1. Shift(i, k) < Shift(i, l)
      BY <1>1, <1>2, <1>4, <2>1, <2>3, Shifts
    <3>2. Shift(i, k) \in Places /\ Shift(i, l) \in Places
      BY <1>1, <2>1, <2>3
    <3>3. /\ BootOf(Shift(i, k), boot) <= BootOf(Shift(i, l), boot)
          /\ LiveAt(Shift(i, k)) /\ LiveAt(Shift(i, l)) =>
                TotalOf(Shift(i, k), lag, boot) <= TotalOf(Shift(i, l), lag, boot)
      BY <3>1, <3>2 DEF Ordered
    <3> QED
      BY <1>1, <2>1, <2>3, <3>3
  <2> QED
    BY <2>2, <2>3
<1>5. (\A k \in 1 .. Len(ring) : ring[k] <= Reading)'
  BY DEF Ordered
<1> QED
  BY <1>3, <1>4, <1>5 DEF Ordered

\* A frame is lost.
LEMMA LoseAccount ==
    ASSUME MeterShape, NEW lag \in [0 .. reboots -> Nat], NEW boot \in 0 .. reboots,
           Consistent(lag, boot), NEW i \in 1 .. Len(topic), Lose(i)
    PROVE  Consistent(lag, boot)'
<1>1. /\ topic' = RemoveAt(topic, i) /\ lost'
      /\ UNCHANGED <<counted, Reading, ring, reboots, lastRaw, offset, billed>>
  BY DEF Lose, gatewayVars, sessionVars, Reading
<1>2. Ordered(lag, boot)
  BY DEF Consistent
<1>3. Shrunk(i, lag, boot, boot)
  BY <1>1, ShrunkPlaces
<1>4. 0 \in Places /\ TotalOf(0, lag, boot)' = TotalOf(0, lag, boot) /\ BootOf(0, boot) = boot /\ LiveAt(0)
  BY <1>1, Readings DEF Places, TotalOf, Heard, BootOf, LiveAt
<1>5. ASSUME NEW k \in Places', k # 0
      PROVE  /\ boot <= BootOf(Shift(i, k), boot)
             /\ LiveAt(Shift(i, k)) => TotalOf(0, lag, boot)' <= TotalOf(Shift(i, k), lag, boot)
  <2>1. Shift(i, k) \in Places /\ Shift(i, k) # 0
    BY <1>3, <1>5 DEF Shrunk
  <2>2. 0 < Shift(i, k)
    BY <2>1, Measures
  <2> QED
    BY <1>2, <1>4, <2>1, <2>2 DEF Ordered
<1>6. Ordered(lag, boot)'
  <2>1. offset' <= lag[boot] /\ billed' <= counted /\ TotalOf(0, lag, boot)' <= counted
    BY <1>1, <1>2, <1>4 DEF Ordered
  <2> QED
    BY <1>1, <1>2, <1>3, <1>5, <2>1, OrderedShrunk
<1>7. Lags(lag)'
  BY <1>1 DEF Consistent, Lags
<1> QED
  BY <1>1, <1>6, <1>7 DEF Consistent

\* What a persisted reading finds: every reading published before it that is
\* still on its way was buffered in its boot.
LEMMA InTurn ==
    ASSUME MeterShape, NEW boot, NEW i \in 1 .. Len(topic), ~Overtakes(i)
    PROVE  \A k \in Places : k # 0 /\ k < i =>
              ~LiveAt(k) /\ BootOf(k, boot) = BootOf(i, boot)
<1> SUFFICES ASSUME NEW k \in Places, k # 0, k < i
             PROVE  ~LiveAt(k) /\ BootOf(k, boot) = BootOf(i, boot)
  OBVIOUS
<1>1. k \in 1 .. i - 1 /\ i # 0
  BY Readings DEF Places
<1> QED
  BY <1>1 DEF Overtakes, LiveAt, BootOf

\* Between two places of the topic as it is now there is nothing live that was
\* not between them before, when the reading in place i was live or not.
LEMMA QuietShrunk ==
    ASSUME MeterShape, NEW i \in 1 .. Len(topic), NEW lag, NEW boot, NEW now,
           Shrunk(i, lag, boot, now),
           NEW k \in Nat, NEW l \in Nat, k < l, l <= Len(topic), Quiet(k, l)',
           NEW p \in Nat, p = Shift(i, k) \/ (k = 0 /\ p = i)
    PROVE  \A m \in p + 1 .. Shift(i, l) - 1 : m # i => ~LiveAt(m)
<1> SUFFICES ASSUME NEW m \in p + 1 .. Shift(i, l) - 1, m # i PROVE ~LiveAt(m)
  OBVIOUS
<1>1. Len(topic) \in Nat /\ i \in Nat /\ i >= 1 /\ i <= Len(topic) /\ m \in Nat
  BY Readings
<1>2. m \in Places /\ m # 0
  BY <1>1 DEF Places, Shift
<1>3. PICK q \in Places' : q # 0 /\ Shift(i, q) = m
  BY <1>2 DEF Shrunk
<1>4. q \in Nat /\ LiveAt(q)' = LiveAt(m)
  BY <1>3 DEF Shrunk
<1>5. q \in k + 1 .. l - 1
  BY <1>1, <1>3, <1>4 DEF Shift
<1> QED
  BY <1>4, <1>5 DEF Quiet

\* d is at least a and b, and at most c.
Capped(a, b, c, d) == d \in Nat /\ d <= c /\ d >= a /\ d >= b

LEMMA Greater ==
    ASSUME NEW a \in Nat, NEW b \in Nat, NEW c \in Nat, a <= c, b <= c,
           NEW d, d = IF a > b THEN a ELSE b
    PROVE  Capped(a, b, c, d)
  BY DEF Capped

\* A buffered reading is persisted.
LEMMA PersistBuffered ==
    ASSUME MeterShape, NEW lag \in [0 .. reboots -> Nat], NEW boot \in 0 .. reboots,
           Consistent(lag, boot), NEW i \in 1 .. Len(topic), Persist(i), ~mixed',
           ~topic[i].live
    PROVE  Consistent(lag, boot)'
<1>1. /\ topic' = RemoveAt(topic, i) /\ ~Overtakes(i)
      /\ UNCHANGED <<counted, Reading, fresh, ring, reboots, lost, hidden, masked, offset, lastRaw>>
      /\ billed' = IF offset + topic[i].raw > billed THEN offset + topic[i].raw ELSE billed
  <2>1. Banked(topic[i]) = 0 /\ offset \in Nat
    BY DEF Banked, MeterShape, MeteringTypeOK
  <2>2. offset' = offset + Banked(topic[i])
    BY DEF Persist
  <2>3. /\ topic' = RemoveAt(topic, i) /\ lastRaw' = lastRaw
        /\ UNCHANGED <<counted, Reading, fresh, ring, reboots, lost, hidden, masked>>
        /\ billed' = IF offset' + topic[i].raw > billed THEN offset' + topic[i].raw ELSE billed
    BY DEF Persist, gatewayVars, Reading
  <2>4. ~Overtakes(i)
    BY DEF Persist
  <2> QED
    BY <2>1, <2>2, <2>3, <2>4
<1>2. Ordered(lag, boot)
  BY DEF Consistent
<1>3. Shrunk(i, lag, boot, boot)
  BY <1>1, ShrunkPlaces
<1>4. /\ 0 \in Places /\ i \in Places /\ 0 < i /\ i # 0 /\ Len(topic) \in Nat
      /\ BootOf(0, boot) = boot /\ LiveAt(0) /\ ~LiveAt(i)
      /\ TotalOf(0, lag, boot)' = TotalOf(0, lag, boot)
  BY <1>1, Readings DEF Places, TotalOf, Heard, BootOf, LiveAt
<1>5. ASSUME NEW k \in Places', k # 0
      PROVE  /\ boot <= BootOf(Shift(i, k), boot)
             /\ LiveAt(Shift(i, k)) => TotalOf(0, lag, boot)' <= TotalOf(Shift(i, k), lag, boot)
  <2>1. Shift(i, k) \in Places /\ Shift(i, k) # 0
    BY <1>3, <1>5 DEF Shrunk
  <2>2. 0 < Shift(i, k)
    BY <2>1, Measures
  <2> QED
    BY <1>2, <1>4, <2>1, <2>2 DEF Ordered
<1>6. /\ counted \in Nat /\ billed \in Nat /\ offset \in Nat /\ topic[i].raw \in Nat
      /\ lag[boot] \in Nat /\ lag[topic[i].boot] \in Nat /\ topic[i].boot \in 0 .. reboots
  BY Readings DEF MeterShape, MeteringTypeOK
<1>7. BootOf(i, boot) = topic[i].boot /\ TotalOf(i, lag, boot) = topic[i].raw + lag[topic[i].boot]
  BY <1>4 DEF BootOf, TotalOf
<1>8. offset <= lag[boot] /\ lag[boot] <= lag[topic[i].boot]
  <2>1. boot <= topic[i].boot
    BY <1>2, <1>4, <1>7 DEF Ordered
  <2> QED
    BY <1>2, <1>6, <2>1 DEF Ordered, Consistent, Lags
<1>9. TotalOf(i, lag, boot) <= counted /\ billed <= counted
  BY <1>2, <1>4 DEF Ordered
<1>10. billed' <= counted /\ billed' >= billed /\ billed' >= offset + topic[i].raw
  <2>1. offset <= lag[topic[i].boot]
    BY <1>6, <1>8
  <2>2. offset + topic[i].raw \in Nat /\ offset + topic[i].raw <= counted
    BY <1>6, <1>7, <1>9, <2>1
  <2>3. Capped(offset + topic[i].raw, billed, counted, billed')
    BY <1>1, <1>6, <1>9, <2>2, Greater
  <2> QED
    BY <2>3 DEF Capped
<1>11. Ordered(lag, boot)'
  <2>1. offset' <= lag[boot] /\ TotalOf(0, lag, boot)' <= counted
    BY <1>1, <1>2, <1>4 DEF Ordered
  <2> QED
    BY <1>1, <1>2, <1>3, <1>5, <1>10, <2>1, OrderedShrunk
<1>12. Lags(lag)'
  BY <1>1 DEF Consistent, Lags
<1>13. ASSUME ~lost, ~masked PROVE Continuous(lag, boot)'
  <2>1. Continuous(lag, boot)
    BY <1>13 DEF Consistent
  <2>2. ASSUME NEW k \in Nat, NEW l \in Nat, k < l, l <= Len(topic), Quiet(k, l)'
        PROVE  Quiet(Shift(i, k), Shift(i, l))
    <3>1. Shift(i, k) \in Nat
      BY <1>4, Measures, Shifts, <2>2
    <3>2. \A m \in Shift(i, k) + 1 .. Shift(i, l) - 1 : m # i => ~LiveAt(m)
      BY <1>3, <2>2, <3>1, QuietShrunk
    <3> QED
      BY <1>4, <3>2 DEF Quiet
  <2>3. Shift(i, 0) = 0 /\ i \in Nat /\ Places' = 0 .. Len(topic) - 1
    BY <1>3, <1>4, Measures DEF Shift, Shrunk, Places
  <2>4. ASSUME NEW k \in Places'
        PROVE  /\ k \in Nat /\ k < Len(topic) /\ Shift(i, k) \in Places
               /\ LiveAt(k)' = LiveAt(Shift(i, k)) /\ BootOf(k, boot)' = BootOf(Shift(i, k), boot)
               /\ TotalOf(k, lag, boot)' = TotalOf(Shift(i, k), lag, boot)
    <3>1. k \in Nat /\ k < Len(topic)
      BY <1>4, <2>3
    <3>2. CASE k = 0
      BY <1>4, <2>3, <3>1, <3>2 DEF LiveAt, BootOf
    <3>3. CASE k # 0
      BY <1>3, <3>1, <3>3 DEF Shrunk
    <3> QED
      BY <3>2, <3>3
  <2>5. ASSUME NEW k \in Places', NEW l \in Places', k < l, LiveAt(k)', Quiet(k, l)'
        PROVE  Joined(k, l, lag, boot)'
    <3>1. Quiet(Shift(i, k), Shift(i, l)) /\ Shift(i, k) < Shift(i, l)
      BY <1>4, <2>2, <2>3, <2>4, <2>5, Shifts
    <3>2. Joined(Shift(i, k), Shift(i, l), lag, boot)
      BY <2>1, <2>4, <2>5, <3>1 DEF Continuous
    <3> QED
      BY <2>4, <3>2 DEF Joined
  <2>6. PICK n : n = Len(topic)
    OBVIOUS
  <2>7. ASSUME NEW k \in Places', LiveAt(k)', Quiet(k, n)'
        PROVE  /\ fresh' \/ BootOf(k, boot)' = reboots'
               /\ ~hidden' => TotalOf(k, lag, boot)' = counted'
    <3>1. Shift(i, n) = Len(topic) + 1
      BY <1>4, <2>3, <2>6 DEF Shift, Places
    <3>2. Quiet(Shift(i, k), Len(topic) + 1)
      BY <1>4, <2>2, <2>4, <2>6, <2>7, <3>1
    <3>3. /\ fresh \/ BootOf(Shift(i, k), boot) = reboots
          /\ ~hidden => TotalOf(Shift(i, k), lag, boot) = counted
      BY <2>1, <2>4, <2>7, <3>2 DEF Continuous
    <3> QED
      BY <1>1, <2>4, <3>3
  <2>8. \A k : Quiet(k, Len(topic) + 1)' <=> Quiet(k, n)'
    BY <1>3, <1>4, <2>6 DEF Quiet, Shrunk
  <2>9. Underway(lag, boot)'
    <3>1. CASE billed = counted
      BY <1>1, <1>6, <1>10, <3>1 DEF Underway
    <3>2. CASE TotalOf(i, lag, boot) = counted
      <4>1. Quiet(0, i)
        <5>1. \A k \in 0 + 1 .. i - 1 : k \in Places /\ k # 0 /\ k < i
          BY <1>4, <2>3 DEF Places
        <5> QED
          BY <1>1, <5>1, InTurn DEF Quiet
      <4>2. Joined(0, i, lag, boot)
        BY <1>4, <2>1, <4>1 DEF Continuous
      <4>3. offset = lag[boot]
        BY <2>1 DEF Continuous
      <4>4. CASE topic[i].boot = boot
        BY <1>1, <1>6, <1>7, <1>10, <3>2, <4>3, <4>4 DEF Underway
      <4>5. CASE TotalOf(0, lag, boot) = TotalOf(i, lag, boot)
        <5>1. Heard + lag[boot] = counted /\ Heard \in Nat /\ offset + Heard <= billed
          BY <3>2, <4>5, Readings DEF TotalOf, MeterShape
        <5> QED
          BY <1>1, <1>6, <1>9, <1>10, <4>3, <5>1 DEF Underway
      <4> QED
        BY <1>4, <1>7, <4>2, <4>4, <4>5 DEF Joined
    <3>3. ASSUME NEW j \in 1 .. Len(topic), TotalOf(j, lag, boot) = counted, j # i
          PROVE  Underway(lag, boot)'
      <4>1. j \in Places /\ j # 0
        BY <1>4 DEF Places
      <4>2. PICK k \in Places' : k # 0 /\ Shift(i, k) = j
        BY <1>3, <3>3, <4>1 DEF Shrunk
      <4>3. TotalOf(k, lag, boot)' = counted'
        BY <1>1, <2>4, <3>3, <4>2
      <4>4. k \in 1 .. Len(topic')
        BY <1>3, <1>4, <2>3, <4>2 DEF Shrunk
      <4> QED
        BY <4>3, <4>4 DEF Underway
    <3>4. CASE ring # <<>> /\ ring[Len(ring)] = Reading
      BY <1>1, <3>4 DEF Underway
    <3> QED
      BY <2>1, <3>1, <3>2, <3>3, <3>4 DEF Continuous, Underway
  <2>10. /\ offset' = lag[boot]
         /\ fresh' => ~hidden' /\ \A k \in 1 .. Len(ring') : ring'[k] = Reading'
    BY <1>1, <2>1 DEF Continuous
  <2>11. \A k \in Places' : LiveAt(k)' /\ Quiet(k, Len(topic) + 1)' =>
            /\ fresh' \/ BootOf(k, boot)' = reboots'
            /\ ~hidden' => TotalOf(k, lag, boot)' = counted'
    BY <2>7, <2>8
  <2> QED
    BY <2>5, <2>9, <2>10, <2>11 DEF Continuous
<1> QED
  BY <1>1, <1>11, <1>12, <1>13 DEF Consistent

\* What a live reading adds to the offset is what its boot has been set back.
Balanced(off, heard, raw, a, b, d, o) ==
    /\ o \in Nat /\ o <= b /\ o + raw \in Nat /\ o + raw <= d
    /\ off = a /\ (a = b \/ heard + a = raw + b) => o = b

LEMMA Banking ==
    ASSUME NEW off \in Nat, NEW heard \in Nat, NEW raw \in Nat, NEW a \in Nat, NEW b \in Nat,
           NEW d \in Nat, off <= a, a <= b, heard + a <= raw + b, raw + b <= d,
           NEW o, o = off + (IF raw < heard THEN heard - raw ELSE 0)
    PROVE  Balanced(off, heard, raw, a, b, d, o)
  BY DEF Balanced

\* A live reading is persisted: from now on it is the last one.
LEMMA PersistLive ==
    ASSUME MeterShape, NEW lag \in [0 .. reboots -> Nat], NEW boot \in 0 .. reboots,
           Consistent(lag, boot), NEW i \in 1 .. Len(topic), Persist(i), ~mixed',
           topic[i].live, NEW now, now = topic[i].boot
    PROVE  Consistent(lag, now)'
<1>1. /\ topic' = RemoveAt(topic, i) /\ lastRaw' = topic[i].raw /\ offset' = offset + Banked(topic[i])
      /\ UNCHANGED <<counted, Reading, fresh, ring, reboots, lost, hidden, masked>>
      /\ billed' = IF offset' + topic[i].raw > billed THEN offset' + topic[i].raw ELSE billed
  BY DEF Persist, gatewayVars, Reading
<1>2. ~Overtakes(i)
  BY DEF Persist
<1>3. Ordered(lag, boot)
  BY DEF Consistent
<1>4. Shrunk(i, lag, boot, now)
  BY <1>1, ShrunkPlaces
<1>5. /\ 0 \in Places /\ i \in Places /\ 0 < i /\ i # 0 /\ i \in Nat /\ i <= Len(topic)
      /\ Len(topic) \in Nat /\ BootOf(0, boot) = boot /\ LiveAt(0) /\ LiveAt(i)
  BY Readings DEF Places, BootOf, LiveAt
<1>6. /\ counted \in Nat /\ billed \in Nat /\ offset \in Nat /\ topic[i].raw \in Nat /\ Heard \in Nat
      /\ lag[boot] \in Nat /\ lag[now] \in Nat /\ now \in 0 .. reboots
  BY Readings DEF MeterShape, MeteringTypeOK
<1>7. /\ BootOf(i, boot) = now /\ TotalOf(i, lag, boot) = topic[i].raw + lag[now]
      /\ TotalOf(0, lag, boot) = Heard + lag[boot]
  BY <1>5 DEF BootOf, TotalOf
<1>8. LiveAt(0)' /\ BootOf(0, now)' = now /\ TotalOf(0, lag, now)' = TotalOf(i, lag, boot)
  <2>1. ~(topic[i].raw < 0)
    BY <1>6
  <2> QED
    BY <1>1, <1>7, <2>1 DEF LiveAt, BootOf, TotalOf, Heard
<1>9. Banked(topic[i]) = IF topic[i].raw < Heard THEN Heard - topic[i].raw ELSE 0
  <2>1. lastRaw \in Nat \cup {-1}
    BY DEF MeterShape, MeteringTypeOK
  <2> QED
    BY <1>6, <2>1 DEF Banked, Heard
<1>10. /\ offset <= lag[boot] /\ billed <= counted /\ topic[i].raw + lag[now] <= counted
       /\ Heard + lag[boot] <= topic[i].raw + lag[now] /\ boot <= now
  BY <1>3, <1>5, <1>7 DEF Ordered
<1>11. lag[boot] <= lag[now]
  BY <1>6, <1>10 DEF Consistent, Lags
<1>12. /\ offset' \in Nat /\ offset' <= lag[now]
       /\ offset' + topic[i].raw \in Nat /\ offset' + topic[i].raw <= counted
       /\ offset = lag[boot] /\ (lag[boot] = lag[now] \/ Heard + lag[boot] = topic[i].raw + lag[now])
             => offset' = lag[now]
  <2>1. offset' = offset + (IF topic[i].raw < Heard THEN Heard - topic[i].raw ELSE 0)
    BY <1>1, <1>9
  <2>2. Balanced(offset, Heard, topic[i].raw, lag[boot], lag[now], counted, offset')
    BY <1>6, <1>10, <1>11, <2>1, Banking
  <2> QED
    BY <2>2 DEF Balanced
<1>13. billed' <= counted /\ billed' >= billed /\ billed' >= offset' + topic[i].raw /\ billed' \in Nat
  <2>1. Capped(offset' + topic[i].raw, billed, counted, billed')
    BY <1>1, <1>6, <1>10, <1>12, Greater
  <2> QED
    BY <2>1 DEF Capped
<1>14. ASSUME NEW k \in Places', k # 0
       PROVE  /\ k \in Nat /\ Shift(i, k) \in Places /\ Shift(i, k) # 0 /\ Shift(i, k) # i
              /\ k < i => k = Shift(i, k) /\ ~LiveAt(Shift(i, k)) /\ BootOf(Shift(i, k), boot) = now
              /\ ~(k < i) => i < Shift(i, k)
  <2>1. k \in Nat /\ Shift(i, k) \in Places /\ Shift(i, k) # 0 /\ Shift(i, k) # i
    BY <1>4, <1>14 DEF Shrunk
  <2>2. ASSUME k < i
        PROVE  k = Shift(i, k) /\ ~LiveAt(Shift(i, k)) /\ BootOf(Shift(i, k), boot) = now
    <3>1. Shift(i, k) = k
      BY <2>2 DEF Shift
    <3> QED
      BY <1>2, <1>7, <1>14, <2>1, <2>2, <3>1, InTurn
  <2>3. ~(k < i) => i < Shift(i, k)
    BY <1>5, <2>1 DEF Shift
  <2> QED
    BY <2>1, <2>2, <2>3
<1>15. Ordered(lag, now)'
  <2>1. ASSUME NEW k \in Places', k # 0
        PROVE  /\ now <= BootOf(Shift(i, k), boot)
               /\ LiveAt(Shift(i, k)) => TotalOf(0, lag, now)' <= TotalOf(Shift(i, k), lag, boot)
    <3>1. CASE k < i
      BY <1>6, <1>14, <2>1, <3>1
    <3>2. CASE ~(k < i)
      BY <1>3, <1>5, <1>7, <1>8, <1>14, <2>1, <3>2 DEF Ordered
    <3> QED
      BY <3>1, <3>2
  <2>2. TotalOf(0, lag, now)' <= counted
    BY <1>7, <1>8, <1>10
  <2> QED
    BY <1>1, <1>3, <1>4, <1>12, <1>13, <2>1, <2>2, OrderedShrunk
<1>16. Lags(lag)'
  BY <1>1 DEF Consistent, Lags
<1>17. ASSUME ~lost, ~masked PROVE Continuous(lag, now)'
  <2>1. Continuous(lag, boot)
    BY <1>17 DEF Consistent
  <2>2. offset' = lag[now]
    <3>1. Quiet(0, i)
      <4>1. \A k \in 0 + 1 .. i - 1 : k \in Places /\ k # 0 /\ k < i
        BY <1>5 DEF Places
      <4> QED
        BY <1>2, <4>1, InTurn DEF Quiet
    <3>2. Joined(0, i, lag, boot) /\ offset = lag[boot]
      BY <1>5, <2>1, <3>1 DEF Continuous
    <3>3. lag[boot] = lag[now] \/ Heard + lag[boot] = topic[i].raw + lag[now]
      BY <1>5, <1>7, <3>2 DEF Joined
    <3> QED
      BY <1>12, <3>2, <3>3
  \* The place that a live reading had.
  <2> DEFINE Was(k) == IF k = 0 THEN i ELSE Shift(i, k)
  <2>0. Was(0) = i /\ \A k : k # 0 => Was(k) = Shift(i, k)
    OBVIOUS
  <2> HIDE DEF Was
  <2>3. Places' = 0 .. Len(topic) - 1
    BY <1>4 DEF Shrunk, Places
  <2>4. ASSUME NEW k \in Places'
        PROVE  /\ k \in Nat /\ k < Len(topic) /\ Was(k) \in Places
               /\ (LiveAt(k)' <=> LiveAt(Was(k))) /\ BootOf(k, now)' = BootOf(Was(k), boot)
               /\ TotalOf(k, lag, now)' = TotalOf(Was(k), lag, boot)
               /\ LiveAt(k)' => i <= Was(k)
    <3>1. k \in Nat /\ k < Len(topic)
      BY <1>5, <2>3
    <3>2. CASE k = 0
      <4>1. Was(k) = i
        BY <2>0, <3>2
      <4>2. LiveAt(k)' /\ LiveAt(Was(k)) /\ Was(k) \in Places
        BY <1>5, <1>8, <3>2, <4>1
      <4>3. BootOf(k, now)' = BootOf(Was(k), boot) /\ TotalOf(k, lag, now)' = TotalOf(Was(k), lag, boot)
        BY <1>7, <1>8, <3>2, <4>1
      <4> QED
        BY <1>5, <3>1, <4>1, <4>2, <4>3
    <3>3. CASE k # 0
      <4>1. Was(k) = Shift(i, k)
        BY <2>0, <3>3
      <4>2. /\ Shift(i, k) \in Places /\ LiveAt(k)' = LiveAt(Shift(i, k))
            /\ BootOf(k, now)' = BootOf(Shift(i, k), boot)
            /\ TotalOf(k, lag, now)' = TotalOf(Shift(i, k), lag, boot)
        BY <1>4, <3>3 DEF Shrunk
      <4>3. LiveAt(k)' => i <= Shift(i, k)
        <5>1. Shift(i, k) \in Nat
          BY <4>2, <1>5 DEF Places
        <5>2. CASE k < i
          <6>1. ~LiveAt(Shift(i, k))
            BY <1>14, <3>3, <5>2
          <6> QED
            BY <4>2, <6>1
        <5>3. CASE ~(k < i)
          BY <1>5, <1>14, <3>3, <5>1, <5>3
        <5> QED
          BY <5>2, <5>3
      <4> QED
        BY <3>1, <4>1, <4>2, <4>3
    <3> QED
      BY <3>2, <3>3
  <2>5. ASSUME NEW k \in Places', NEW l \in Nat, k < l, l <= Len(topic), LiveAt(k)', Quiet(k, l)'
        PROVE  Quiet(Was(k), Shift(i, l))
    <3>1. Was(k) \in Nat /\ (Was(k) = Shift(i, k) \/ (k = 0 /\ Was(k) = i)) /\ i <= Was(k)
      BY <1>5, <2>0, <2>4, <2>5, Measures
    <3>2. \A m \in Was(k) + 1 .. Shift(i, l) - 1 : m # i => ~LiveAt(m)
      BY <1>4, <2>4, <2>5, <3>1, QuietShrunk
    <3> QED
      BY <1>5, <3>1, <3>2 DEF Quiet
  <2>6. ASSUME NEW k \in Places', NEW l \in Places', k < l, LiveAt(k)', Quiet(k, l)'
        PROVE  Joined(k, l, lag, now)'
    <3>1. l # 0 /\ l \in Nat /\ l < Len(topic) /\ k \in Nat /\ Was(l) = Shift(i, l)
      BY <2>0, <2>4, <2>6
    <3>2. CASE l < i
      <4>1. k = 0
        <5>1. SUFFICES ASSUME k # 0 PROVE FALSE
          OBVIOUS
        <5>2. k < i
          BY <1>5, <2>6, <3>1, <3>2
        <5>3. Was(k) = k
          BY <1>14, <2>0, <5>1, <5>2
        <5> QED
          BY <1>5, <2>4, <2>6, <3>1, <5>2, <5>3
      <4>2. BootOf(l, now)' = now
        BY <1>14, <2>4, <3>1, <3>2
      <4> QED
        BY <1>8, <4>1, <4>2 DEF Joined
    <3>3. CASE ~(l < i)
      <4>1. Quiet(Was(k), Was(l))
        BY <2>5, <2>6, <3>1
      <4>2. Was(k) < Was(l)
        <5>1. CASE k = 0
          BY <1>14, <2>0, <3>1, <3>3, <5>1
        <5>2. CASE k # 0
          <6>1. Shift(i, k) < Shift(i, l)
            BY <1>5, <2>6, <3>1 DEF Shift
          <6> QED
            BY <2>0, <3>1, <5>2, <6>1
        <5> QED
          BY <5>1, <5>2
      <4>3. Joined(Was(k), Was(l), lag, boot)
        BY <2>1, <2>4, <2>6, <4>1, <4>2 DEF Continuous
      <4> QED
        BY <2>4, <4>3 DEF Joined
    <3> QED
      BY <3>2, <3>3
  <2>7. PICK n : n = Len(topic)
    OBVIOUS
  <2>8. ASSUME NEW k \in Places', LiveAt(k)', Quiet(k, n)'
        PROVE  /\ fresh' \/ BootOf(k, now)' = reboots'
               /\ ~hidden' => TotalOf(k, lag, now)' = counted'
    <3>1. Shift(i, n) = Len(topic) + 1
      BY <1>5, <2>7 DEF Shift
    <3>2. Quiet(Was(k), Len(topic) + 1)
      BY <1>5, <2>4, <2>5, <2>7, <2>8, <3>1
    <3>3. /\ fresh \/ BootOf(Was(k), boot) = reboots
          /\ ~hidden => TotalOf(Was(k), lag, boot) = counted
      BY <2>1, <2>4, <2>8, <3>2 DEF Continuous
    <3> QED
      BY <1>1, <2>4, <3>3
  <2>9. \A k : Quiet(k, Len(topic) + 1)' <=> Quiet(k, n)'
    BY <1>4, <1>5, <2>7 DEF Quiet, Shrunk
  <2>10. Underway(lag, now)'
    <3>1. CASE billed = counted
      BY <1>1, <1>6, <1>13, <3>1 DEF Underway
    <3>2. CASE TotalOf(i, lag, boot) = counted
      <4>1. offset' + topic[i].raw = counted
        BY <1>6, <1>7, <2>2, <3>2
      <4>2. billed' = counted'
        BY <1>1, <1>6, <1>13, <4>1
      <4> QED
        BY <4>2 DEF Underway
    <3>3. ASSUME NEW j \in 1 .. Len(topic), TotalOf(j, lag, boot) = counted, j # i
          PROVE  Underway(lag, now)'
      <4>1. j \in Places /\ j # 0
        BY <1>5 DEF Places
      <4>2. PICK k \in Places' : k # 0 /\ Shift(i, k) = j
        BY <1>4, <3>3, <4>1 DEF Shrunk
      <4>3. TotalOf(k, lag, now)' = counted'
        BY <1>1, <2>0, <2>4, <3>3, <4>2
      <4>4. k \in 1 .. Len(topic')
        BY <1>4, <1>5, <2>3, <4>2 DEF Shrunk
      <4> QED
        BY <4>3, <4>4 DEF Underway
    <3>4. CASE ring # <<>> /\ ring[Len(ring)] = Reading
      BY <1>1, <3>4 DEF Underway
    <3> QED
      BY <2>1, <3>1, <3>2, <3>3, <3>4 DEF Continuous, Underway
  <2>11. fresh' => ~hidden' /\ \A k \in 1 .. Len(ring') : ring'[k] = Reading'
    BY <1>1, <2>1 DEF Continuous
  <2>12. \A k \in Places' : LiveAt(k)' /\ Quiet(k, Len(topic) + 1)' =>
            /\ fresh' \/ BootOf(k, now)' = reboots'
            /\ ~hidden' => TotalOf(k, lag, now)' = counted'
    BY <2>8, <2>9
  <2> QED
    BY <2>2, <2>6, <2>10, <2>11, <2>12 DEF Continuous
<1> QED
  BY <1>1, <1>15, <1>16, <1>17 DEF Consistent
-----------------------------------------------------------------------------
(* The invariant *)

LEMMA MeterInvInit == MeteringInit => MeterInv
<1> SUFFICES ASSUME MeteringInit PROVE MeterInv
  OBVIOUS
<1>1. /\ counted = 0 /\ Reading = 0 /\ reboots = 0 /\ billed = 0 /\ offset = 0 /\ lastRaw = -1
      /\ ring = <<>> /\ topic = <<>> /\ ~fresh /\ ~hidden
  BY DEF MeteringInit, Reading, SessionKwh
<1>9. LossBounded
  BY MeteringAssumption DEF MeteringInit, LossBounded, Sunk
<1>2. PICK lag : lag = [b \in 0 .. 0 |-> 0]
  OBVIOUS
<1>3. lag \in [0 .. reboots -> Nat] /\ lag[0] = 0 /\ 0 \in 0 .. reboots /\ 0 .. reboots = {0}
  BY <1>1, <1>2
<1>4. Len(topic) = 0 /\ Len(ring) = 0 /\ Places = {0} /\ Heard = 0
  BY <1>1 DEF Places, Heard
<1>5. TotalOf(0, lag, 0) = 0 /\ BootOf(0, 0) = 0 /\ LiveAt(0)
  BY <1>3, <1>4 DEF TotalOf, BootOf, LiveAt
<1>6. Lags(lag)
  BY <1>1, <1>3 DEF Lags
<1>7. Ordered(lag, 0)
  BY <1>1, <1>3, <1>4, <1>5 DEF Ordered
<1>8. Continuous(lag, 0)
  BY <1>1, <1>3, <1>4, <1>5 DEF Continuous, Underway
<1> QED
  BY <1>3, <1>6, <1>7, <1>8, <1>9, MeterShapeInit DEF MeterInv, Accounted, Consistent

\* A reboot adds less than the threshold to what no reading shows.
LEMMA OneMore ==
    ASSUME NEW r \in Nat, NEW p \in Nat
    PROVE  (r + 1) * p = r * p + p /\ r * p \in Nat
  OBVIOUS

LEMMA LossStep == ASSUME MeterShape, LossBounded, [MeteringNext]_meteringVars PROVE LossBounded'
<1>1. PICK most \in Nat : most = reboots * (PersistEvery - 1)
  <2>1. reboots \in Nat /\ PersistEvery - 1 \in Nat
    BY MeteringAssumption DEF MeterShape, MeteringTypeOK
  <2>2. reboots * (PersistEvery - 1) \in Nat
    BY <2>1, OneMore
  <2> QED
    BY <2>2
<1>2. /\ delivered \in Nat /\ counted \in Nat /\ meter \in Int /\ Sunk(meter) \in Nat
      /\ delivered - counted + Sunk(meter) <= most
  BY <1>1 DEF LossBounded, MeterShape, MeteringTypeOK, Sunk
<1>3. ASSUME NEW accrued \in {0, 1}, Poll(accrued) PROVE LossBounded'
  <2>1. PICK gain : gain = Rise(accrued)
    OBVIOUS
  <2>2. /\ gain \in Nat /\ counted' = counted + gain /\ delivered' = delivered + accrued
        /\ Sunk(meter') \in Nat /\ Sunk(meter') = Sunk(meter) + gain - accrued
    BY <1>3, <2>1, Rising DEF Rises
  <2>3. delivered' - counted' + Sunk(meter') <= most
    BY <1>2, <2>2
  <2>4. reboots' = reboots
    BY <1>3 DEF Poll
  <2> QED
    BY <1>1, <2>3, <2>4 DEF LossBounded
<1>4. CASE Reboot
  <2>1. /\ reboots' = reboots + 1 /\ UNCHANGED <<delivered, counted>> /\ meter' = saved
    BY <1>4 DEF Reboot
  <2>2. Sunk(saved) \in Nat /\ Sunk(saved) <= PersistEvery - 1 /\ PersistEvery - 1 \in Nat
    BY MeteringAssumption DEF MeterShape, MeteringTypeOK, Sunk
  <2>3. reboots \in Nat
    BY DEF MeterShape, MeteringTypeOK
  <2>4. reboots' * (PersistEvery - 1) = most + (PersistEvery - 1)
    BY <1>1, <2>1, <2>2, <2>3, OneMore
  <2>5. delivered - counted + Sunk(saved) <= most + (PersistEvery - 1)
    BY <1>2, <2>2
  <2> QED
    BY <2>1, <2>4, <2>5 DEF LossBounded
<1>5. ASSUME UNCHANGED <<delivered, counted, meter, reboots>> PROVE LossBounded'
  BY <1>5 DEF LossBounded
<1>6. ASSUME MqttDisconnected \/ MqttConnected \/ Resync \/ UNCHANGED meteringVars
      PROVE  UNCHANGED <<delivered, counted, meter, reboots>>
  BY <1>6, Zenon DEF MqttDisconnected, MqttConnected, Resync, meteringVars, gatewayVars
<1>7. ASSUME NEW i \in DOMAIN topic, Lose(i) \/ Persist(i)
      PROVE  UNCHANGED <<delivered, counted, meter, reboots>>
  BY <1>7, Zenon DEF Lose, Persist, gatewayVars
<1> QED
  BY <1>3, <1>4, <1>5, <1>6, <1>7 DEF MeteringNext

LEMMA MeterInvStep == ASSUME MeterInv, [MeteringNext]_meteringVars PROVE MeterInv'
<1>1. MeterShape /\ Accounted /\ MeterShape'
  BY MeterShapeStep DEF MeterInv
<1>7. LossBounded'
  BY LossStep DEF MeterInv
<1>2. ASSUME NEW accrued \in {0, 1}, Poll(accrued) PROVE Accounted'
  <2> SUFFICES ASSUME ~mixed'
               PROVE  \E lag \in [0 .. reboots' -> Nat], boot \in 0 .. reboots' : Consistent(lag, boot)'
    BY DEF Accounted
  <2>1. reboots' = reboots /\ ~mixed
    BY <1>2 DEF Poll
  <2>2. PICK lag \in [0 .. reboots -> Nat], boot \in 0 .. reboots : Consistent(lag, boot)
    BY <1>1, <2>1 DEF Accounted
  <2>3. Consistent(lag, boot)'
    BY <1>1, <1>2, <2>1, <2>2, LivePoll, HiddenPoll
  <2> QED
    BY <2>1, <2>3
<1>3. ASSUME MqttDisconnected \/ MqttConnected \/ UNCHANGED meteringVars PROVE Accounted'
  <2>1. UNCHANGED <<counted, Reading, fresh, ring, topic, hidden, reboots,
                     billed, offset, lastRaw, lost, mixed, masked>>
    BY <1>3, Zenon DEF MqttDisconnected, MqttConnected, meteringVars, gatewayVars, sessionVars, Reading
  <2> QED
    BY <1>1, <2>1, AccountSame
<1>4. ASSUME Resync PROVE Accounted'
  <2> SUFFICES ASSUME ~mixed'
               PROVE  \E lag \in [0 .. reboots' -> Nat], boot \in 0 .. reboots' : Consistent(lag, boot)'
    BY DEF Accounted
  <2>1. reboots' = reboots /\ ~mixed
    BY <1>4 DEF Resync
  <2>2. PICK lag \in [0 .. reboots -> Nat], boot \in 0 .. reboots : Consistent(lag, boot)
    BY <1>1, <2>1 DEF Accounted
  <2>3. Consistent(lag, boot)'
    BY <1>1, <1>4, <2>2, ResyncAccount
  <2> QED
    BY <2>1, <2>3
<1>5. ASSUME Reboot PROVE Accounted'
  <2> SUFFICES ASSUME ~mixed'
               PROVE  \E lag \in [0 .. reboots' -> Nat], boot \in 0 .. reboots' : Consistent(lag, boot)'
    BY DEF Accounted
  <2>1. reboots' = reboots + 1 /\ ~mixed /\ reboots \in Nat
    <3>1. mixed' = (mixed \/ ring # <<>>)
      BY <1>5 DEF Reboot
    <3>2. mixed \in BOOLEAN /\ reboots \in Nat
      BY <1>1 DEF MeterShape, MeteringTypeOK
    <3>3. ~mixed
      BY <3>1, <3>2
    <3> QED
      BY <1>5, <3>2, <3>3 DEF Reboot
  <2>2. PICK lag \in [0 .. reboots -> Nat], boot \in 0 .. reboots : Consistent(lag, boot)
    BY <1>1, <2>1 DEF Accounted
  <2>3. \E l \in [0 .. reboots' -> Nat] : Consistent(l, boot)'
    BY <1>1, <1>5, <2>2, RebootAccount
  <2>4. boot \in 0 .. reboots'
    BY <2>1
  <2> QED
    BY <2>3, <2>4
<1>6. ASSUME NEW i \in DOMAIN topic, Lose(i) \/ Persist(i) PROVE Accounted'
  <2> SUFFICES ASSUME ~mixed'
               PROVE  \E lag \in [0 .. reboots' -> Nat], boot \in 0 .. reboots' : Consistent(lag, boot)'
    BY DEF Accounted
  <2>1. reboots' = reboots /\ ~mixed /\ i \in 1 .. Len(topic)
    <3>1. mixed \in BOOLEAN /\ i \in 1 .. Len(topic)
      BY <1>1, Readings DEF MeterShape, MeteringTypeOK
    <3>2. mixed' = mixed \/ mixed' = (mixed \/ Overtakes(i))
      BY <1>6 DEF Lose, Persist
    <3>3. ~mixed
      BY <3>1, <3>2
    <3>4. reboots' = reboots
      BY <1>6 DEF Lose, Persist, gatewayVars
    <3> QED
      BY <3>1, <3>3, <3>4
  <2>2. PICK lag \in [0 .. reboots -> Nat], boot \in 0 .. reboots : Consistent(lag, boot)
    BY <1>1, <2>1 DEF Accounted
  <2>3. CASE Lose(i)
    <3>1. Consistent(lag, boot)'
      BY <1>1, <2>1, <2>2, <2>3, LoseAccount
    <3> QED
      BY <2>1, <3>1
  <2>4. CASE Persist(i) /\ ~topic[i].live
    <3>1. Consistent(lag, boot)'
      BY <1>1, <2>1, <2>2, <2>4, PersistBuffered
    <3> QED
      BY <2>1, <3>1
  <2>5. CASE Persist(i) /\ topic[i].live
    <3>1. PICK now : now = topic[i].boot
      OBVIOUS
    <3>2. now \in 0 .. reboots'
      BY <1>1, <2>1, <3>1, Readings
    <3>3. Consistent(lag, now)'
      BY <1>1, <2>1, <2>2, <2>5, <3>1, PersistLive
    <3> QED
      BY <2>1, <3>2, <3>3
  <2> QED
    BY <1>6, <2>3, <2>4, <2>5
<1> QED
  BY <1>1, <1>2, <1>3, <1>4, <1>5, <1>6, <1>7 DEF MeterInv, MeteringNext

LEMMA MeterInvHolds == MeteringSpec => []MeterInv
  BY MeterInvInit, MeterInvStep, PTL DEF MeteringSpec

\* _persist_telemetry never bills a driver for more energy than the gateway
\* measured, for every size of the ring and whatever is replayed, set back or
\* lost (the readings of a boot and the live ones in their order).
THEOREM MeteredWithinEnergyHolds == MeteringSpec => []MeteredWithinEnergy
<1>1. MeterInv => MeteredWithinEnergy
  <2> SUFFICES ASSUME MeterInv PROVE MeteredWithinEnergy
    OBVIOUS
  <2>1. MeteringTypeOK /\ counted <= delivered
    BY DEF MeterInv, MeterShape
  <2>2. mixed \/ billed <= counted
    BY DEF MeterInv, Accounted, Consistent, Ordered
  <2>3. NeverOverbilled
    BY <2>1, <2>2 DEF MeteringTypeOK, NeverOverbilled
  <2> QED
    BY <2>1, <2>3 DEF MeteredWithinEnergy
<1> QED
  BY <1>1, MeterInvHolds, PTL

\* With everything on the topic and in the ring persisted and nothing lost or
\* masked, the session's energy_kwh is all that the readings have risen by: what
\* a full ring overwrote and what a reboot set back are in a later reading and
\* the offset.  And what the readings never showed, because the meter was saved
\* before the session's baseline, is below one threshold for each reboot.
THEOREM BilledInFullHolds == MeteringSpec => []BilledInFull
<1>1. MeterInv => ReadingsBilled
  <2> SUFFICES ASSUME MeterInv, connected, ring = <<>>, topic = <<>>, ~lost, ~mixed, ~masked
               PROVE  billed = counted
    BY DEF ReadingsBilled
  <2>1. PICK lag \in [0 .. reboots -> Nat], boot \in 0 .. reboots : Consistent(lag, boot)
    BY DEF MeterInv, Accounted
  <2>2. Underway(lag, boot) /\ Len(topic) = 0
    BY <2>1 DEF Consistent, Continuous
  <2> QED
    BY <2>2 DEF Underway
<1>2. MeterInv => CrashLossBounded
  <2> SUFFICES ASSUME MeterInv PROVE CrashLossBounded
    OBVIOUS
  <2>1. PICK most : most = reboots * (PersistEvery - 1)
    OBVIOUS
  <2>2. most \in Nat
    <3>1. reboots \in Nat /\ PersistEvery - 1 \in Nat
      BY MeteringAssumption DEF MeterInv, MeterShape, MeteringTypeOK
    <3> QED
      BY <2>1, <3>1, OneMore
  <2>3. /\ delivered \in Nat /\ counted \in Nat /\ Sunk(meter) \in Nat
        /\ delivered - counted + Sunk(meter) <= most
    BY <2>1 DEF MeterInv, MeterShape, MeteringTypeOK, LossBounded, Sunk
  <2>4. delivered - counted <= most
    BY <2>2, <2>3
  <2> QED
    BY <2>1, <2>4 DEF CrashLossBounded
<1> QED
  BY <1>1, <1>2, MeterInvHolds, PTL DEF BilledInFull
=============================================================================
