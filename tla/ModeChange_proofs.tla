-------------------------- MODULE ModeChange_proofs --------------------------
(***************************************************************************)
(* Proofs about ModeChange for every set of tasks, every set of commanded  *)
(* states and all bounds.                                                  *)
(***************************************************************************)
EXTENDS ModeChange, TLAPS

-----------------------------------------------------------------------------
(* The inductive invariant *)

WriteStates == {"bootWrite", "savePrev", "saveCur"}

\* The field OBC writes at each of its three flash round trips.
WrittenAt(o) == IF o = "bootWrite" THEN "boot" ELSE IF o = "savePrev" THEN "prev" ELSE "cur"

\* The queue holds at most one request of a subsystem task, ahead of the request
\* of OBC that exists exactly while OBC waits for a flash write.
QueueShape ==
    /\ obc = "boot" => reqs = <<>>
    /\ obc \notin WriteStates => Len(reqs) <= 1
    /\ obc \in WriteStates => Len(reqs) \in 1..2 /\ reqs[Len(reqs)].client = "OBC"
    /\ \A i \in 1..Len(reqs) :
         IF reqs[i].client = "OBC"
         THEN i = Len(reqs) /\ obc \in WriteStates /\ reqs[i].field = WrittenAt(obc)
         ELSE reqs[i].field = "data"
    /\ loc["OBDH"] \in {"top", "pause", "resume", "body", "wait"}

\* Before its creation ends a task is at the top of its loop, and a paused poller is
\* never blocked on its queue.
PauseShape ==
    /\ PausedDoesNoWork
    /\ \A t \in Tasks \intersect Pollers : paused[t] => loc[t] # "wait"
    /\ obc = "boot" => \A t \in Tasks : loc[t] = "top"

IInv == /\ TypeOK /\ QueueShape /\ PauseShape
        /\ StatePersisted /\ OneRequestPerBlockedClient

-----------------------------------------------------------------------------
(* Tables *)

LEMMA TableTypes ==
    /\ \A s \in States : TasksFor(s) \subseteq Tasks
    /\ \A s \in States : FreqFor(s) \in Frequencies
    /\ \A t \in Tasks : Timeout(t) \in Nat
    /\ "OBC" \notin Tasks /\ "OBDH" \in Tasks /\ "COMMS" \in Tasks
  BY TasksAssumption DEF TasksFor, FreqFor, Frequencies, Timeout, AllTasks, States

LEMMA PriorityOrder ==
    ASSUME NEW t \in FlashClients, NEW u \in Tasks
    PROVE  Priority(u) <= Priority(t) => u # "OBDH"
  BY DEF FlashClients, Priority

-----------------------------------------------------------------------------
LEMMA InitTypeOK == Init => TypeOK
  BY TableTypes, BootStatesAssumption, BoundsAssumption
  DEF Init, TypeOK, Locations, ObcPoints, States, HealthPeriod, WatchdogTimeout

-----------------------------------------------------------------------------
(* The flash queue *)

LEMMA RequestType ==
    \A c \in Tasks \union {"OBC"} : \A f \in {"boot", "prev", "cur", "data"} :
        Request(c, f) \in Requests
  BY DEF Request, Requests

\* Deleting the clients of requests changes neither the length of the queue nor who
\* asked for what.
LEMMA AbandonKeeps ==
    ASSUME reqs \in Seq(Requests), NEW rs
    PROVE  /\ Abandon(rs) \in Seq(Requests)
           /\ Len(Abandon(rs)) = Len(reqs)
           /\ \A i \in 1..Len(reqs) : /\ Abandon(rs)[i].client = reqs[i].client
                                      /\ Abandon(rs)[i].field = reqs[i].field
<1>1. \A i \in 1..Len(reqs) : reqs[i] \in Requests
  OBVIOUS
<1>2. \A r \in Requests : /\ [r EXCEPT !.live = FALSE] \in Requests
                          /\ [r EXCEPT !.live = FALSE].client = r.client
                          /\ [r EXCEPT !.live = FALSE].field = r.field
  BY DEF Requests
<1>3. Abandon(rs) \in [1..Len(reqs) -> Requests]
  BY <1>1, <1>2 DEF Abandon
<1>4. Abandon(rs) \in Seq(Requests) /\ Len(Abandon(rs)) = Len(reqs)
  BY <1>3
<1>5. ASSUME NEW i \in 1..Len(reqs)
      PROVE  Abandon(rs)[i].client = reqs[i].client /\ Abandon(rs)[i].field = reqs[i].field
  BY <1>1, <1>2 DEF Abandon
<1> QED
  BY <1>4, <1>5

-----------------------------------------------------------------------------
(* Type correctness of each step *)

LEMMA ObcActionTypes == ASSUME TypeOK, ObcStep, QueueShape PROVE TypeOK'
<1> USE TableTypes, RequestType
<1> USE DEF TypeOK, vars, obcVars, taskVars, healthVars, ObcPoints
<1>1. CASE ObcBoot
  BY <1>1 DEF ObcBoot
<1>2. CASE ObcChangeState
  BY <1>2 DEF ObcChangeState, NextState, States
<1>3. CASE ObcIdle
  BY <1>3 DEF ObcIdle
<1>4. CASE ObcPause
  BY <1>4 DEF ObcPause, Notify, AckTimeout
<1>5. CASE ObcSwitchAndResume
  BY <1>5 DEF ObcSwitchAndResume, Notify, AckTimeout
<1>6. CASE ObcEnterState
  BY <1>6 DEF ObcEnterState
<1>7. CASE ObcCheck
  <2> DEFINE missing == expected \ kicked
  <2>1. CASE sinceCheck < HealthPeriod
    BY <1>7, <2>1 DEF ObcCheck, ObcWait, HealthPeriod, WatchdogTimeout
  <2>2. CASE ~(sinceCheck < HealthPeriod)
    <3>1. Reset(missing) /\ UNCHANGED <<paused, acks>> /\ kicked' = kicked \ expected
          /\ sinceCheck' = 0 /\ iwdg' = (IF missing = {} THEN 0 ELSE iwdg)
          /\ faulty' = missing
      BY <1>7, <2>2 DEF ObcCheck
    <3>2. missing \subseteq Tasks
      OBVIOUS
    <3>3. reqs' \in Seq(Requests)
      BY <3>1, AbandonKeeps DEF Reset
    <3>4. /\ loc' \in [Tasks -> Locations]
          /\ left' \in [Tasks -> Nat] /\ seen' \in [Tasks -> SUBSET Tasks]
          /\ bits' \in [Tasks -> SUBSET {"PAUSE", "RESUME"}]
      BY <3>1 DEF Reset, Locations
    <3>5. received' \subseteq Tasks /\ expected' \subseteq Tasks /\ kicked' \subseteq Tasks
          /\ faulty' \subseteq Tasks /\ sinceCheck' \in 0..HealthPeriod
          /\ iwdg' \in 0..WatchdogTimeout
      BY <3>1, <3>2 DEF Reset, HealthPeriod, WatchdogTimeout
    <3> QED
      BY <1>7, <3>1, <3>3, <3>4, <3>5 DEF ObcCheck, ObcWait
  <2> QED
    BY <2>1, <2>2
<1> QED
  BY <1>1, <1>2, <1>3, <1>4, <1>5, <1>6, <1>7 DEF ObcStep

LEMMA MoveTypes ==
    ASSUME TypeOK, NEW t \in Tasks,
           \/ Loop(t) \/ Proceed(t)
           \/ \E l \in Locations : Goto(t, l) \/ \E d \in Nat : Block(t, l, d)
    PROVE  loc' \in [Tasks -> Locations] /\ left' \in [Tasks -> Nat]
<1>1. CASE \E l \in Locations : Goto(t, l) \/ \E d \in Nat : Block(t, l, d)
  <2>1. PICK l \in Locations : Goto(t, l) \/ \E d \in Nat : Block(t, l, d)
    BY <1>1
  <2>2. PICK d \in Nat : Goto(t, l) \/ Block(t, l, d)
    BY <2>1
  <2>3. PICK n \in Nat : loc' = [loc EXCEPT ![t] = l] /\ left' = [left EXCEPT ![t] = n]
    BY <2>2 DEF Goto, Block
  <2> QED
    BY ONLY TypeOK, t \in Tasks, l \in Locations, n \in Nat, <2>3 DEF TypeOK
<1>2. CASE Loop(t) \/ Proceed(t)
  <2>1. Timeout(t) \in Nat
    BY TableTypes
  <2>2. "wait" \in Locations /\ "top" \in Locations /\ "body" \in Locations
    BY DEF Locations
  <2>3. \E l \in Locations : Goto(t, l) \/ \E d \in Nat : Block(t, l, d)
    BY <1>2, <2>1, <2>2 DEF Loop, Proceed
  <2> QED
    BY <1>1, <2>3
<1> QED
  BY <1>1, <1>2

LEMMA TaskActionTypes == ASSUME TypeOK, NEW t \in Tasks, TaskStep(t) PROVE TypeOK'
<1> USE TableTypes, RequestType
<1> USE DEF TypeOK, vars, obcVars, taskVars, healthVars
<1>0. {"top", "pause", "resume", "body", "wait", "flash", "radio", "session"} = Locations
  BY DEF Locations
<1>1. CASE ReadNotifications(t)
  <2>1. \/ Loop(t) \/ Proceed(t)
        \/ \E l \in Locations : Goto(t, l) \/ \E d \in Nat : Block(t, l, d)
    <3>1. "resume" \in Locations /\ "pause" \in Locations
      BY DEF Locations
    <3>2. TakeResume(t) \/ StayPaused(t) \/ TakePause(t) \/ StayRunning(t)
      BY <1>1 DEF ReadNotifications
    <3> QED
      BY ONLY <3>1, <3>2 DEF TakeResume, StayPaused, TakePause, StayRunning
  <2>2. loc' \in [Tasks -> Locations] /\ left' \in [Tasks -> Nat]
    BY <2>1, MoveTypes
  <2>3. paused' \in [Tasks -> BOOLEAN] /\ seen' \in [Tasks -> SUBSET Tasks]
    BY <1>1 DEF ReadNotifications, TakeResume, StayPaused, TakePause, StayRunning
  <2> QED
    BY <1>1, <2>2, <2>3 DEF ReadNotifications
<1>2. CASE FinishPause(t)
  <2>1. loc' \in [Tasks -> Locations] /\ left' \in [Tasks -> Nat]
    BY <1>2, MoveTypes DEF FinishPause
  <2> QED
    BY <1>2, <2>1 DEF FinishPause
<1>3. CASE FinishResume(t)
  <2>1. loc' \in [Tasks -> Locations] /\ left' \in [Tasks -> Nat]
    BY <1>3, MoveTypes DEF FinishResume
  <2> QED
    BY <1>3, <2>1 DEF FinishResume, SetExpected
<1>4. CASE EndLoop(t)
  <2>1. loc' \in [Tasks -> Locations] /\ left' \in [Tasks -> Nat]
    BY <1>4, MoveTypes DEF EndLoop
  <2> QED
    BY <1>4, <2>1 DEF EndLoop
<1>5. CASE Submit(t)
  BY <1>0, <1>5 DEF Submit
<1>6. CASE StartExchange(t)
  BY <1>0, <1>6, BoundsAssumption DEF StartExchange, Block
<1>7. CASE KickInSession(t)
  BY <1>0, <1>7, BoundsAssumption DEF KickInSession, Block
<1>8. CASE EndExchange(t)
  BY <1>0, <1>8 DEF EndExchange, Goto
<1>9. CASE Expire(t)
  BY <1>0, <1>9 DEF Expire, Goto
<1>10. CASE Signal(t)
  BY <1>10 DEF Signal
<1> QED
  BY <1>1, <1>2, <1>3, <1>4, <1>5, <1>6, <1>7, <1>8, <1>9, <1>10 DEF TaskStep

\* Only here does the shape of the queue matter: a request of OBC is served only
\* while OBC waits for it.
LEMMA ServeTypes == ASSUME TypeOK, QueueShape, Serve PROVE TypeOK'
<1> DEFINE r == Head(reqs)
<1>1. r \in Requests /\ r = reqs[1] /\ 1 \in 1..Len(reqs) /\ Tail(reqs) \in Seq(Requests)
  BY DEF Serve, TypeOK
<1>2. r.client = "OBC" => obc \in WriteStates
  BY <1>1 DEF QueueShape
<1>3. flash' \in [cur : States, prev : States]
  BY <1>1 DEF Serve, TypeOK
<1>4. obc' \in {"idle", "pause", "check"} \/ obc' = obc
  BY DEF Serve, AfterWrite
<1>5. loc' \in [Tasks -> Locations]
  <2>1. "body" \in Locations /\ Submits(r.client) \in Locations
    BY DEF Locations, Submits
  <2>2. CASE r.client = "OBC"
    BY <2>1, <2>2 DEF Serve, TypeOK
  <2>3. CASE r.client # "OBC"
    <3>1. loc' = [loc EXCEPT !["OBDH"] = "body",
                             ![r.client] = IF @ = "flash" THEN Submits(r.client) ELSE @]
      BY <2>3 DEF Serve
    <3>2. loc \in [Tasks -> Locations]
      BY DEF TypeOK
    <3>3. loc' = [t \in Tasks |-> loc'[t]]
      BY <3>1, <3>2
    <3>4. ASSUME NEW t \in Tasks PROVE loc'[t] \in {"body", Submits(r.client), loc[t]}
      BY <3>1, <3>2
    <3> QED
      BY <2>1, <3>2, <3>3, <3>4
  <2> QED
    BY <2>2, <2>3
<1>6. obcLeft' \in Nat /\ left' \in [Tasks -> Nat]
  BY TableTypes DEF Serve, TypeOK, ObcWait
<1>7. reqs' \in Seq(Requests) /\ obc' \in ObcPoints
  BY <1>1, <1>4 DEF Serve, TypeOK, ObcPoints
<1> QED
  BY <1>3, <1>5, <1>6, <1>7 DEF Serve, TypeOK, taskVars, healthVars

LEMMA EnvironmentTypes ==
    ASSUME TypeOK, (\E s \in Commands : ReceiveCommand(s)) \/ ReceiveFrame \/ Tick \/ Reboot
    PROVE  TypeOK'
<1> USE TableTypes
<1> USE DEF TypeOK, vars, obcVars, taskVars, healthVars, Goto, Locations, ObcPoints
<1>1. CASE \E s \in Commands : ReceiveCommand(s)
  BY <1>1, BoundsAssumption DEF ReceiveCommand
<1>2. CASE ReceiveFrame
  BY <1>2 DEF ReceiveFrame
<1>3. CASE Tick
  <2>1. left' \in [Tasks -> Nat]
    BY <1>3 DEF Tick
  <2>2. obcLeft' \in Nat
    BY <1>3 DEF Tick, ObcExpired
  <2> QED
    BY <1>3, <2>1, <2>2 DEF Tick, HealthPeriod, WatchdogTimeout
<1>4. CASE Reboot
  BY <1>4 DEF Reboot, HealthPeriod, WatchdogTimeout
<1> QED
  BY <1>1, <1>2, <1>3, <1>4

-----------------------------------------------------------------------------
(* The flash queue across each step *)

\* A client has the processor only while OBDH is blocked on an empty queue.
LEMMA ClientSeesEmptyQueue ==
    ASSUME QueueShape, NEW t \in FlashClients, HasCpu(t)
    PROVE  reqs = <<>> /\ obc # "boot"
<1>1. Priority("OBDH") <= Priority(t) => FALSE
  BY DEF Priority, FlashClients
<1>2. ~Ready("OBDH")
  BY <1>1, TableTypes DEF HasCpu
<1>3. reqs = <<>>
  BY <1>2 DEF QueueShape, Ready, Pollers
<1> QED
  BY <1>3 DEF HasCpu, ObcReady

LEMMA SameQueue ==
    ASSUME QueueShape, reqs' = reqs,
           obc' = obc \/ (obc \notin WriteStates /\ obc' \notin WriteStates /\ obc' # "boot"),
           loc'["OBDH"] \in {"top", "pause", "resume", "body", "wait"}
    PROVE  QueueShape'
  BY DEF QueueShape

\* OBC posts a request: at most one of a task is ahead of it.
LEMMA ObcPosts ==
    ASSUME TypeOK, QueueShape, obc \notin WriteStates, obc' \in WriteStates, loc' = loc,
           reqs' = Append(reqs, Request("OBC", WrittenAt(obc')))
    PROVE  QueueShape'
<1> DEFINE r == Request("OBC", WrittenAt(obc'))
<1>1. reqs \in Seq(Requests) /\ Len(reqs) \in Nat /\ Len(reqs) <= 1
  BY DEF TypeOK, QueueShape
<1>2. Len(reqs') = Len(reqs) + 1 /\ reqs'[Len(reqs) + 1] = r
      /\ \A i \in 1..Len(reqs) : reqs'[i] = reqs[i]
  BY <1>1
<1>3. r.client = "OBC" /\ r.field = WrittenAt(obc')
  BY DEF Request
<1>4. \A i \in 1..Len(reqs) : reqs[i].client # "OBC" /\ reqs[i].field = "data"
  BY DEF QueueShape
<1>5. obc' # "boot"
  BY DEF WriteStates
<1> HIDE DEF r
<1> QED
  BY <1>1, <1>2, <1>3, <1>4, <1>5 DEF QueueShape

LEMMA ObcQueue == ASSUME TypeOK, QueueShape, ObcStep PROVE QueueShape'
<1>1. CASE ObcBoot
  BY <1>1, ObcPosts DEF ObcBoot, WriteStates, WrittenAt
<1>2. CASE ObcChangeState
  BY <1>2, ObcPosts DEF ObcChangeState, WriteStates, WrittenAt, taskVars
<1>3. CASE ObcIdle
  BY <1>3, SameQueue DEF ObcIdle, taskVars, WriteStates, QueueShape
<1>4. CASE ObcPause
  BY <1>4, SameQueue DEF ObcPause, WriteStates, QueueShape
<1>5. CASE ObcSwitchAndResume
  BY <1>5, SameQueue DEF ObcSwitchAndResume, WriteStates, QueueShape
<1>6. CASE ObcEnterState
  BY <1>6, ObcPosts DEF ObcEnterState, WriteStates, WrittenAt
<1>7. CASE ObcCheck
  <2>1. CASE sinceCheck < HealthPeriod
    BY <1>7, <2>1, SameQueue DEF ObcCheck, taskVars, WriteStates, QueueShape
  <2>2. CASE ~(sinceCheck < HealthPeriod)
    <3>1. PICK rs : Reset(rs)
      BY <1>7, <2>2 DEF ObcCheck
    <3>2. reqs \in Seq(Requests) /\ reqs' = Abandon(rs) /\ obc = "check" /\ obc' = "idle"
      BY <1>7, <3>1 DEF ObcCheck, Reset, TypeOK
    <3>3. Len(reqs') = Len(reqs)
          /\ \A i \in 1..Len(reqs) : /\ reqs'[i].client = reqs[i].client
                                     /\ reqs'[i].field = reqs[i].field
      BY <3>2, AbandonKeeps
    <3>4. loc'["OBDH"] \in {"top", "pause", "resume", "body", "wait"}
      BY <3>1, TableTypes DEF Reset, QueueShape
    <3> QED
      BY <3>2, <3>3, <3>4 DEF QueueShape, WriteStates
  <2> QED
    BY <2>1, <2>2
<1> QED
  BY <1>1, <1>2, <1>3, <1>4, <1>5, <1>6, <1>7 DEF ObcStep

LEMMA TaskQueue == ASSUME TypeOK, QueueShape, NEW t \in Tasks, TaskStep(t) PROVE QueueShape'
<1> USE TableTypes
<1> DEFINE Where == {"top", "pause", "resume", "body", "wait"}
<1>1. CASE Submit(t)
  <2>1. reqs = <<>> /\ obc # "boot"
    BY <1>1, ClientSeesEmptyQueue DEF Submit
  <2>2. obc' = obc /\ reqs' = <<Request(t, "data")>> /\ t # "OBDH"
    BY <1>1, <2>1 DEF Submit, obcVars, FlashClients
  <2>3. obc \notin WriteStates
    BY <2>1 DEF QueueShape
  <2>4. loc'["OBDH"] \in Where
    BY <1>1, <2>2 DEF Submit, QueueShape, TypeOK
  <2>5. Len(reqs') = 1 /\ reqs'[1] = [client |-> t, field |-> "data", live |-> TRUE]
    BY <2>2 DEF Request
  <2>6. t # "OBC"
    OBVIOUS
  <2> QED
    BY <2>1, <2>2, <2>3, <2>4, <2>5, <2>6 DEF QueueShape
<1>2. CASE ~Submit(t)
  <2>1. reqs' = reqs /\ obc' = obc
    BY <1>2 DEF TaskStep, ReadNotifications, FinishPause, FinishResume, EndLoop,
       StartExchange, KickInSession, EndExchange, Expire, Signal, obcVars
  <2>2. t = "OBDH" \/ loc'["OBDH"] = loc["OBDH"]
    BY <1>2 DEF TaskStep, ReadNotifications, FinishPause, FinishResume, EndLoop,
       StartExchange, KickInSession, EndExchange, Expire, Signal, Goto, Block, Loop, Proceed,
       TakeResume, StayPaused, TakePause, StayRunning, TypeOK
  <2>3. ASSUME t = "OBDH" PROVE loc'["OBDH"] \in Where
    <3>1. \/ ReadNotifications(t) \/ FinishPause(t) \/ FinishResume(t) \/ EndLoop(t)
          \/ Expire(t) \/ Signal(t)
      BY <1>2, <2>3 DEF TaskStep, StartExchange, KickInSession, EndExchange, QueueShape
    <3> QED
      BY <2>3, <3>1 DEF ReadNotifications, FinishPause, FinishResume, EndLoop, Expire, Signal,
         Goto, Block, Loop, Proceed, TakeResume, StayPaused, TakePause, StayRunning, TypeOK
  <2> QED
    BY <2>1, <2>2, <2>3, SameQueue DEF QueueShape
<1> QED
  BY <1>1, <1>2

LEMMA ServeQueue == ASSUME TypeOK, QueueShape, Serve PROVE QueueShape'
<1>1. /\ reqs \in Seq(Requests) /\ reqs # <<>> /\ reqs' = Tail(reqs)
      /\ obc # "boot"
  BY DEF Serve, TypeOK, MayRun, HasCpu, ObcReady
<1>2. Len(reqs) \in 1..2 /\ Len(reqs') = Len(reqs) - 1
      /\ \A i \in 1..Len(reqs') : reqs'[i] = reqs[i + 1]
  <2>1. Len(reqs) \in Nat /\ Len(reqs) # 0
    BY <1>1
  <2>2. Len(reqs) <= 1 \/ Len(reqs) \in 1..2
    BY DEF QueueShape
  <2>3. Len(reqs') = Len(reqs) - 1 /\ \A i \in 1..Len(reqs') : reqs'[i] = reqs[i + 1]
    BY <1>1
  <2> QED
    BY <2>1, <2>2, <2>3
<1>3. Head(reqs) = reqs[1]
  BY <1>1
<1>4. loc'["OBDH"] \in {"top", "pause", "resume", "body", "wait"}
  BY <1>3, TableTypes DEF Serve, TypeOK, QueueShape
<1>5. CASE reqs[1].client = "OBC"
  <2>1. Len(reqs) = 1
    BY <1>2, <1>5 DEF QueueShape
  <2>2. obc' \notin WriteStates /\ obc' # "boot"
    BY <1>3, <1>5 DEF Serve, AfterWrite, WriteStates
  <2> QED
    BY <1>2, <1>4, <2>1, <2>2 DEF QueueShape
<1>6. CASE reqs[1].client # "OBC"
  <2>1. obc' = obc
    BY <1>3, <1>6 DEF Serve
  <2>2. \A i \in 1..Len(reqs') : i + 1 \in 1..Len(reqs) /\ (i = Len(reqs') <=> i + 1 = Len(reqs))
    BY <1>2
  <2>3. Len(reqs') \in 0..1 /\ (obc \in WriteStates => Len(reqs) = 2)
    BY <1>2, <1>6 DEF QueueShape
  <2>4. ASSUME obc \in WriteStates PROVE Len(reqs') = 1 /\ reqs'[1].client = "OBC"
    <3>1. Len(reqs) = 2 /\ reqs[2].client = "OBC"
      BY <2>3, <2>4 DEF QueueShape
    <3> QED
      BY <1>2, <3>1
  <2>5. ASSUME NEW i \in 1..Len(reqs')
        PROVE  IF reqs'[i].client = "OBC"
               THEN i = Len(reqs') /\ obc' \in WriteStates /\ reqs'[i].field = WrittenAt(obc')
               ELSE reqs'[i].field = "data"
    BY <1>2, <2>1, <2>2 DEF QueueShape
  <2>6. Len(reqs') <= 1 /\ (obc \in WriteStates => Len(reqs') \in 1..2 /\ reqs'[Len(reqs')].client = "OBC")
    BY <2>3, <2>4
  <2> QED
    BY <1>1, <1>4, <2>1, <2>5, <2>6 DEF QueueShape
<1> QED
  BY <1>5, <1>6

LEMMA EnvironmentQueue ==
    ASSUME TypeOK, QueueShape,
           (\E s \in Commands : ReceiveCommand(s)) \/ ReceiveFrame \/ Tick \/ Reboot
    PROVE  QueueShape'
<1>1. CASE \E s \in Commands : ReceiveCommand(s)
  BY <1>1, SameQueue, TableTypes DEF ReceiveCommand, Goto, QueueShape, TypeOK
<1>2. CASE ReceiveFrame
  BY <1>2, SameQueue, TableTypes DEF ReceiveFrame, Goto, QueueShape, TypeOK
<1>3. CASE Tick
  BY <1>3, SameQueue DEF Tick, QueueShape
<1>4. CASE Reboot
  BY <1>4, TableTypes DEF Reboot, QueueShape, WriteStates
<1> QED
  BY <1>1, <1>2, <1>3, <1>4

-----------------------------------------------------------------------------
(* Paused tasks across each step *)

LEMMA ObcPausedShape == ASSUME TypeOK, PauseShape, ObcStep PROVE PauseShape'
<1> USE DEF PauseShape, PausedDoesNoWork
<1>1. CASE ObcBoot
  BY <1>1 DEF ObcBoot
<1>2. CASE ObcChangeState \/ ObcIdle \/ ObcPause \/ ObcSwitchAndResume \/ ObcEnterState
  <2>1. UNCHANGED <<loc, paused>> /\ obc' # "boot"
    BY <1>2 DEF ObcChangeState, ObcIdle, ObcPause, ObcSwitchAndResume, ObcEnterState, taskVars
  <2> QED
    BY <2>1
<1>3. CASE ObcCheck
  <2>1. paused' = paused /\ obc' # "boot"
    BY <1>3 DEF ObcCheck, taskVars
  <2>2. \A t \in Tasks : loc'[t] = loc[t] \/ loc'[t] = "top"
    BY <1>3 DEF ObcCheck, taskVars, Reset
  <2> QED
    BY <2>1, <2>2
<1> QED
  BY <1>1, <1>2, <1>3 DEF ObcStep

LEMMA TaskPausedShape ==
    ASSUME TypeOK, PauseShape, NEW t \in Tasks, TaskStep(t) PROVE PauseShape'
<1> USE DEF PauseShape, PausedDoesNoWork
<1>1. obc' = obc
  BY DEF TaskStep, ReadNotifications, FinishPause, FinishResume, EndLoop, Submit,
     StartExchange, KickInSession, EndExchange, Expire, Signal, obcVars
\* Before the boot ends every task is at the top of its loop and OBC has the processor.
<1>2. obc # "boot"
  <2>1. obc = "boot" => ObcReady /\ loc[t] = "top"
    BY DEF ObcReady
  <2> QED
    BY <2>1 DEF TaskStep, ReadNotifications, FinishPause, FinishResume, EndLoop, Submit,
       StartExchange, KickInSession, EndExchange, Expire, Signal, MayRun, HasCpu
<1>3. \A u \in Tasks \ {t} : loc'[u] = loc[u] /\ paused'[u] = paused[u]
  <2>1. \A u \in Tasks \ {t} : loc'[u] = loc[u]
    BY DEF TaskStep, ReadNotifications, FinishPause, FinishResume, EndLoop, Submit,
       StartExchange, KickInSession, EndExchange, Expire, Signal, Goto, Block, Loop, Proceed,
       TakeResume, StayPaused, TakePause, StayRunning, TypeOK
  <2>2. \A u \in Tasks \ {t} : paused'[u] = paused[u]
    BY DEF TaskStep, ReadNotifications, FinishPause, FinishResume, EndLoop, Submit,
       StartExchange, KickInSession, EndExchange, Expire, Signal,
       TakeResume, StayPaused, TakePause, StayRunning, TypeOK, taskVars
  <2> QED
    BY <2>1, <2>2
<1>4. paused'[t] => /\ loc'[t] \in {"top", "pause", "wait"}
                    /\ t \in Pollers => loc'[t] # "wait"
  <2>1. CASE ReadNotifications(t)
    <3>1. TakeResume(t) \/ StayRunning(t) => ~paused'[t]
      BY DEF TakeResume, StayRunning, TypeOK
    <3>2. StayPaused(t) \/ TakePause(t) => /\ loc'[t] \in {"top", "pause", "wait"}
                                           /\ t \in Pollers => loc'[t] # "wait"
      BY DEF StayPaused, TakePause, Loop, Goto, Block, TypeOK
    <3> QED
      BY <2>1, <3>1, <3>2 DEF ReadNotifications
  <2>2. CASE FinishPause(t) \/ EndLoop(t)
    BY <2>2 DEF FinishPause, EndLoop, Loop, Goto, Block, TypeOK
  <2>3. CASE FinishResume(t) \/ Submit(t) \/ StartExchange(t) \/ KickInSession(t) \/ EndExchange(t)
    <3>1. paused'[t] = paused[t] /\ loc[t] \notin {"top", "pause", "wait"}
      BY <2>3 DEF FinishResume, Submit, Submits, StartExchange, KickInSession, EndExchange
    <3> QED
      BY <3>1
  <2>4. CASE Expire(t)
    BY <2>4 DEF Expire, Goto, TypeOK
  <2>5. CASE Signal(t)
    BY <2>5 DEF Signal
  <2> QED
    BY <2>1, <2>2, <2>3, <2>4, <2>5 DEF TaskStep
<1> QED
  BY <1>1, <1>2, <1>3, <1>4

LEMMA OtherPausedShape ==
    ASSUME TypeOK, PauseShape, 
           Serve \/ (\E s \in Commands : ReceiveCommand(s)) \/ ReceiveFrame \/ Tick \/ Reboot
    PROVE  PauseShape'
<1> USE TableTypes DEF PauseShape, PausedDoesNoWork
<1>1. CASE Serve
  <2>1. paused' = paused /\ obc # "boot" /\ obc' # "boot"
    BY <1>1 DEF Serve, MayRun, HasCpu, ObcReady, AfterWrite
  <2>2. loc["OBDH"] = "wait" /\ ~paused["OBDH"]
    BY <1>1 DEF Serve, Pollers, TypeOK
  <2>3. \A t \in Tasks \ {"OBDH"} : loc[t] # "flash" => loc'[t] = loc[t]
    BY <1>1 DEF Serve, TypeOK
  <2>4. \A t \in Tasks : loc[t] = "flash" => ~paused[t]
    BY DEF TypeOK
  <2> QED
    BY <2>1, <2>2, <2>3, <2>4
<1>2. CASE (\E s \in Commands : ReceiveCommand(s)) \/ ReceiveFrame
  <2>1. paused' = paused /\ obc # "boot" /\ obc' = obc
    BY <1>2 DEF ReceiveCommand, ReceiveFrame, HasCpu, ObcReady
  <2>2. loc["COMMS"] = "wait" /\ ~paused["COMMS"]
    BY <1>2 DEF ReceiveCommand, ReceiveFrame, Pollers, TypeOK
  <2>3. \A t \in Tasks \ {"COMMS"} : loc'[t] = loc[t]
    BY <1>2 DEF ReceiveCommand, ReceiveFrame, Goto, TypeOK
  <2> QED
    BY <2>1, <2>2, <2>3
<1>3. CASE Tick
  BY <1>3 DEF Tick
<1>4. CASE Reboot
  BY <1>4 DEF Reboot
<1> QED
  BY <1>1, <1>2, <1>3, <1>4

-----------------------------------------------------------------------------
(* The state bytes in flash across each step *)

LEMMA PersistedStep ==
    ASSUME TypeOK, QueueShape, StatePersisted, [Next]_vars PROVE StatePersisted'
<1> USE DEF StatePersisted
<1>1. CASE ObcStep
  BY <1>1 DEF ObcStep, ObcBoot, ObcChangeState, ObcIdle, ObcPause, ObcSwitchAndResume,
     ObcEnterState, ObcCheck, taskVars, healthVars
<1>2. CASE \E t \in Tasks : TaskStep(t)
  BY <1>2 DEF TaskStep, ReadNotifications, FinishPause, FinishResume, EndLoop, Submit,
     StartExchange, KickInSession, EndExchange, Expire, Signal, obcVars
<1>3. CASE Serve
  <2> DEFINE r == reqs[1]
  <2>1. Head(reqs) = r /\ 1 \in 1..Len(reqs)
    BY <1>3 DEF Serve, TypeOK
  <2>2. CASE r.client = "OBC"
    <3>1. obc \in WriteStates /\ r.field = WrittenAt(obc)
      BY <2>1, <2>2 DEF QueueShape
    <3>2. /\ flash' = [cur |-> IF r.field = "cur" THEN state ELSE flash.cur,
                       prev |-> IF r.field = "prev" THEN state ELSE flash.prev]
          /\ obc' = AfterWrite(obc) /\ state' = state
      BY <1>3, <2>1, <2>2 DEF Serve
    <3> QED
      BY <3>1, <3>2 DEF WriteStates, WrittenAt, AfterWrite
  <2>3. CASE r.client # "OBC"
    <3>1. r.field = "data"
      BY <2>1, <2>3 DEF QueueShape
    <3>2. flash'.cur = flash.cur /\ flash'.prev = flash.prev /\ obc' = obc /\ state' = state
      BY <1>3, <2>1, <2>3, <3>1 DEF Serve
    <3> QED
      BY <3>2
  <2> QED
    BY <2>2, <2>3
<1>4. CASE (\E s \in Commands : ReceiveCommand(s)) \/ ReceiveFrame \/ Tick
  BY <1>4 DEF ReceiveCommand, ReceiveFrame, Tick
<1>5. CASE Reboot
  BY <1>5 DEF Reboot
<1>6. CASE UNCHANGED vars
  BY <1>6 DEF vars, obcVars
<1> QED
  BY <1>1, <1>2, <1>3, <1>4, <1>5, <1>6 DEF Next

-----------------------------------------------------------------------------
(* Blocked clients and their requests across each step *)

LEMMA SameClients ==
    ASSUME OneRequestPerBlockedClient, reqs' = reqs,
           \A t \in Tasks : loc'[t] = "flash" <=> loc[t] = "flash"
    PROVE  OneRequestPerBlockedClient'
  BY DEF OneRequestPerBlockedClient

LEMMA ObcClients ==
    ASSUME TypeOK, OneRequestPerBlockedClient, ObcStep PROVE OneRequestPerBlockedClient'
<1>1. CASE ObcBoot \/ ObcChangeState \/ ObcEnterState
  <2>1. PICK f \in {"boot", "prev", "cur"} : reqs' = Append(reqs, Request("OBC", f)) /\ loc' = loc
    BY <1>1 DEF ObcBoot, ObcChangeState, ObcEnterState, taskVars
  <2>2. reqs \in Seq(Requests) /\ Request("OBC", f).client \notin Tasks
    BY TableTypes DEF TypeOK, Request
  <2>3. DOMAIN reqs' = DOMAIN reqs \union {Len(reqs) + 1}
        /\ reqs'[Len(reqs) + 1].client \notin Tasks
        /\ \A i \in DOMAIN reqs : reqs'[i] = reqs[i]
    BY <2>1, <2>2
  <2> QED
    BY <2>1, <2>3 DEF OneRequestPerBlockedClient
<1>2. CASE ObcIdle \/ ObcPause \/ ObcSwitchAndResume
  BY <1>2, SameClients DEF ObcIdle, ObcPause, ObcSwitchAndResume, taskVars
<1>3. CASE ObcCheck
  <2>1. CASE sinceCheck < HealthPeriod
    BY <1>3, <2>1, SameClients DEF ObcCheck, taskVars
  <2>2. CASE ~(sinceCheck < HealthPeriod)
    <3>1. PICK rs : Reset(rs)
      BY <1>3, <2>2 DEF ObcCheck
    <3>2. \A t \in Tasks : loc'[t] = IF t \in rs THEN "top" ELSE loc[t]
      BY <3>1 DEF Reset
    <3>3. DOMAIN reqs' = DOMAIN reqs
      BY <3>1 DEF Reset, Abandon
    <3>4. ASSUME NEW i \in DOMAIN reqs
          PROVE  /\ reqs'[i].client = reqs[i].client
                 /\ reqs'[i].live <=> reqs[i].live /\ reqs[i].client \notin rs
      <4>1. reqs[i] \in Requests
        BY DEF TypeOK
      <4>2. reqs'[i] = IF reqs[i].client \in rs THEN [reqs[i] EXCEPT !.live = FALSE] ELSE reqs[i]
        BY <3>1 DEF Reset, Abandon
      <4> QED
        BY <4>1, <4>2, Zenon DEF Requests
    <3>5. ASSUME NEW t \in Tasks
          PROVE  (\E i \in DOMAIN reqs' : reqs'[i].client = t /\ reqs'[i].live)
                 <=> t \notin rs /\ \E i \in DOMAIN reqs : reqs[i].client = t /\ reqs[i].live
      BY <3>3, <3>4, Zenon
    <3>6. ASSUME NEW t \in Tasks PROVE loc'[t] = "flash" <=> t \notin rs /\ loc[t] = "flash"
      BY <3>2
    <3> QED
      BY <3>5, <3>6, Zenon DEF OneRequestPerBlockedClient
  <2> QED
    BY <2>1, <2>2
<1> QED
  BY <1>1, <1>2, <1>3 DEF ObcStep

LEMMA TaskClients ==
    ASSUME TypeOK, QueueShape, OneRequestPerBlockedClient, NEW t \in Tasks, TaskStep(t)
    PROVE  OneRequestPerBlockedClient'
<1>1. CASE Submit(t)
  <2>1. reqs = <<>>
    BY <1>1, ClientSeesEmptyQueue DEF Submit
  <2>2. \A u \in Tasks : loc[u] # "flash"
    BY <2>1 DEF OneRequestPerBlockedClient
  <2>3. DOMAIN reqs' = {1} /\ reqs'[1] = [client |-> t, field |-> "data", live |-> TRUE]
    BY <1>1, <2>1 DEF Submit, Request
  <2>4. \A u \in Tasks : loc'[u] = "flash" <=> u = t
    BY <1>1, <2>2 DEF Submit, TypeOK
  <2> QED
    BY <2>3, <2>4 DEF OneRequestPerBlockedClient
<1>2. CASE ~Submit(t)
  <2>1. reqs' = reqs
    BY <1>2 DEF TaskStep, ReadNotifications, FinishPause, FinishResume, EndLoop,
       StartExchange, KickInSession, EndExchange, Expire, Signal
  <2>2. loc[t] # "flash" \/ loc' = loc
    BY <1>2 DEF TaskStep, ReadNotifications, FinishPause, FinishResume, EndLoop,
       StartExchange, KickInSession, EndExchange, Expire, Signal
  <2>3. /\ \A u \in Tasks \ {t} : loc'[u] = loc[u]
        /\ loc'[t] # "flash" \/ loc' = loc
    BY <1>2 DEF TaskStep, ReadNotifications, FinishPause, FinishResume, EndLoop,
       StartExchange, KickInSession, EndExchange, Expire, Signal, Goto, Block, Loop, Proceed,
       TakeResume, StayPaused, TakePause, StayRunning, TypeOK
  <2> QED
    BY <2>1, <2>2, <2>3, SameClients
<1> QED
  BY <1>1, <1>2

LEMMA ServeClients ==
    ASSUME TypeOK, QueueShape, OneRequestPerBlockedClient, Serve
    PROVE  OneRequestPerBlockedClient'
<1> DEFINE c == reqs[1].client
<1>1. reqs \in Seq(Requests) /\ reqs # <<>> /\ reqs' = Tail(reqs) /\ Head(reqs) = reqs[1]
  BY DEF Serve, TypeOK
\* Only a request of OBC can be second, so no request of a task is left.
<1>2. ASSUME NEW i \in DOMAIN reqs' PROVE reqs'[i].client \notin Tasks
  <2>1. i + 1 \in 2..Len(reqs) /\ reqs'[i] = reqs[i + 1]
    BY <1>1
  <2>2. Len(reqs) <= 2
    BY DEF QueueShape
  <2>3. i + 1 = 2 /\ Len(reqs) = 2
    <3>1. Len(reqs) \in Nat
      BY <1>1
    <3>2. DOMAIN reqs' = 1..(Len(reqs) - 1)
      BY <1>1
    <3>3. i \in Nat /\ 1 <= i /\ i <= Len(reqs) - 1
      BY <3>1, <3>2
    <3>4. \A n, j \in Nat : n <= 2 /\ 1 <= j /\ j <= n - 1 => j + 1 = 2 /\ n = 2
      OBVIOUS
    <3> HIDE DEF c
    <3> QED
      BY <2>2, <3>1, <3>3, <3>4
  <2>4. reqs[2].client = "OBC"
    BY <2>3 DEF QueueShape
  <2> QED
    BY <2>1, <2>3, <2>4, TableTypes
<1>3. ASSUME NEW t \in Tasks, loc[t] = "flash" PROVE t = c
  <2>1. PICK i \in 1..Len(reqs) : reqs[i].client = t
    BY <1>1, <1>3 DEF OneRequestPerBlockedClient
  <2>2. i = 1
    <3>1. i # 1 => i - 1 \in DOMAIN reqs' /\ reqs'[i - 1] = reqs[i]
      BY <1>1
    <3> QED
      BY <1>2, <2>1, <3>1
  <2> QED
    BY <2>1, <2>2
<1>4. ASSUME NEW t \in Tasks PROVE loc'[t] # "flash"
  <2>1. CASE c = "OBC"
    BY <1>1, <1>3, <2>1, TableTypes DEF Serve, TypeOK
  <2>2. CASE c # "OBC"
    <3>1. loc' = [loc EXCEPT !["OBDH"] = "body", ![c] = IF @ = "flash" THEN Submits(c) ELSE @]
      BY <1>1, <2>2 DEF Serve
    <3>2. Submits(c) # "flash"
      BY DEF Submits
    <3> QED
      BY <1>3, <3>1, <3>2 DEF TypeOK
  <2> QED
    BY <2>1, <2>2
<1> QED
  BY <1>2, <1>4 DEF OneRequestPerBlockedClient

LEMMA EnvironmentClients ==
    ASSUME TypeOK, OneRequestPerBlockedClient,
           (\E s \in Commands : ReceiveCommand(s)) \/ ReceiveFrame \/ Tick \/ Reboot
    PROVE  OneRequestPerBlockedClient'
<1>1. CASE (\E s \in Commands : ReceiveCommand(s)) \/ ReceiveFrame
  BY <1>1, SameClients DEF ReceiveCommand, ReceiveFrame, Goto, TypeOK
<1>2. CASE Tick
  BY <1>2, SameClients DEF Tick
<1>3. CASE Reboot
  BY <1>3 DEF Reboot, OneRequestPerBlockedClient
<1> QED
  BY <1>1, <1>2, <1>3

-----------------------------------------------------------------------------
(* The theorems *)

LEMMA InitInvariant == Init => IInv
<1> SUFFICES ASSUME Init PROVE IInv
  OBVIOUS
<1>1. TypeOK
  BY InitTypeOK
<1>2. QueueShape
  BY TableTypes DEF Init, QueueShape, WriteStates
<1>3. PauseShape
  BY DEF Init, PauseShape, PausedDoesNoWork
<1>4. StatePersisted
  BY DEF Init, StatePersisted
<1>5. OneRequestPerBlockedClient
  BY DEF Init, OneRequestPerBlockedClient
<1> QED
  BY <1>1, <1>2, <1>3, <1>4, <1>5 DEF IInv

LEMMA NextInvariant == IInv /\ [Next]_vars => IInv'
<1> SUFFICES ASSUME TypeOK, QueueShape, PauseShape, StatePersisted,
                        OneRequestPerBlockedClient, [Next]_vars
                 PROVE  IInv'
  BY DEF IInv
<1>1. CASE ObcStep
  BY <1>1, ObcActionTypes, ObcQueue, ObcPausedShape, ObcClients, PersistedStep DEF IInv
<1>2. CASE \E t \in Tasks : TaskStep(t)
  BY <1>2, TaskActionTypes, TaskQueue, TaskPausedShape, TaskClients, PersistedStep DEF IInv
<1>3. CASE Serve
  BY <1>3, ServeTypes, ServeQueue, OtherPausedShape, ServeClients, PersistedStep DEF IInv
<1>4. CASE (\E s \in Commands : ReceiveCommand(s)) \/ ReceiveFrame \/ Tick \/ Reboot
  BY <1>4, EnvironmentTypes, EnvironmentQueue, OtherPausedShape, EnvironmentClients,
     PersistedStep DEF IInv
<1>5. CASE UNCHANGED vars
  BY <1>5 DEF vars, obcVars, taskVars, healthVars, IInv, TypeOK, QueueShape, PauseShape,
     PausedDoesNoWork, StatePersisted, OneRequestPerBlockedClient
<1> QED
  BY <1>1, <1>2, <1>3, <1>4, <1>5 DEF Next

THEOREM Invariance == Spec => []IInv
  BY InitInvariant, NextInvariant, PTL DEF Spec

\* Every variable keeps its type, the length of the queue and the number of commands
\* being those of the code and of the bound.
THEOREM TypeCorrect == Spec => []TypeOK
<1>1. IInv => TypeOK
  BY DEF IInv
<1> QED
  BY <1>1, Invariance, PTL

\* The early return after tm_check_pause works in every instance: a paused task is in
\* no loop body, radio exchange or flash request.
THEOREM PausedTasksIdle == Spec => []PausedDoesNoWork
<1>1. IInv => PausedDoesNoWork
  BY DEF IInv, PauseShape
<1> QED
  BY <1>1, Invariance, PTL

\* Whatever the tasks and the commands, a reset in any step of change_state boots in
\* the state left or in the state entered.
THEOREM StateIsPersisted == Spec => []StatePersisted
<1>1. IInv => StatePersisted
  BY DEF IInv
<1> QED
  BY <1>1, Invariance, PTL

\* However many clients there are, two requests at most are queued: the queue of 10 is
\* never full and obdh_submit_request never returns HAL_BUSY.
THEOREM QueueNeverFull == Spec => []AtMostTwoQueued
<1>1. IInv => AtMostTwoQueued
  BY DEF IInv, QueueShape, AtMostTwoQueued, TypeOK
<1> QED
  BY <1>1, Invariance, PTL

\* The flash round trip loses no wake-up and leaves no request of a client that went
\* on, for every set of clients.
THEOREM RoundTrip == Spec => []OneRequestPerBlockedClient
<1>1. IInv => OneRequestPerBlockedClient
  BY DEF IInv
<1> QED
  BY <1>1, Invariance, PTL

-----------------------------------------------------------------------------
(* The turn of OBDH in a transition.  It has the highest priority of all tasks, the
   write of the state being left has just woken it when OBC asks for the pause, and
   once paused it never blocks: so it alone runs from then on until it is resumed. *)

ObdhRuns ==
    ~paused["OBDH"] /\ bits["OBDH"] = {} /\ loc["OBDH"] \in {"top", "body", "wait"}

ObdhToPause ==
    /\ ~paused["OBDH"] /\ bits["OBDH"] = {"PAUSE"} /\ loc["OBDH"] \in {"top", "body"}
    /\ obcLeft = AckTimeout /\ "OBDH" \notin acks

ObdhPauses ==
    /\ paused["OBDH"] /\ bits["OBDH"] = {} /\ loc["OBDH"] = "pause"
    /\ obcLeft = AckTimeout /\ "OBDH" \notin acks

ObdhSpins == paused["OBDH"] /\ bits["OBDH"] = {} /\ loc["OBDH"] = "top"

ObdhToResume ==
    /\ paused["OBDH"] /\ bits["OBDH"] = {"RESUME"} /\ loc["OBDH"] = "top"
    /\ obcLeft = AckTimeout /\ "COMMS" \notin acks

ObdhResumes ==
    /\ ~paused["OBDH"] /\ bits["OBDH"] = {} /\ loc["OBDH"] = "resume"
    /\ obcLeft = AckTimeout /\ "COMMS" \notin acks

ObdhTurn ==
    /\ "OBDH" \in received <=> bits["OBDH"] # {}
    /\ obc \notin {"pausing", "resuming"} => ObdhRuns
    /\ obc = "pause" => loc["OBDH"] = "body"
    /\ obc = "pausing" => /\ acks \intersect TasksFor(state) \subseteq {"OBDH"}
                          /\ ObdhToPause \/ ObdhPauses \/ ObdhSpins
    /\ obc = "resuming" => ObdhToResume \/ ObdhResumes \/ ObdhRuns

LEMMA NeverExcluded == \A s \in States : {"COMMS", "OBDH"} \subseteq TasksFor(s)
  BY TasksAssumption DEF TasksFor, States

\* No other task has the processor while OBDH is ready.
LEMMA ObdhOutranks ==
    ASSUME NEW t \in Tasks, t # "OBDH", Ready("OBDH")
    PROVE  ~HasCpu(t)
  BY TableTypes DEF HasCpu, Priority

LEMMA ReadyObdhRuns ==
    ASSUME ~ObcReady, Ready("OBDH")
    PROVE  MayRun("OBDH")
  BY TableTypes DEF MayRun, HasCpu, Priority

LEMMA TurnTypes ==
    ASSUME TypeOK
    PROVE  /\ paused["OBDH"] \in BOOLEAN /\ bits["OBDH"] \in SUBSET {"PAUSE", "RESUME"}
           /\ obcLeft \in Nat /\ state \in States /\ target \in States
           /\ "OBDH" \in Tasks /\ "COMMS" \in Tasks
  BY TableTypes DEF TypeOK

\* The wait for the acknowledgements of a pause always runs out: COMMS gives none.
LEMMA PauseWait ==
    ASSUME TypeOK, ObdhTurn, obc = "pausing", AllAcked \/ obcLeft = 0
    PROVE  ~AllAcked /\ obcLeft = 0 /\ ObdhSpins
<1>1. "COMMS" \in TasksFor(state)
  BY NeverExcluded, TurnTypes
<1>2. ~AllAcked
  BY <1>1 DEF AllAcked, ObdhTurn
<1> QED
  BY <1>2 DEF ObdhTurn, ObdhToPause, ObdhPauses, AckTimeout

LEMMA ResumeWait ==
    ASSUME TypeOK, ObdhTurn, obc = "resuming", AllAcked \/ obcLeft = 0
    PROVE  ObdhRuns
<1>1. "COMMS" \in TasksFor(target)
  BY NeverExcluded, TurnTypes
<1> QED
  BY <1>1 DEF AllAcked, ObdhTurn, ObdhToResume, ObdhResumes, AckTimeout

LEMMA ObcTurn == ASSUME TypeOK, ObdhTurn, ObcStep PROVE ObdhTurn'
<1> USE TurnTypes, NeverExcluded
<1>1. CASE ObcBoot
  BY <1>1 DEF ObcBoot, ObdhTurn, ObdhRuns, TypeOK
<1>2. CASE ObcChangeState \/ ObcIdle
  BY <1>2 DEF ObcChangeState, ObcIdle, taskVars, ObdhTurn, ObdhRuns
<1>3. CASE ObcPause
  <2>1. /\ paused'["OBDH"] = paused["OBDH"] /\ loc'["OBDH"] = loc["OBDH"]
        /\ bits'["OBDH"] = bits["OBDH"] \union {"PAUSE"} /\ "OBDH" \in received'
        /\ obc' = "pausing" /\ obcLeft' = AckTimeout /\ state' = state
        /\ acks' = acks \ TasksFor(state)
    BY <1>3 DEF ObcPause, Notify
  <2>2. ObdhRuns /\ loc["OBDH"] = "body"
    BY <1>3 DEF ObcPause, ObdhTurn
  <2> QED
    BY <2>1, <2>2 DEF ObdhTurn, ObdhRuns, ObdhToPause
<1>4. CASE ObcSwitchAndResume
  <2>1. ObdhSpins
    BY <1>4, PauseWait DEF ObcSwitchAndResume
  <2>2. /\ paused'["OBDH"] = paused["OBDH"] /\ loc'["OBDH"] = loc["OBDH"]
        /\ bits'["OBDH"] = bits["OBDH"] \union {"RESUME"} /\ "OBDH" \in received'
        /\ obc' = "resuming" /\ obcLeft' = AckTimeout /\ "COMMS" \notin acks'
    BY <1>4 DEF ObcSwitchAndResume, Notify
  <2> QED
    BY <2>1, <2>2 DEF ObdhTurn, ObdhSpins, ObdhToResume
<1>5. CASE ObcEnterState
  <2>1. ObdhRuns
    BY <1>5, ResumeWait DEF ObcEnterState
  <2> QED
    BY <1>5, <2>1 DEF ObcEnterState, ObdhTurn, ObdhRuns
<1>6. CASE ObcCheck
  <2>1. ObdhRuns /\ "OBDH" \notin received
    BY <1>6 DEF ObcCheck, ObdhTurn, ObdhRuns
  <2>2. obc' = "idle" /\ paused' = paused
    BY <1>6 DEF ObcCheck, taskVars
  <2>3. /\ loc'["OBDH"] \in {loc["OBDH"], "top"} /\ bits'["OBDH"] \in {bits["OBDH"], {}}
        /\ "OBDH" \notin received'
    BY <1>6, <2>1 DEF ObcCheck, taskVars, Reset
  <2> QED
    BY <2>1, <2>2, <2>3 DEF ObdhTurn, ObdhRuns
<1> QED
  BY <1>1, <1>2, <1>3, <1>4, <1>5, <1>6 DEF ObcStep

LEMMA TaskLeavesObc ==
    ASSUME NEW t, TaskStep(t)
    PROVE  UNCHANGED <<obc, obcBits, obcLeft, state, target>>
  BY DEF TaskStep, ReadNotifications, FinishPause, FinishResume, EndLoop, Submit,
     StartExchange, KickInSession, EndExchange, Expire, Signal, obcVars

\* A step of another task acknowledges nothing while OBDH is ready, and leaves what
\* is OBDH's alone.
LEMMA OtherTaskTurn ==
    ASSUME TypeOK, ObdhTurn, NEW t \in Tasks, TaskStep(t), t # "OBDH" PROVE ObdhTurn'
<1>1. loc'["OBDH"] = loc["OBDH"]
  BY TurnTypes DEF TaskStep, ReadNotifications, FinishPause, FinishResume, EndLoop, Submit,
     StartExchange, KickInSession, EndExchange, Expire, Signal, Goto, Block, Loop, Proceed,
     TakeResume, StayPaused, TakePause, StayRunning, TypeOK
<1>2. /\ paused'["OBDH"] = paused["OBDH"] /\ bits'["OBDH"] = bits["OBDH"]
      /\ "OBDH" \in received' <=> "OBDH" \in received
  BY TurnTypes DEF TaskStep, ReadNotifications, FinishPause, FinishResume, EndLoop, Submit,
     StartExchange, KickInSession, EndExchange, Expire, Signal,
     TakeResume, StayPaused, TakePause, StayRunning, TypeOK, taskVars
<1>3. acks' = acks \/ ~Ready("OBDH")
  BY ObdhOutranks DEF TaskStep, ReadNotifications, FinishPause, FinishResume, EndLoop, Submit,
     StartExchange, KickInSession, EndExchange, Expire, Signal, MayRun
<1>4. ObdhToPause \/ ObdhPauses \/ ObdhSpins \/ ObdhToResume \/ ObdhResumes => Ready("OBDH")
  BY DEF ObdhToPause, ObdhPauses, ObdhSpins, ObdhToResume, ObdhResumes, Ready
<1>5. UNCHANGED <<obc, obcLeft, state>>
  BY TaskLeavesObc
<1>6. CASE acks' = acks
  BY <1>1, <1>2, <1>5, <1>6
  DEF ObdhTurn, ObdhRuns, ObdhToPause, ObdhPauses, ObdhSpins, ObdhToResume, ObdhResumes
<1>7. CASE ~Ready("OBDH")
  BY <1>1, <1>2, <1>4, <1>5, <1>7 DEF ObdhTurn, ObdhRuns
<1> QED
  BY <1>3, <1>6, <1>7

LEMMA OwnTurn == ASSUME TypeOK, ObdhTurn, TaskStep("OBDH") PROVE ObdhTurn'
<1> USE TurnTypes
<1>1. UNCHANGED <<obc, obcLeft, state>>
  BY TaskLeavesObc
<1>2. obc # "pause"
  <2>1. obc = "pause" => ObcReady /\ loc["OBDH"] = "body"
    BY DEF ObcReady, ObdhTurn
  <2> QED
    BY <2>1 DEF TaskStep, ReadNotifications, FinishPause, FinishResume, EndLoop, Submit,
       StartExchange, KickInSession, EndExchange, Expire, Signal, MayRun, HasCpu
<1>3. CASE ReadNotifications("OBDH")
  <2>1. /\ bits'["OBDH"] = {} /\ "OBDH" \notin received' /\ acks' = acks
    BY <1>3 DEF ReadNotifications, ObdhTurn, TypeOK
  <2>2. loc["OBDH"] = "top"
    BY <1>3 DEF ReadNotifications, Pollers
  <2>3. CASE TakeResume("OBDH")
    BY <1>1, <1>2, <2>1, <2>2, <2>3 DEF TakeResume, Goto, ObdhTurn, ObdhRuns, ObdhToPause,
       ObdhPauses, ObdhSpins, ObdhToResume, ObdhResumes, TypeOK
  <2>4. CASE StayPaused("OBDH")
    BY <1>1, <1>2, <2>1, <2>2, <2>4 DEF StayPaused, Loop, Pollers, Goto, ObdhTurn, ObdhRuns,
       ObdhToPause, ObdhPauses, ObdhSpins, ObdhToResume, ObdhResumes, TypeOK
  <2>5. CASE TakePause("OBDH")
    BY <1>1, <1>2, <2>1, <2>2, <2>5 DEF TakePause, Goto, ObdhTurn, ObdhRuns, ObdhToPause,
       ObdhPauses, ObdhSpins, ObdhToResume, ObdhResumes, TypeOK
  <2>6. CASE StayRunning("OBDH")
    BY <1>1, <1>2, <2>1, <2>2, <2>6 DEF StayRunning, Proceed, Pollers, Block, ObdhTurn,
       ObdhRuns, ObdhToPause, ObdhPauses, ObdhSpins, ObdhToResume, ObdhResumes, TypeOK
  <2> QED
    BY <1>3, <2>3, <2>4, <2>5, <2>6 DEF ReadNotifications
<1>4. CASE FinishPause("OBDH")
  BY <1>1, <1>4 DEF FinishPause, Loop, Pollers, Goto, ObdhTurn, ObdhRuns, ObdhToPause,
     ObdhPauses, ObdhSpins, ObdhToResume, ObdhResumes, TypeOK
<1>5. CASE FinishResume("OBDH")
  BY <1>1, <1>5 DEF FinishResume, Proceed, Pollers, Block, ObdhTurn, ObdhRuns, ObdhToPause,
     ObdhPauses, ObdhSpins, ObdhToResume, ObdhResumes, TypeOK
<1>6. CASE EndLoop("OBDH")
  BY <1>1, <1>2, <1>6 DEF EndLoop, Loop, Pollers, Goto, ObdhTurn, ObdhRuns, ObdhToPause,
     ObdhPauses, ObdhSpins, ObdhToResume, ObdhResumes, TypeOK
<1>7. CASE Expire("OBDH")
  BY <1>1, <1>2, <1>7 DEF Expire, Pollers, Goto, ObdhTurn, ObdhRuns, ObdhToPause,
     ObdhPauses, ObdhSpins, ObdhToResume, ObdhResumes, TypeOK
<1>8. ~Submit("OBDH") /\ ~StartExchange("OBDH") /\ ~KickInSession("OBDH") /\ ~Signal("OBDH")
  BY DEF Submit, FlashClients, StartExchange, KickInSession, Signal
<1>9. ~EndExchange("OBDH")
  BY DEF EndExchange, ObdhTurn, ObdhRuns, ObdhToPause, ObdhPauses, ObdhSpins,
     ObdhToResume, ObdhResumes
<1> QED
  BY <1>3, <1>4, <1>5, <1>6, <1>7, <1>8, <1>9 DEF TaskStep

\* A second passes only while OBC waits for a command or for acknowledgements, and
\* OBDH has taken its turn by then.
LEMMA SecondPasses ==
    ASSUME TypeOK, QueueShape, ObdhTurn, Tick
    PROVE  /\ obc \in {"idle", "pausing", "resuming"} /\ obcLeft > 0
           /\ obcLeft' = obcLeft - 1
           /\ obc = "pausing" => ObdhSpins
           /\ obc = "resuming" => ObdhRuns
<1>1. ~ObcReady /\ ~ObcExpired /\ obcLeft' = IF ObcTimed THEN obcLeft - 1 ELSE obcLeft
  BY DEF Tick
<1>2. Ready("OBDH") => Spinning("OBDH")
  BY <1>1, ReadyObdhRuns, TurnTypes DEF Tick
<1>3. obc \notin WriteStates
  <2>1. obc \in WriteStates => ObdhRuns /\ reqs # <<>>
    BY DEF WriteStates, ObdhTurn, QueueShape
  <2> QED
    BY <1>2, <2>1 DEF ObdhRuns, Ready, Spinning, Pollers
<1>4. obc \in {"idle", "pausing", "resuming"}
  BY <1>1, <1>3 DEF TypeOK, ObcPoints, ObcReady, WriteStates
<1>5. ~ObdhToPause /\ ~ObdhPauses /\ ~ObdhToResume /\ ~ObdhResumes
  BY <1>2 DEF Ready, Spinning, ObdhTurn, ObdhToPause, ObdhPauses, ObdhToResume, ObdhResumes
<1> QED
  BY <1>1, <1>4, <1>5, TurnTypes DEF ObcTimed, ObcExpired, ObdhTurn

LEMMA OtherTurn ==
    ASSUME TypeOK, QueueShape, ObdhTurn,
           Serve \/ (\E s \in Commands : ReceiveCommand(s)) \/ ReceiveFrame \/ Tick \/ Reboot
    PROVE  ObdhTurn'
<1> USE TurnTypes
<1>1. CASE Serve
  <2>1. loc["OBDH"] = "wait" /\ ObdhRuns /\ obc \notin {"pause", "pausing"}
    BY <1>1 DEF Serve, ObdhTurn, ObdhRuns, ObdhToPause, ObdhPauses, ObdhSpins,
       ObdhToResume, ObdhResumes
  <2>2. UNCHANGED <<paused, bits, received>>
    BY <1>1 DEF Serve
  <2>3. loc'["OBDH"] = "body"
    BY <1>1, <2>1 DEF Serve, TypeOK
  <2>4. obc' = obc \/ obc' \in {"idle", "pause", "check"}
    BY <1>1 DEF Serve, AfterWrite
  <2> QED
    BY <2>1, <2>2, <2>3, <2>4 DEF ObdhTurn, ObdhRuns
<1>2. CASE (\E s \in Commands : ReceiveCommand(s)) \/ ReceiveFrame
  <2>1. UNCHANGED <<obc, obcLeft, state, paused, bits, acks>>
    BY <1>2 DEF ReceiveCommand, ReceiveFrame
  <2>2. loc'["OBDH"] = loc["OBDH"]
    BY <1>2 DEF ReceiveCommand, ReceiveFrame, Goto, TypeOK
  <2>3. "OBDH" \in received' <=> "OBDH" \in received
    BY <1>2 DEF ReceiveCommand, ReceiveFrame, Addressees
  <2> QED
    BY <2>1, <2>2, <2>3
    DEF ObdhTurn, ObdhRuns, ObdhToPause, ObdhPauses, ObdhSpins, ObdhToResume, ObdhResumes
<1>3. CASE Tick
  <2>1. UNCHANGED <<obc, state, loc, paused, bits, received, acks>>
    BY <1>3 DEF Tick
  <2> QED
    BY <1>3, <2>1, SecondPasses DEF ObdhTurn, ObdhRuns, ObdhSpins
<1>4. CASE Reboot
  BY <1>4 DEF Reboot, ObdhTurn, ObdhRuns
<1> QED
  BY <1>1, <1>2, <1>3, <1>4

-----------------------------------------------------------------------------
(* What is left of the watchdog's time when no check found a fault: OBC comes back to
   its health check after at most one wait for a command, the two waits for
   acknowledgements and a rest of the period. *)

WatchdogBudget ==
    faulty = {} =>
        /\ sinceCheck = IF iwdg < HealthPeriod THEN iwdg ELSE HealthPeriod
        /\ obc \in {"boot", "bootWrite"} => iwdg = 0
        /\ obc = "idle" => iwdg + obcLeft <= HealthPeriod - 1 + ObcWait
        /\ obc \in {"savePrev", "pause"} => iwdg <= HealthPeriod - 1 + ObcWait
        /\ obc = "pausing" => iwdg + obcLeft <= HealthPeriod - 1 + ObcWait + AckTimeout
        /\ iwdg <= HealthPeriod - 1 + ObcWait + 2 * AckTimeout
        /\ obc = "resuming" => iwdg + obcLeft <= HealthPeriod - 1 + ObcWait + 2 * AckTimeout

LEMMA BudgetStep ==
    ASSUME TypeOK, QueueShape, ObdhTurn, WatchdogBudget, [Next]_vars PROVE WatchdogBudget'
<1> USE DEF WatchdogBudget, HealthPeriod, ObcWait, AckTimeout
<1>0. obcLeft \in Nat /\ iwdg \in Nat /\ sinceCheck \in 0..5 /\ obc \in ObcPoints
  BY DEF TypeOK, WatchdogTimeout
<1>1. CASE ObcBoot \/ ObcChangeState \/ ObcIdle \/ ObcPause
  BY <1>0, <1>1 DEF ObcBoot, ObcChangeState, ObcIdle, ObcPause, healthVars
<1>2. CASE ObcSwitchAndResume
  <2>1. obcLeft = 0 /\ obc = "pausing" /\ obc' = "resuming" /\ obcLeft' = 10
    BY <1>2, PauseWait DEF ObcSwitchAndResume
  <2>2. UNCHANGED <<faulty, iwdg, sinceCheck>>
    BY <1>2 DEF ObcSwitchAndResume, healthVars
  <2> QED
    BY <1>0, <2>1, <2>2
<1>3. CASE ObcEnterState
  <2>1. UNCHANGED <<faulty, iwdg, sinceCheck>> /\ obc' = "saveCur"
    BY <1>3 DEF ObcEnterState, healthVars
  <2> QED
    BY <2>1
<1>4. CASE ObcCheck
  <2>1. obc' = "idle" /\ obcLeft' = 2
    BY <1>4 DEF ObcCheck
  <2>2. CASE sinceCheck < 5
    <3>1. UNCHANGED <<faulty, iwdg, sinceCheck>>
      BY <1>4, <2>2 DEF ObcCheck, healthVars
    <3> QED
      BY <1>0, <2>1, <2>2, <3>1
  <2>3. CASE ~(sinceCheck < 5)
    <3>1. /\ sinceCheck' = 0 /\ faulty' = expected \ kicked
          /\ iwdg' = IF expected \ kicked = {} THEN 0 ELSE iwdg
      BY <1>4, <2>3 DEF ObcCheck
    <3> QED
      BY <2>1, <3>1
  <2> QED
    BY <2>2, <2>3
<1>5. CASE \E t \in Tasks : TaskStep(t)
  <2>1. UNCHANGED <<obc, obcLeft>>
    BY <1>5, TaskLeavesObc
  <2>2. UNCHANGED <<faulty, iwdg, sinceCheck>>
    BY <1>5 DEF TaskStep, ReadNotifications, FinishPause, FinishResume, EndLoop, Submit,
       StartExchange, KickInSession, EndExchange, Expire, Signal, healthVars
  <2> QED
    BY <2>1, <2>2
<1>6. CASE Serve
  <2>1. UNCHANGED <<faulty, iwdg, sinceCheck>>
    BY <1>6 DEF Serve, healthVars
  <2>2. \/ obc' = obc /\ obcLeft' = obcLeft
        \/ obc = "bootWrite" /\ obc' = "idle" /\ obcLeft' = 2
        \/ obc = "savePrev" /\ obc' = "pause"
        \/ obc' = "check"
    BY <1>6 DEF Serve, AfterWrite
  <2> QED
    BY <1>0, <2>1, <2>2
<1>7. CASE (\E s \in Commands : ReceiveCommand(s)) \/ ReceiveFrame
  BY <1>7 DEF ReceiveCommand, ReceiveFrame, healthVars
<1>8. CASE Tick
  <2>1. /\ UNCHANGED <<obc, faulty>> /\ iwdg' = iwdg + 1
        /\ sinceCheck' = IF sinceCheck < 5 THEN sinceCheck + 1 ELSE sinceCheck
    BY <1>8 DEF Tick
  <2>2. obc \in {"idle", "pausing", "resuming"} /\ obcLeft > 0 /\ obcLeft' = obcLeft - 1
    BY <1>8, SecondPasses
  <2> QED
    BY <1>0, <2>1, <2>2
<1>9. CASE Reboot
  BY <1>9 DEF Reboot
<1>10. CASE UNCHANGED vars
  BY <1>10 DEF vars, obcVars, healthVars
<1> QED
  BY <1>1, <1>2, <1>3, <1>4, <1>5, <1>6, <1>7, <1>8, <1>9, <1>10 DEF Next, ObcStep

-----------------------------------------------------------------------------
(* While no transition has been commanded: OBC only waits and checks, nobody is told
   to pause or resume, and every task is on the way to its next kick, with the rest
   of its wait inside the health period. *)

QuietShape ==
    commanded = 0 =>
        /\ obc \in {"boot", "bootWrite", "idle", "check"}
        /\ obcBits \subseteq {"OTHER"}
        /\ faulty \subseteq {"TRANSCEIVER"}
        /\ \A t \in Tasks : bits[t] = {} /\ loc[t] \notin {"pause", "resume"}
        /\ \A t \in Tasks \intersect Pollers : ~paused[t]
        /\ \A t \in Tasks : loc[t] \in {"radio", "session"} => t = "TRANSCEIVER"
        /\ obc = "boot" => expected = {}
        /\ obc # "boot" => expected = {t \in Tasks : ~paused[t]}

Kicking(t) ==
    /\ loc[t] = "wait" => sinceCheck + left[t] <= Timeout(t)
    /\ loc[t] # "wait" => sinceCheck <= Timeout(t)
    /\ t \in Pollers /\ loc[t] = "top" => sinceCheck = 0
    /\ t = "BEACON" /\ loc[t] \in {"body", "flash"} => sinceCheck = 0

KicksInTime ==
    commanded = 0 =>
        /\ \A t \in Tasks : loc[t] = "wait" => left[t] <= Timeout(t)
        /\ \A t \in expected \ (kicked \union {"TRANSCEIVER"}) : Kicking(t)

LEMMA TimeoutFits ==
    \A t \in Tasks : Timeout(t) \in Nat /\ 0 <= Timeout(t) /\ Timeout(t) < HealthPeriod
  BY DEF Timeout, HealthPeriod

\* The longest wait of a task runs out before the period does.
LEMMA OnlyTransceiverMisses ==
    ASSUME TypeOK, KicksInTime, commanded = 0, sinceCheck = HealthPeriod
    PROVE  expected \ kicked \subseteq {"TRANSCEIVER"}
<1> SUFFICES ASSUME NEW t \in expected \ kicked, t # "TRANSCEIVER" PROVE FALSE
  OBVIOUS
<1>1. t \in Tasks /\ left[t] \in Nat /\ Timeout(t) \in Nat /\ Timeout(t) < HealthPeriod
  BY TimeoutFits DEF TypeOK
<1>2. Kicking(t)
  BY DEF KicksInTime
<1> QED
  BY <1>1, <1>2 DEF Kicking, HealthPeriod

\* If nobody spins, a second passes only when nobody is ready.
LEMMA NobodyReady ==
    ASSUME Tick, \A t \in Tasks : ~Spinning(t), NEW t \in Tasks
    PROVE  ~Ready(t)
<1>1. \A u \in Tasks : Ready(u) => \E v \in Tasks : Ready(v) /\ Priority(v) > Priority(u)
  <2> SUFFICES ASSUME NEW u \in Tasks, Ready(u),
                      \A v \in Tasks : Ready(v) => ~(Priority(v) > Priority(u))
               PROVE  FALSE
    OBVIOUS
  <2>1. \A v \in Tasks : Priority(v) \in 1..5
    BY DEF Priority
  <2>2. HasCpu(u)
    BY <2>1 DEF Tick, HasCpu
  <2> QED
    BY <2>2 DEF Tick, MayRun
<1>2. \A u \in Tasks : Priority(u) \in 1..5
  BY DEF Priority
<1>3. \A u \in Tasks : Ready(u) => Priority(u) < 5
  BY <1>1, <1>2
<1>4. \A u \in Tasks : Ready(u) => Priority(u) < 4
  BY <1>1, <1>2, <1>3
<1>5. \A u \in Tasks : Ready(u) => Priority(u) < 3
  BY <1>1, <1>2, <1>4
<1>6. \A u \in Tasks : Ready(u) => Priority(u) < 2
  BY <1>1, <1>2, <1>5
<1> QED
  BY <1>1, <1>2, <1>6

LEMMA QuietObc ==
    ASSUME TypeOK, QuietShape, KicksInTime, ObcStep PROVE QuietShape' /\ KicksInTime'
<1> SUFFICES ASSUME commanded = 0 PROVE QuietShape' /\ KicksInTime'
  <2>1. commanded' = commanded
    BY DEF ObcStep, ObcBoot, ObcChangeState, ObcIdle, ObcPause, ObcSwitchAndResume,
       ObcEnterState, ObcCheck
  <2> QED
    BY <2>1 DEF QuietShape, KicksInTime
<1>1. CASE ObcBoot
  <2>1. {"COMMS", "OBDH"} \subseteq TasksFor(state) /\ TasksFor(state) \subseteq Tasks
    BY NeverExcluded, TableTypes DEF TypeOK
  <2>2. QuietShape'
    BY <1>1, <2>1 DEF ObcBoot, QuietShape, Pollers
  <2>3. KicksInTime'
    BY <1>1 DEF ObcBoot, KicksInTime
  <2> QED
    BY <2>2, <2>3
<1>2. CASE ObcIdle
  BY <1>2 DEF ObcIdle, taskVars, healthVars, QuietShape, KicksInTime, Kicking
<1>3. CASE ObcCheck
  <2>1. UNCHANGED <<obcBits, paused>> /\ obc = "check" /\ obc' = "idle"
    BY <1>3 DEF ObcCheck, taskVars
  <2>2. CASE sinceCheck < HealthPeriod
    <3>1. UNCHANGED <<loc, left, bits, kicked, expected, faulty, sinceCheck>>
      BY <1>3, <2>2 DEF ObcCheck, taskVars, healthVars
    <3> QED
      BY <2>1, <3>1 DEF QuietShape, KicksInTime, Kicking
  <2>3. CASE ~(sinceCheck < HealthPeriod)
    <3> DEFINE missing == expected \ kicked
    <3>1. missing \subseteq {"TRANSCEIVER"}
      <4>1. sinceCheck = HealthPeriod
        BY <2>3 DEF TypeOK, HealthPeriod
      <4> QED
        BY <4>1, OnlyTransceiverMisses
    <3>2. /\ faulty' = missing /\ sinceCheck' = 0
          /\ \A t \in Tasks : /\ loc'[t] = IF t \in missing THEN "top" ELSE loc[t]
                              /\ left'[t] = IF t \in missing THEN 0 ELSE left[t]
                              /\ bits'[t] = IF t \in missing THEN {} ELSE bits[t]
          /\ expected' = expected \union {t \in missing : ~paused[t]}
      BY <1>3, <2>3 DEF ObcCheck, Reset
    <3>3. expected' = expected /\ expected \subseteq Tasks
      BY <3>2 DEF TypeOK
    <3>4. QuietShape'
      BY <2>1, <3>1, <3>2, <3>3 DEF QuietShape
    <3>5. \A t \in Tasks : loc'[t] = "wait" => left'[t] <= Timeout(t)
      BY <3>2 DEF KicksInTime
    <3>6. \A t \in Tasks : loc'[t] = "wait" => 0 + left'[t] <= Timeout(t)
      <4>1. \A t \in Tasks : left[t] \in Nat
        BY DEF TypeOK
      <4> QED
        BY <3>2, <4>1, TimeoutFits DEF KicksInTime
    <3>7. \A t \in Tasks : Kicking(t)'
      BY <3>2, <3>6, TimeoutFits DEF Kicking
    <3> QED
      BY <3>3, <3>4, <3>5, <3>7 DEF KicksInTime
  <2> QED
    BY <2>2, <2>3
<1>4. ~ObcChangeState
  BY DEF ObcChangeState, QuietShape, States
<1>5. ~ObcPause /\ ~ObcSwitchAndResume /\ ~ObcEnterState
  BY DEF ObcPause, ObcSwitchAndResume, ObcEnterState, QuietShape
<1> QED
  BY <1>1, <1>2, <1>3, <1>4, <1>5 DEF ObcStep

\* A step of a task that changes neither who is paused and expected nor a notification
\* bit, and that keeps the task on its way.
LEMMA TaskKeepsTime ==
    ASSUME TypeOK, QuietShape, KicksInTime, commanded = 0, NEW t \in Tasks, obc # "boot",
           UNCHANGED <<obc, obcBits, faulty, paused, expected, sinceCheck, commanded>>,
           kicked \subseteq kicked', bits' = bits \/ bits' = [bits EXCEPT ![t] = {}],
           \A u \in Tasks \ {t} : loc'[u] = loc[u] /\ left'[u] = left[u],
           loc'[t] \notin {"pause", "resume"},
           loc'[t] \in {"radio", "session"} => t = "TRANSCEIVER",
           loc'[t] = "wait" => left'[t] <= Timeout(t),
           t \in expected \ (kicked' \union {"TRANSCEIVER"}) => Kicking(t)'
    PROVE  QuietShape' /\ KicksInTime'
<1>1. \A u \in Tasks : bits'[u] = {}
  BY DEF QuietShape, TypeOK
<1>2. QuietShape'
  BY <1>1 DEF QuietShape
<1>3. \A u \in Tasks \ {t} : Kicking(u) => Kicking(u)'
  BY DEF Kicking
<1>4. expected \subseteq Tasks
  BY DEF TypeOK
<1> QED
  BY <1>2, <1>3, <1>4 DEF KicksInTime

LEMMA QuietTask ==
    ASSUME TypeOK, PauseShape, QuietShape, KicksInTime, NEW t \in Tasks, TaskStep(t)
    PROVE  QuietShape' /\ KicksInTime'
<1>1. UNCHANGED <<obc, obcBits, faulty, sinceCheck, commanded>> /\ kicked \subseteq kicked'
  BY DEF TaskStep, ReadNotifications, FinishPause, FinishResume, SetExpected, EndLoop, Submit,
     StartExchange, KickInSession, EndExchange, Expire, Signal, obcVars, healthVars
<1> SUFFICES ASSUME commanded = 0 PROVE QuietShape' /\ KicksInTime'
  BY <1>1 DEF QuietShape, KicksInTime
<1>2. /\ left[t] \in Nat /\ sinceCheck \in Nat /\ Timeout(t) \in Nat /\ Timeout(t) < HealthPeriod
      /\ bits[t] = {} /\ expected \subseteq Tasks
  BY TimeoutFits DEF TypeOK, HealthPeriod, QuietShape
<1>3. obc # "boot"
  <2>1. obc = "boot" => ObcReady /\ loc[t] = "top"
    BY DEF ObcReady, PauseShape
  <2> QED
    BY <2>1 DEF TaskStep, ReadNotifications, FinishPause, FinishResume, EndLoop, Submit,
       StartExchange, KickInSession, EndExchange, Expire, Signal, MayRun, HasCpu
<1>4. ~FinishPause(t) /\ ~FinishResume(t)
  BY DEF FinishPause, FinishResume, QuietShape
<1>5. CASE ReadNotifications(t)
  <2>1. ~TakeResume(t) /\ ~TakePause(t)
    BY <1>2 DEF TakeResume, TakePause
  <2>2. UNCHANGED <<paused, expected>> /\ bits' = [bits EXCEPT ![t] = {}]
    BY <1>2, <1>5, <2>1 DEF ReadNotifications, StayPaused, StayRunning
  <2>3. loc[t] = "top" \/ (loc[t] = "wait" /\ t \notin Pollers)
    BY <1>5 DEF ReadNotifications
  <2>4. CASE StayPaused(t)
    <3>1. t \notin Pollers /\ t \notin expected
      BY <1>3, <2>4 DEF StayPaused, QuietShape
    <3>2. loc' = [loc EXCEPT ![t] = "wait"] /\ left' = [left EXCEPT ![t] = Timeout(t)]
      BY <2>4, <3>1 DEF StayPaused, Loop, Block
    <3>3. /\ \A u \in Tasks \ {t} : loc'[u] = loc[u] /\ left'[u] = left[u]
          /\ loc'[t] = "wait" /\ left'[t] = Timeout(t)
      BY <3>2 DEF TypeOK
    <3>4. left'[t] <= Timeout(t)
      BY <1>2, <3>3
    <3> QED
      BY <1>1, <1>3, <2>2, <3>1, <3>3, <3>4, TaskKeepsTime
  <2>5. CASE StayRunning(t) /\ t \in Pollers
    <3>1. /\ \A u \in Tasks \ {t} : loc'[u] = loc[u] /\ left'[u] = left[u]
          /\ loc'[t] = "wait" /\ left'[t] = Timeout(t)
      BY <2>5 DEF StayRunning, Proceed, Block, TypeOK
    <3>2. t \in expected \ (kicked' \union {"TRANSCEIVER"}) => Kicking(t)'
      BY <1>1, <1>2, <2>3, <2>5, <3>1 DEF KicksInTime, Kicking
    <3>3. left'[t] <= Timeout(t)
      BY <1>2, <3>1
    <3> QED
      BY <1>1, <1>3, <2>2, <3>1, <3>2, <3>3, TaskKeepsTime
  <2>6. CASE StayRunning(t) /\ t \notin Pollers
    <3>1. /\ \A u \in Tasks \ {t} : loc'[u] = loc[u] /\ left'[u] = left[u]
          /\ loc'[t] = "body"
      BY <2>6 DEF StayRunning, Proceed, Goto, TypeOK
    <3>2. t = "BEACON" => t \in kicked'
      BY <1>5 DEF ReadNotifications, KicksOnWake
    <3>3. t \in expected \ (kicked' \union {"TRANSCEIVER"}) => Kicking(t)'
      BY <1>1, <1>2, <2>3, <2>6, <3>1, <3>2 DEF KicksInTime, Kicking
    <3> QED
      BY <1>1, <1>2, <1>3, <2>2, <3>1, <3>3, TaskKeepsTime
  <2> QED
    BY <1>5, <2>1, <2>4, <2>5, <2>6 DEF ReadNotifications
<1>6. CASE EndLoop(t)
  <2>1. UNCHANGED <<paused, expected, bits>> /\ loc[t] = "body"
        /\ kicked' = kicked \union ({t} \ KicksOnWake)
    BY <1>6 DEF EndLoop
  <2>2. /\ \A u \in Tasks \ {t} : loc'[u] = loc[u] /\ left'[u] = left[u]
        /\ loc'[t] \in {"top", "wait"}
        /\ loc'[t] = "wait" => left'[t] = Timeout(t)
        /\ t = "BEACON" => loc'[t] = "wait"
    BY <1>6 DEF EndLoop, Loop, Goto, Block, Pollers, TypeOK
  <2>3. t \in expected \ (kicked' \union {"TRANSCEIVER"}) => Kicking(t)'
    <3> SUFFICES ASSUME t \in expected \ (kicked' \union {"TRANSCEIVER"}) PROVE Kicking(t)'
      OBVIOUS
    <3>1. t = "BEACON" /\ t \notin kicked
      BY <2>1 DEF KicksOnWake
    <3>2. sinceCheck = 0
      BY <2>1, <3>1 DEF KicksInTime, Kicking
    <3> QED
      BY <1>1, <1>2, <2>2, <3>1, <3>2 DEF Kicking, Pollers
  <2> QED
    BY <1>1, <1>2, <1>3, <2>1, <2>2, <2>3, TaskKeepsTime
<1>7. CASE Submit(t)
  <2>1. UNCHANGED <<paused, expected, bits, left>> /\ loc[t] = Submits(t)
        /\ loc' = [loc EXCEPT ![t] = "flash"]
    BY <1>7 DEF Submit, healthVars
  <2>2. \A u \in Tasks \ {t} : loc'[u] = loc[u] /\ left'[u] = left[u]
    BY <2>1 DEF TypeOK
  <2>3. loc'[t] = "flash"
    BY <2>1 DEF TypeOK
  <2>4. t \in expected \ (kicked' \union {"TRANSCEIVER"}) => Kicking(t)'
    BY <1>1, <1>2, <2>1, <2>3 DEF KicksInTime, Kicking, Submits
  <2> QED
    BY <1>1, <1>2, <1>3, <2>1, <2>2, <2>3, <2>4, TaskKeepsTime
<1>8. CASE StartExchange(t) \/ KickInSession(t) \/ EndExchange(t)
  <2>1. t = "TRANSCEIVER" /\ UNCHANGED <<paused, expected, bits>>
    BY <1>8 DEF StartExchange, KickInSession, EndExchange, QuietShape, healthVars
  <2>2. /\ \A u \in Tasks \ {t} : loc'[u] = loc[u] /\ left'[u] = left[u]
        /\ loc'[t] \in {"radio", "session", "body"}
    BY <1>8 DEF StartExchange, KickInSession, EndExchange, Block, Goto, TypeOK
  <2> QED
    BY <1>1, <1>2, <1>3, <2>1, <2>2, TaskKeepsTime
<1>9. CASE Expire(t)
  <2>1. UNCHANGED <<paused, expected, bits, kicked>> /\ loc[t] = "wait" /\ left[t] = 0
    BY <1>9 DEF Expire, healthVars
  <2>2. /\ \A u \in Tasks \ {t} : loc'[u] = loc[u] /\ left'[u] = left[u]
        /\ loc'[t] = IF t \in Pollers THEN "body" ELSE "top"
    BY <1>9 DEF Expire, Goto, TypeOK
  <2>3. t \in expected \ (kicked' \union {"TRANSCEIVER"}) => Kicking(t)'
    BY <1>1, <1>2, <2>1, <2>2 DEF KicksInTime, Kicking, Pollers
  <2> QED
    BY <1>1, <1>2, <1>3, <2>1, <2>2, <2>3, TaskKeepsTime
<1>10. CASE Signal(t)
  <2>1. UNCHANGED <<paused, expected, bits, kicked, loc, left>>
    BY <1>10 DEF Signal, healthVars
  <2> QED
    BY <1>1, <1>2, <1>3, <2>1 DEF QuietShape, KicksInTime, Kicking
<1> QED
  BY <1>4, <1>5, <1>6, <1>7, <1>8, <1>9, <1>10 DEF TaskStep

LEMMA QuietServe ==
    ASSUME TypeOK, QuietShape, KicksInTime, Serve PROVE QuietShape' /\ KicksInTime'
<1>1. UNCHANGED <<obcBits, faulty, sinceCheck, commanded, paused, bits, expected, kicked>>
  BY DEF Serve, healthVars
<1> SUFFICES ASSUME commanded = 0 PROVE QuietShape' /\ KicksInTime'
  BY <1>1 DEF QuietShape, KicksInTime
<1>2. \A t \in Tasks : /\ left[t] \in Nat /\ Timeout(t) \in Nat
                       /\ left'[t] = IF t = "OBDH" THEN 0 ELSE left[t]
  BY TimeoutFits DEF Serve, TypeOK, HealthPeriod
<1>3. sinceCheck \in Nat /\ loc["OBDH"] = "wait" /\ "OBDH" \in Tasks /\ expected \subseteq Tasks
  BY TableTypes DEF Serve, TypeOK, HealthPeriod
<1>4. obc # "boot" /\ (obc' = obc \/ obc' \in {"idle", "check"})
  BY DEF Serve, MayRun, HasCpu, ObcReady, AfterWrite, QuietShape
<1>5. ASSUME NEW t \in Tasks
      PROVE  \/ loc'[t] = loc[t] /\ t # "OBDH"
             \/ loc[t] = "flash" /\ loc'[t] = Submits(t) /\ t # "OBDH"
             \/ t = "OBDH" /\ loc'[t] = "body"
  <2> DEFINE c == Head(reqs).client
  <2>1. CASE c = "OBC"
    BY <1>3, <2>1 DEF Serve, TypeOK
  <2>2. CASE c # "OBC"
    <3>1. loc' = [loc EXCEPT !["OBDH"] = "body", ![c] = IF @ = "flash" THEN Submits(c) ELSE @]
      BY <2>2 DEF Serve
    <3> HIDE DEF c
    <3> QED
      BY <1>3, <3>1 DEF TypeOK
  <2> QED
    BY <2>1, <2>2
<1>6. QuietShape'
  BY <1>1, <1>4, <1>5 DEF QuietShape, Submits
<1>7. ASSUME NEW t \in Tasks, t # "TRANSCEIVER", Kicking(t) PROVE Kicking(t)'
  BY <1>1, <1>2, <1>3, <1>5, <1>7 DEF Kicking, Submits, Pollers
<1>8. \A t \in Tasks : loc'[t] = "wait" => left'[t] <= Timeout(t)
  BY <1>2, <1>5 DEF KicksInTime, Submits
<1> QED
  BY <1>1, <1>3, <1>6, <1>7, <1>8 DEF KicksInTime

LEMMA QuietOther ==
    ASSUME IInv, QuietShape, KicksInTime,
           (\E s \in Commands : ReceiveCommand(s)) \/ ReceiveFrame \/ Tick \/ Reboot
    PROVE  QuietShape' /\ KicksInTime'
<1> USE TimeoutFits DEF IInv
<1>1. CASE \E s \in Commands : ReceiveCommand(s)
  <2>1. commanded' # 0
    BY <1>1 DEF ReceiveCommand, TypeOK
  <2> QED
    BY <2>1 DEF QuietShape, KicksInTime
<1>2. CASE ReceiveFrame
  <2>1. /\ UNCHANGED <<obc, faulty, paused, expected, sinceCheck, commanded, kicked, bits>>
        /\ obcBits' \subseteq obcBits \union {"OTHER"} /\ loc["COMMS"] = "wait" /\ obc # "boot"
    BY <1>2 DEF ReceiveFrame, healthVars, HasCpu, ObcReady
  <2>2. /\ \A u \in Tasks \ {"COMMS"} : loc'[u] = loc[u] /\ left'[u] = left[u]
        /\ loc'["COMMS"] = "body"
    BY <1>2, TableTypes DEF ReceiveFrame, Goto, TypeOK
  <2>3. sinceCheck \in Nat /\ \A t \in Tasks : left[t] \in Nat /\ Timeout(t) \in Nat
    BY DEF TypeOK, HealthPeriod
  <2>4. \A t \in Tasks : Kicking(t) => Kicking(t)'
    BY <2>1, <2>2, <2>3 DEF Kicking
  <2>5. expected \subseteq Tasks
    BY DEF TypeOK
  <2>6. QuietShape'
    BY <2>1, <2>2 DEF QuietShape
  <2> QED
    BY <2>1, <2>2, <2>4, <2>5, <2>6 DEF KicksInTime
<1>3. CASE Tick
  <2>1. /\ UNCHANGED <<obc, obcBits, faulty, paused, expected, commanded, kicked, bits, loc>>
        /\ \A t \in Tasks : Timed(t) => left[t] > 0 \/ Starved(t)
        /\ left' = [t \in Tasks |-> IF Timed(t) /\ left[t] > 0 THEN left[t] - 1 ELSE left[t]]
        /\ sinceCheck' = IF sinceCheck < HealthPeriod THEN sinceCheck + 1 ELSE sinceCheck
    BY <1>3 DEF Tick
  <2> SUFFICES ASSUME commanded = 0 PROVE QuietShape' /\ KicksInTime'
    BY <2>1 DEF QuietShape, KicksInTime
  <2>2. \A t \in Tasks : ~Ready(t)
    <3>1. \A t \in Tasks : ~Spinning(t)
      BY DEF Spinning, QuietShape
    <3> QED
      BY <1>3, <3>1, NobodyReady
  <2>3. \A t \in Tasks : loc[t] # "flash"
    <3>1. reqs = <<>>
      BY <2>2, TableTypes DEF QueueShape, Ready, Pollers
    <3> QED
      BY <3>1 DEF OneRequestPerBlockedClient
  <2>4. ASSUME NEW t \in Tasks, t # "TRANSCEIVER"
        PROVE  loc[t] = "wait" /\ left[t] > 0 /\ left'[t] = left[t] - 1
    <3>1. loc[t] = "wait"
      BY <2>2, <2>3, <2>4 DEF Ready, QuietShape, TypeOK, Locations
    <3> QED
      BY <2>1, <2>2, <3>1 DEF Timed, Starved
  <2>5. sinceCheck \in Nat /\ sinceCheck' \in Nat /\ sinceCheck' <= sinceCheck + 1
        /\ \A t \in Tasks : left[t] \in Nat /\ left'[t] \in Nat /\ left'[t] <= left[t]
    BY <2>1 DEF TypeOK, HealthPeriod
  <2>6. \A t \in Tasks \ {"TRANSCEIVER"} : Kicking(t) => Kicking(t)'
    BY <2>1, <2>4, <2>5 DEF Kicking
  <2>7. \A t \in Tasks : loc'[t] = "wait" => left'[t] <= Timeout(t)
    BY <2>1, <2>5 DEF KicksInTime, HealthPeriod
  <2>8. expected \subseteq Tasks
    BY DEF TypeOK
  <2>9. QuietShape'
    BY <2>1 DEF QuietShape
  <2> QED
    BY <2>1, <2>6, <2>7, <2>8, <2>9 DEF KicksInTime
<1>4. CASE Reboot
  BY <1>4 DEF Reboot, QuietShape, KicksInTime
<1> QED
  BY <1>1, <1>2, <1>3, <1>4

-----------------------------------------------------------------------------
(* The theorems about the turn of OBDH and the time of the health check *)

TimedInv == ObdhTurn /\ WatchdogBudget /\ QuietShape /\ KicksInTime

LEMMA InitTimed == Init => TimedInv
  BY TableTypes DEF Init, TimedInv, ObdhTurn, ObdhRuns, WatchdogBudget, HealthPeriod, ObcWait,
     AckTimeout, QuietShape, Pollers, KicksInTime

LEMMA NextTimed == IInv /\ TimedInv /\ [Next]_vars => TimedInv'
<1> SUFFICES ASSUME IInv, TimedInv, [Next]_vars PROVE TimedInv'
  OBVIOUS
<1> USE DEF IInv, TimedInv
<1>1. WatchdogBudget'
  BY BudgetStep
<1>2. CASE ObcStep
  BY <1>1, <1>2, ObcTurn, QuietObc
<1>3. CASE \E t \in Tasks : TaskStep(t)
  <2>1. PICK t \in Tasks : TaskStep(t)
    BY <1>3
  <2>2. ObdhTurn'
    BY <2>1, OtherTaskTurn, OwnTurn
  <2> QED
    BY <1>1, <2>1, <2>2, QuietTask
<1>4. CASE Serve
  BY <1>1, <1>4, OtherTurn, QuietServe
<1>5. CASE (\E s \in Commands : ReceiveCommand(s)) \/ ReceiveFrame \/ Tick \/ Reboot
  BY <1>1, <1>5, OtherTurn, QuietOther
<1>6. CASE UNCHANGED vars
  BY <1>1, <1>6 DEF vars, obcVars, taskVars, healthVars, ObdhTurn, ObdhRuns, ObdhToPause,
     ObdhPauses, ObdhSpins, ObdhToResume, ObdhResumes, QuietShape, KicksInTime, Kicking
<1> QED
  BY <1>2, <1>3, <1>4, <1>5, <1>6 DEF Next

LEMMA TimedInvariance == Spec => [](IInv /\ TimedInv)
  BY InitInvariant, NextInvariant, InitTimed, NextTimed, PTL DEF Spec

\* The watchdog bites only after a health check that found a fault: without one OBC
\* refreshes it within 26 of its 32 seconds, whatever the tasks and the commands.
THEOREM WatchdogBitesAfterFault == Spec => []WatchdogNeedsFault
<1>1. IInv /\ TimedInv => WatchdogNeedsFault
  BY DEF TimedInv, WatchdogBudget, WatchdogNeedsFault, WatchdogTimeout, HealthPeriod, ObcWait,
     AckTimeout
<1> QED
  BY <1>1, TimedInvariance, PTL

\* Until a transition is commanded, no task but the transceiver misses a health period,
\* whichever tasks there are and whatever frames arrive.
THEOREM QuietSystemIsHealthy == Spec => []QuietNeverFaults
<1>1. IInv /\ TimedInv => QuietNeverFaults
  BY DEF TimedInv, QuietShape, QuietNeverFaults
<1> QED
  BY <1>1, TimedInvariance, PTL

\* Every acknowledgement that ends or outlives the wait for a pause is one of a task
\* paused by then: in fact only OBDH gives one.
THEOREM AckedPause == Spec => AckedPauseIsPaused
<1>1. ASSUME TypeOK, ObdhTurn, obc = "pausing"
      PROVE  \A t \in TasksFor(state) \intersect acks : paused[t]
  BY <1>1 DEF ObdhTurn, ObdhToPause, ObdhPauses, ObdhSpins
<1>2. IInv /\ TimedInv /\ [Next]_vars =>
        [obc = "pausing" /\ obc' = "resuming" =>
           \A t \in TasksFor(state) \intersect acks : paused[t]]_vars
  BY <1>1 DEF IInv, TimedInv
<1> QED
  BY <1>2, TimedInvariance, PTL DEF Spec, AckedPauseIsPaused

\* The wait of tm_pause_tasks for its acknowledgements never ends early: it lasts the
\* whole TM_PAUSE_ACK_TIMEOUT_MS in every transition, and the tasks below OBDH do not
\* run in it (the paused loop of obdh.c does not block).
PauseWaitRunsOut == [][obc = "pausing" /\ obc' = "resuming" => obcLeft = 0 /\ ~AllAcked]_vars

\* So it is for every set of tasks and every transition.
THEOREM PauseAlwaysTimesOut == Spec => PauseWaitRunsOut
<1>1. IInv /\ TimedInv /\ [Next]_vars =>
        [obc = "pausing" /\ obc' = "resuming" => obcLeft = 0 /\ ~AllAcked]_vars
  <2> SUFFICES ASSUME TypeOK, ObdhTurn, Next, obc = "pausing", obc' = "resuming"
               PROVE  obcLeft = 0 /\ ~AllAcked
    BY DEF IInv, TimedInv, vars, obcVars
  <2>1. CASE ObcStep
    BY <2>1, PauseWait DEF ObcStep, ObcBoot, ObcChangeState, ObcIdle, ObcPause,
       ObcSwitchAndResume, ObcEnterState, ObcCheck
  <2>2. ~ObcStep => obc' = obc \/ obc' \in {"boot", "idle", "pause", "check"}
    BY TaskLeavesObc DEF Next, Serve, AfterWrite, ReceiveCommand, ReceiveFrame, Tick, Reboot
  <2> QED
    BY <2>1, <2>2
<1> QED
  BY <1>1, TimedInvariance, PTL DEF Spec, PauseWaitRunsOut
=============================================================================
