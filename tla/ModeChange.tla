----------------------------- MODULE ModeChange -----------------------------
(***************************************************************************)
(* The on-board computer task (OBC) and the subsystem tasks it pauses,     *)
(* resumes, monitors and resets: obc.c, state_machine.c, task_management.c,*)
(* health.c, the main loop of every subsystem task, and the flash round    *)
(* trip of flash.c through the OBDH task.                                   *)
(*                                                                         *)
(* The kernel is preemptive with fixed priorities: a step of a task needs  *)
(* that no task of a higher priority is ready (MayRun), equal priorities   *)
(* are time-sliced, and OBC, the highest, runs to its next blocking point. *)
(* Time is counted in seconds.  A timeout that has run down expires at any *)
(* moment of its second, so every sub-second phase of two timers occurs,   *)
(* and a second passes (Tick) only when no task has anything left to do.   *)
(***************************************************************************)
EXTENDS Naturals, Sequences, FiniteSets

CONSTANTS Tasks,        \* the subsystem tasks of the instance
          BootStates,   \* the states flash may hold at the first boot
          Commands,     \* the states the ground station may command
          MaxCommands,  \* bound: transition telecommands per behaviour
          MaxExchange   \* bound: seconds of the longest radio exchange

AllTasks == {"PAYLOAD", "EPS", "COMMS", "ADCS", "OBDH", "TRANSCEIVER", "BEACON"}
States == {"BOOT", "NM", "CM", "SSM", "SM", "SAFE_HOLD"}
Frequencies == {80, 8, 2}

ASSUME TasksAssumption == Tasks \subseteq AllTasks /\ {"COMMS", "OBDH"} \subseteq Tasks
ASSUME BootStatesAssumption == BootStates \subseteq States
ASSUME CommandsAssumption == Commands \subseteq {"NM", "CM", "SSM", "SM"}
ASSUME BoundsAssumption == MaxCommands \in Nat /\ MaxExchange \in Nat

VARIABLES
    obc,        \* control point of the OBC task
    obcBits,    \* its pending N_OBC_EXIT_STATE_TO_* notifications
    obcLeft,    \* seconds left of the wait it is blocked in
    state,      \* *currentState
    target,     \* newState of the change_state in progress
    clock,      \* current_freq of clock.c
    periph,     \* frequency the peripherals are configured for
    loc,        \* control point of each task
    left,       \* seconds left of the wait it is blocked in
    bits,       \* its PAUSE and RESUME notification bits (index 0)
    received,   \* the tasks whose notification state is RECEIVED
    paused,     \* task_table[].paused
    seen,       \* what health_get_expected returned to a task in tm_check_pause
    acks,       \* task_event_group
    reqs,       \* obdh_queue: the flash requests not yet served
    flash,      \* the two state bytes in flash
    expected,   \* expected_bits of health.c
    kicked,     \* health_eg
    sinceCheck, \* seconds since the health period began, at most HealthPeriod
    iwdg,       \* seconds since the watchdog was refreshed
    faulty,     \* history: the tasks the last health period found missing
    commanded   \* number of transition telecommands received

obcVars == <<obc, obcBits, obcLeft, state, target, clock, periph>>
taskVars == <<loc, left, bits, received, paused, seen, acks>>
healthVars == <<expected, kicked, sinceCheck, iwdg, faulty>>
vars == <<obcVars, taskVars, healthVars, reqs, flash, commanded>>

-----------------------------------------------------------------------------
(* Tables of the code.  Times are in seconds. *)

AckTimeoutDoubled == 20
AckTimeout == 10        \* TM_PAUSE_ACK_TIMEOUT_MS
HealthPeriod == 5       \* health_config(pdMS_TO_TICKS(5000))
ObcWait == 2            \* process_obc
WatchdogTimeout == 32   \* prescaler 256, reload 4095, 32 kHz
QueueLength == 10       \* OBDH_QUEUE_LEN

\* Wrong variant: the flash server below its clients.
PriorityObdhLow(t) == IF t = "OBDH" THEN 2 ELSE 4

Priority(t) ==
    IF t = "OBDH" THEN 5
    ELSE IF t \in {"COMMS", "TRANSCEIVER", "BEACON"} THEN 4
    ELSE IF t = "EPS" THEN 3
    ELSE IF t = "ADCS" THEN 2 ELSE 1

TasksFor(s) ==
    {t \in Tasks : /\ t = "PAYLOAD" => s \notin {"CM", "SSM", "SM"}
                   /\ t = "ADCS" => s \notin {"SSM", "SM"}
                   /\ t = "BEACON" => s # "SM"}

FreqFor(s) == IF s = "SSM" THEN 8 ELSE IF s = "SM" THEN 2 ELSE 80

\* Pollers read their notifications without blocking and block on a queue;
\* the other tasks block on the notification itself.
Pollers == {"COMMS", "OBDH"}

\* Wrong variant: every task waits for a whole health period.
TimeoutLong(t) == IF t = "COMMS" THEN 2 ELSE HealthPeriod

Timeout(t) == IF t = "COMMS" THEN 2 ELSE IF t = "BEACON" THEN 4 ELSE 1

FlashClients == {"EPS", "COMMS", "BEACON", "TRANSCEIVER"}

\* The beacon kicks as soon as it wakes, every other task at the end of its loop;
\* the paused loop of COMMS and TRANSCEIVER skips that end.
KicksOnWake == {"BEACON"}
KicksWhenPaused == {"EPS", "ADCS", "PAYLOAD", "OBDH"}

\* Tasks that telecommand handlers notify and that block on the notification.
Addressees == {"EPS", "PAYLOAD", "BEACON", "TRANSCEIVER"}

NextState(pending) ==
    IF "NM" \in pending THEN "NM"
    ELSE IF "CM" \in pending THEN "CM"
    ELSE IF "SSM" \in pending THEN "SSM" ELSE "SM"

-----------------------------------------------------------------------------
(* Scheduling *)

ObcPoints == {"boot", "bootWrite", "idle", "savePrev", "pause", "pausing", "resuming",
              "saveCur", "check"}

Locations == {"top", "pause", "resume", "body", "wait", "flash", "radio", "session"}

Ready(t) ==
    \/ loc[t] \in {"top", "pause", "resume", "body"}
    \/ /\ loc[t] = "wait"
       /\ IF t \in Pollers THEN t = "OBDH" /\ reqs # <<>> ELSE t \in received

AllAcked == \/ obc = "pausing" /\ TasksFor(state) \subseteq acks
            \/ obc = "resuming" /\ TasksFor(target) \subseteq acks

ObcReady ==
    \/ obc \in {"boot", "pause", "check"}
    \/ obc = "idle" /\ obcBits # {}
    \/ AllAcked

ObcTimed == obc \in {"idle", "pausing", "resuming"}
ObcExpired == ObcTimed /\ obcLeft = 0

HasCpu(t) ==
    /\ ~ObcReady
    /\ \A u \in Tasks : Ready(u) => Priority(u) <= Priority(t)

MayRun(t) == Ready(t) /\ HasCpu(t)

\* A paused poller loops without blocking and changes nothing.
Spinning(t) ==
    /\ t \in Pollers /\ loc[t] = "top" /\ paused[t] /\ t \notin received
    /\ t \in KicksWhenPaused => t \in kicked

-----------------------------------------------------------------------------
(* The flash request queue *)

Requests == [client : Tasks \union {"OBC"}, field : {"boot", "prev", "cur", "data"},
             live : BOOLEAN]

Request(c, f) == [client |-> c, field |-> f, live |-> TRUE]

\* tm_reset_task deletes the client of a request but not the request.
Abandon(rs) ==
    [i \in DOMAIN reqs |-> IF reqs[i].client \in rs
                           THEN [reqs[i] EXCEPT !.live = FALSE] ELSE reqs[i]]

-----------------------------------------------------------------------------
(* The OBC task *)

Init ==
    /\ obc = "boot" /\ obcBits = {} /\ obcLeft = 0
    /\ \E s \in BootStates : flash = [cur |-> s, prev |-> s]
    /\ state = flash.cur /\ target = flash.cur
    /\ clock = FreqFor(state) /\ periph = FreqFor(state)
    /\ loc = [t \in Tasks |-> "top"] /\ left = [t \in Tasks |-> 0]
    /\ bits = [t \in Tasks |-> {}] /\ received = {} /\ paused = [t \in Tasks |-> FALSE]
    /\ seen = [t \in Tasks |-> {}] /\ acks = {}
    /\ reqs = <<>>
    /\ expected = {} /\ kicked = {} /\ sinceCheck = 0 /\ iwdg = 0 /\ faulty = {}
    /\ commanded = 0

\* setup_obc: create every task, paused if the restored state excludes it, and
\* persist the boot time.
ObcBoot ==
    /\ obc = "boot"
    /\ paused' = [t \in Tasks |-> t \notin TasksFor(state)]
    /\ expected' = TasksFor(state)
    /\ kicked' = TasksFor(state)
    /\ reqs' = Append(reqs, Request("OBC", "boot"))
    /\ obc' = "bootWrite"
    /\ UNCHANGED <<obcBits, obcLeft, state, target, clock, periph, loc, left, bits,
                   received, seen, acks, flash, sinceCheck, iwdg, faulty, commanded>>

\* process_obc, its wait ended by a notification: the first part of change_state,
\* up to the write of the state being left.
ObcChangeState ==
    /\ obc = "idle" /\ obcBits \intersect States # {}
    /\ target' = NextState(obcBits)
    /\ obcBits' = {}
    /\ reqs' = Append(reqs, Request("OBC", "prev"))
    /\ obc' = "savePrev" /\ obcLeft' = 0
    /\ UNCHANGED <<state, clock, periph, taskVars, healthVars, flash, commanded>>

\* process_obc, its wait timed out or ended by a notification without a handler.
ObcIdle ==
    /\ obc = "idle" /\ obcBits \intersect States = {}
    /\ obcBits # {} \/ obcLeft = 0
    /\ obc' = "check" /\ obcBits' = {} /\ obcLeft' = 0
    /\ UNCHANGED <<state, target, clock, periph, taskVars, healthVars,
                   reqs, flash, commanded>>

\* notify_and_wait sends b to every task of the mask and forgets its old answers.
Notify(mask, b) ==
    /\ bits' = [t \in Tasks |-> IF t \in mask THEN bits[t] \union {b} ELSE bits[t]]
    /\ received' = received \union mask

\* tm_pause_tasks
ObcPause ==
    /\ obc = "pause"
    /\ acks' = acks \ TasksFor(state)
    /\ Notify(TasksFor(state), "PAUSE")
    /\ obc' = "pausing" /\ obcLeft' = AckTimeout
    /\ UNCHANGED <<obcBits, state, target, clock, periph, loc, left, paused, seen,
                   healthVars, reqs, flash, commanded>>

\* Every PAUSE is acknowledged or the wait timed out: switch the clock (which may
\* fail; the code does not look) and call tm_resume_tasks.
ObcSwitchAndResume ==
    /\ obc = "pausing" /\ (AllAcked \/ obcLeft = 0)
    /\ IF FreqFor(target) # clock
       THEN clock' \in {clock, FreqFor(target)} /\ periph' = FreqFor(target)
       ELSE UNCHANGED <<clock, periph>>
    /\ acks' = (IF AllAcked THEN acks \ TasksFor(state) ELSE acks) \ TasksFor(target)
    /\ Notify(TasksFor(target), "RESUME")
    /\ obc' = "resuming" /\ obcLeft' = AckTimeout
    /\ UNCHANGED <<obcBits, state, target, loc, left, paused, seen, healthVars, reqs,
                   flash, commanded>>

\* Wrong variant: the new state is written at the address of the previous one.
ObcEnterStateWrongAddress ==
    /\ obc = "resuming" /\ (AllAcked \/ obcLeft = 0)
    /\ acks' = IF AllAcked THEN acks \ TasksFor(target) ELSE acks
    /\ state' = target
    /\ reqs' = Append(reqs, Request("OBC", "prev"))
    /\ obc' = "saveCur" /\ obcLeft' = 0
    /\ UNCHANGED <<obcBits, target, clock, periph, loc, left, bits, received, paused, seen,
                   healthVars, flash, commanded>>

\* The end of change_state.
ObcEnterState ==
    /\ obc = "resuming" /\ (AllAcked \/ obcLeft = 0)
    /\ acks' = IF AllAcked THEN acks \ TasksFor(target) ELSE acks
    /\ state' = target
    /\ reqs' = Append(reqs, Request("OBC", "cur"))
    /\ obc' = "saveCur" /\ obcLeft' = 0
    /\ UNCHANGED <<obcBits, target, clock, periph, loc, left, bits, received, paused, seen,
                   healthVars, flash, commanded>>

\* tm_reset_task on each task of rs: deleted and created again, its table entry kept.
Reset(rs) ==
    /\ loc' = [t \in Tasks |-> IF t \in rs THEN "top" ELSE loc[t]]
    /\ bits' = [t \in Tasks |-> IF t \in rs THEN {} ELSE bits[t]]
    /\ received' = received \ rs
    /\ seen' = [t \in Tasks |-> IF t \in rs THEN {} ELSE seen[t]]
    /\ left' = [t \in Tasks |-> IF t \in rs THEN 0 ELSE left[t]]
    /\ reqs' = Abandon(rs)
    /\ expected' = expected \union {t \in rs : ~paused[t]}

\* health_check and tm_handle_health_faults.
ObcCheck ==
    /\ obc = "check"
    /\ IF sinceCheck < HealthPeriod
       THEN UNCHANGED <<taskVars, healthVars, reqs>>
       ELSE LET missing == expected \ kicked
            IN  /\ kicked' = kicked \ expected
                /\ sinceCheck' = 0
                /\ iwdg' = IF missing = {} THEN 0 ELSE iwdg
                /\ faulty' = missing
                /\ Reset(missing)
                /\ UNCHANGED <<paused, acks>>
    /\ obc' = "idle" /\ obcLeft' = ObcWait
    /\ UNCHANGED <<obcBits, state, target, clock, periph, flash, commanded>>

-----------------------------------------------------------------------------
(* The subsystem tasks *)

Goto(t, l) == loc' = [loc EXCEPT ![t] = l] /\ left' = [left EXCEPT ![t] = 0]

Block(t, l, d) == loc' = [loc EXCEPT ![t] = l] /\ left' = [left EXCEPT ![t] = d]

\* A task blocks again: a poller goes round its loop, any other waits.
Loop(t) ==
    IF t \in Pollers
    THEN Goto(t, "top") ELSE Block(t, "wait", Timeout(t))

\* Past tm_check_pause: a poller now blocks on its queue, any other runs its body.
Proceed(t) ==
    IF t \in Pollers
    THEN Block(t, "wait", Timeout(t)) ELSE Goto(t, "body")

\* A task blocked in a call that times out.
Timed(t) == loc[t] \in {"radio", "session"} \/ (loc[t] = "wait" /\ ~Ready(t))

\* A radio wait is over, and tasks of a higher priority keep the task from going on.
Starved(t) == loc[t] \in {"radio", "session"} /\ ~HasCpu(t)

\* The timeout of a blocking call runs out.
Expire(t) ==
    /\ loc[t] = "wait" /\ left[t] = 0 /\ ~Ready(t)
    /\ Goto(t, IF t \in Pollers THEN "body" ELSE "top")
    /\ UNCHANGED <<obcVars, bits, received, paused, seen, acks, healthVars, reqs, flash,
                   commanded>>

\* A task reads its notifications: the branches of tm_check_pause, up to the
\* call of health_get_expected.
TakeResume(t) ==
    /\ paused[t] /\ "RESUME" \in bits[t]
    /\ paused' = [paused EXCEPT ![t] = FALSE]
    /\ seen' = [seen EXCEPT ![t] = expected]
    /\ Goto(t, "resume")

\* Wrong variant: the result of tm_check_pause is ignored.
StayPausedWorks(t) ==
    /\ paused[t] /\ "RESUME" \notin bits[t]
    /\ Proceed(t)
    /\ UNCHANGED <<paused, seen>>

StayPaused(t) ==
    /\ paused[t] /\ "RESUME" \notin bits[t]
    /\ Loop(t)
    /\ UNCHANGED <<paused, seen>>

\* Wrong variant: the pause is acknowledged and not recorded.
TakePauseForgets(t) ==
    /\ ~paused[t] /\ "PAUSE" \in bits[t]
    /\ seen' = [seen EXCEPT ![t] = expected]
    /\ Goto(t, "pause")
    /\ UNCHANGED paused

TakePause(t) ==
    /\ ~paused[t] /\ "PAUSE" \in bits[t]
    /\ paused' = [paused EXCEPT ![t] = TRUE]
    /\ seen' = [seen EXCEPT ![t] = expected]
    /\ Goto(t, "pause")

StayRunning(t) ==
    /\ ~paused[t] /\ "PAUSE" \notin bits[t]
    /\ Proceed(t)
    /\ UNCHANGED <<paused, seen>>

\* xTaskNotifyWait clears the bits only if it ends by a notification; when it
\* times out it returns them and leaves them set.
ReadNotifications(t) ==
    /\ MayRun(t)
    /\ loc[t] \in {"top", "wait"} /\ (loc[t] = "wait" => t \notin Pollers)
    /\ TakeResume(t) \/ StayPaused(t) \/ TakePause(t) \/ StayRunning(t)
    /\ bits' = [bits EXCEPT ![t] = IF t \in received THEN {} ELSE @]
    /\ received' = received \ {t}
    /\ kicked' = IF t \in KicksOnWake \/ (paused'[t] /\ loc'[t] # "pause" /\ t \in KicksWhenPaused)
                 THEN kicked \union {t} ELSE kicked
    /\ UNCHANGED <<obcVars, acks, expected, sinceCheck, iwdg, faulty, reqs, flash,
                   commanded>>

\* health_set_expected: a task newly expected counts as kicked for this period.
SetExpected(exp) ==
    /\ expected' = exp
    /\ kicked' = kicked \union (exp \ expected)

\* The rest of tm_check_pause after the PAUSE branch read the expected set.
FinishPause(t) ==
    /\ MayRun(t) /\ loc[t] = "pause"
    /\ expected' = seen[t] \ {t}
    /\ kicked' = (kicked \union (seen[t] \ ({t} \union expected)))
                 \union ({t} \intersect KicksWhenPaused)
    /\ acks' = acks \union {t}
    /\ seen' = [seen EXCEPT ![t] = {}]
    /\ Loop(t)
    /\ UNCHANGED <<obcVars, bits, received, paused, sinceCheck, iwdg, faulty, reqs, flash,
                   commanded>>

\* The same after the RESUME branch.
FinishResume(t) ==
    /\ MayRun(t) /\ loc[t] = "resume"
    /\ SetExpected(seen[t] \union {t})
    /\ acks' = acks \union {t}
    /\ seen' = [seen EXCEPT ![t] = {}]
    /\ Proceed(t)
    /\ UNCHANGED <<obcVars, bits, received, paused, sinceCheck, iwdg, faulty, reqs, flash,
                   commanded>>

\* The end of the loop body.
EndLoop(t) ==
    /\ MayRun(t) /\ loc[t] = "body"
    /\ kicked' = kicked \union ({t} \ KicksOnWake)
    /\ Loop(t)
    /\ UNCHANGED <<obcVars, bits, received, paused, seen, acks, expected, sinceCheck,
                   iwdg, faulty, reqs, flash, commanded>>

\* Where a task reads or writes flash: the transceiver only in a downlink session.
Submits(t) == IF t = "TRANSCEIVER" THEN "session" ELSE "body"

\* Wrong variant: the client does not wait for the answer.
SubmitNoWait(t) ==
    /\ t \in FlashClients /\ loc[t] = Submits(t) /\ HasCpu(t)
    /\ Len(reqs) < QueueLength
    /\ reqs' = Append(reqs, Request(t, "data"))
    /\ UNCHANGED <<obcVars, taskVars, healthVars, flash, commanded>>

\* obdh_submit_request: post the request and wait for OBDH without a timeout.  A
\* full queue returns HAL_BUSY, which no caller looks at.
Submit(t) ==
    /\ t \in FlashClients /\ loc[t] = Submits(t) /\ HasCpu(t)
    /\ Len(reqs) < QueueLength
    /\ reqs' = Append(reqs, Request(t, "data"))
    /\ loc' = [loc EXCEPT ![t] = "flash"]
    /\ UNCHANGED <<obcVars, left, bits, received, paused, seen, acks, healthVars, flash,
                   commanded>>

\* Where OBC goes on after each of its three flash writes.
AfterWrite(o) ==
    IF o = "bootWrite" THEN "idle" ELSE IF o = "savePrev" THEN "pause" ELSE "check"

\* The OBDH task receives a request, serves it and notifies the client.  OBC reads
\* and writes *currentState through the pointer in its request.
Serve ==
    /\ MayRun("OBDH") /\ loc["OBDH"] = "wait" /\ reqs # <<>>
    /\ LET r == Head(reqs)
       IN  /\ flash' = [cur |-> IF r.field = "cur" THEN state ELSE flash.cur,
                        prev |-> IF r.field = "prev" THEN state ELSE flash.prev]
           /\ IF r.client = "OBC"
              THEN /\ obc' = AfterWrite(obc)
                   /\ obcLeft' = IF obc = "bootWrite" THEN ObcWait ELSE obcLeft
                   /\ loc' = [loc EXCEPT !["OBDH"] = "body"]
              ELSE /\ loc' = [loc EXCEPT !["OBDH"] = "body",
                                         ![r.client] = IF @ = "flash" THEN Submits(r.client) ELSE @]
                   /\ UNCHANGED <<obc, obcLeft>>
    /\ reqs' = Tail(reqs)
    /\ left' = [left EXCEPT !["OBDH"] = 0]
    /\ UNCHANGED <<obcBits, state, target, clock, periph, bits, received, paused,
                   seen, acks, healthVars, commanded>>

\* COMMS receives a transition telecommand: tc_process notifies the OBC.
ReceiveCommand(s) ==
    /\ loc["COMMS"] = "wait" /\ HasCpu("COMMS") /\ commanded < MaxCommands
    /\ obcBits' = obcBits \union {s}
    /\ commanded' = commanded + 1
    /\ Goto("COMMS", "body")
    /\ UNCHANGED <<obc, obcLeft, state, target, clock, periph, bits, received, paused,
                   seen, acks, healthVars, reqs, flash>>

\* COMMS receives any other frame: its handler may notify one task, or the OBC
\* with a bit that requests no transition.
ReceiveFrame ==
    /\ loc["COMMS"] = "wait" /\ HasCpu("COMMS")
    /\ Goto("COMMS", "body")
    /\ \/ obcBits' = obcBits \union {"OTHER"} /\ UNCHANGED received
       \/ /\ \E t \in Addressees \intersect Tasks : received' = received \union {t}
          /\ UNCHANGED obcBits
       \/ UNCHANGED <<received, obcBits>>
    /\ UNCHANGED <<obc, obcLeft, state, target, clock, periph, bits, paused, seen, acks,
                   healthVars, reqs, flash, commanded>>

\* The radio interrupts, or the beacon timer fires in the timer task (priority 2).
Signal(t) ==
    /\ loc[t] = "wait" /\ t \notin received
    /\ \/ t = "TRANSCEIVER"
       \/ t = "BEACON" /\ ~ObcReady /\ \A u \in Tasks : Ready(u) => Priority(u) <= 2
    /\ received' = received \union {t}
    /\ UNCHANGED <<obcVars, loc, left, bits, paused, seen, acks, healthVars, reqs, flash,
                   commanded>>

\* The transceiver transmits, in saw_send or on its own, or serves a downlink
\* session.  Both block on its notification, clear only the radio bit, and leave
\* the bits of the pause protocol set: only a notification after the last of these
\* waits is still seen as received.
StartExchange(t) ==
    /\ t = "TRANSCEIVER" /\ MayRun(t) /\ loc[t] = "body"
    /\ Block(t, "radio", MaxExchange)
    /\ UNCHANGED <<obcVars, bits, received, paused, seen, acks, healthVars, reqs, flash,
                   commanded>>

\* arq_run_dl kicks before each block and each wait, saw_send never does.
KickInSession(t) ==
    /\ t = "TRANSCEIVER"
    /\ \/ loc[t] = "body" /\ MayRun(t)
       \/ loc[t] = "session" /\ HasCpu(t)
    /\ Block(t, "session", MaxExchange)
    /\ kicked' = kicked \union {t}
    /\ UNCHANGED <<obcVars, bits, received, paused, seen, acks, expected, sinceCheck, iwdg,
                   faulty, reqs, flash, commanded>>

EndExchange(t) ==
    /\ loc[t] \in {"radio", "session"} /\ HasCpu(t)
    /\ Goto(t, "body")
    /\ \E lost \in SUBSET {t} : received' = received \ lost
    /\ UNCHANGED <<obcVars, bits, paused, seen, acks, healthVars, reqs, flash,
                   commanded>>

-----------------------------------------------------------------------------
(* Time and the watchdog *)

\* A second passes: nobody is left to run but a paused poller, and every timeout
\* of this second has expired.
Tick ==
    /\ ~ObcReady /\ ~ObcExpired
    /\ \A t \in Tasks : /\ MayRun(t) => Spinning(t)
                        /\ Timed(t) => left[t] > 0 \/ Starved(t)
    /\ iwdg < WatchdogTimeout
    /\ left' = [t \in Tasks |-> IF Timed(t) /\ left[t] > 0 THEN left[t] - 1 ELSE left[t]]
    /\ obcLeft' = IF ObcTimed THEN obcLeft - 1 ELSE obcLeft
    /\ sinceCheck' = IF sinceCheck < HealthPeriod THEN sinceCheck + 1 ELSE sinceCheck
    /\ iwdg' = iwdg + 1
    /\ UNCHANGED <<obc, obcBits, state, target, clock, periph, loc, bits, received, paused,
                   seen, acks, expected, kicked, faulty, reqs, flash, commanded>>

\* The watchdog bites: main restores the state from flash.
Reboot ==
    /\ iwdg = WatchdogTimeout
    /\ obc' = "boot" /\ obcBits' = {} /\ obcLeft' = 0
    /\ state' = flash.cur /\ target' = flash.cur
    /\ clock' = FreqFor(flash.cur) /\ periph' = FreqFor(flash.cur)
    /\ loc' = [t \in Tasks |-> "top"] /\ left' = [t \in Tasks |-> 0]
    /\ bits' = [t \in Tasks |-> {}] /\ received' = {}
    /\ paused' = [t \in Tasks |-> FALSE]
    /\ seen' = [t \in Tasks |-> {}] /\ acks' = {}
    /\ reqs' = <<>>
    /\ expected' = {} /\ kicked' = {} /\ sinceCheck' = 0 /\ iwdg' = 0 /\ faulty' = {}
    /\ UNCHANGED <<flash, commanded>>

-----------------------------------------------------------------------------

ObcStep == \/ ObcBoot \/ ObcChangeState \/ ObcIdle \/ ObcPause
           \/ ObcSwitchAndResume \/ ObcEnterState \/ ObcCheck

TaskStep(t) == \/ ReadNotifications(t) \/ FinishPause(t) \/ FinishResume(t)
               \/ EndLoop(t) \/ Submit(t) \/ StartExchange(t) \/ KickInSession(t)
               \/ EndExchange(t) \/ Expire(t) \/ Signal(t)

Next == \/ ObcStep
        \/ \E t \in Tasks : TaskStep(t)
        \/ Serve
        \/ \E s \in Commands : ReceiveCommand(s)
        \/ ReceiveFrame
        \/ Tick
        \/ Reboot

Spec == Init /\ [][Next]_vars

\* The kernel runs a ready task that no task of a higher priority keeps from the
\* processor, a loop body ends whatever it is interrupted by, and time passes.
Fairness ==
    /\ WF_vars(ObcStep) /\ WF_vars(Serve) /\ WF_vars(Reboot) /\ SF_vars(Tick)
    /\ \A t \in Tasks : /\ WF_vars(ReadNotifications(t))
                        /\ WF_vars(FinishPause(t)) /\ WF_vars(FinishResume(t))
                        /\ WF_vars(Expire(t)) /\ SF_vars(EndLoop(t))

FairSpec == Spec /\ Fairness

-----------------------------------------------------------------------------
(* Properties *)

\* Type invariant.
TypeOK ==
    /\ obc \in ObcPoints
    /\ obcBits \subseteq Commands \union {"OTHER"} /\ obcLeft \in Nat
    /\ state \in States /\ target \in States
    /\ clock \in Frequencies /\ periph \in Frequencies
    /\ loc \in [Tasks -> Locations]
    /\ left \in [Tasks -> Nat]
    /\ bits \in [Tasks -> SUBSET {"PAUSE", "RESUME"}]
    /\ received \subseteq Tasks
    /\ paused \in [Tasks -> BOOLEAN]
    /\ seen \in [Tasks -> SUBSET Tasks]
    /\ acks \subseteq Tasks
    /\ reqs \in Seq(Requests)
    /\ flash \in [cur : States, prev : States]
    /\ expected \subseteq Tasks /\ kicked \subseteq Tasks
    /\ sinceCheck \in 0..HealthPeriod /\ iwdg \in 0..WatchdogTimeout
    /\ faulty \subseteq Tasks
    /\ commanded \in 0..MaxCommands

\* A paused task does no work: between the PAUSE it took and the RESUME it takes
\* it is in no loop body, no radio exchange and no flash request, whatever resets,
\* timeouts and late notifications happen (the early return of every task after
\* tm_check_pause, task_management.c).
PausedDoesNoWork ==
    \A t \in Tasks : paused[t] => loc[t] \in {"top", "pause", "wait"}

\* An acknowledgement counted for a PAUSE comes from a task that is paused, not
\* from an older answer of it (the event group is cleared before the notification,
\* notify_and_wait in task_management.c).
AckedPauseIsPaused ==
    [][obc = "pausing" /\ obc' = "resuming" =>
         \A t \in TasksFor(state) \intersect acks : paused[t]]_vars

\* The state bytes in flash are such that a reset at any moment of a transition
\* boots in the state being left or in the one being entered (the two
\* OBDH_Write_Request of change_state, state_machine.c).
StatePersisted ==
    /\ flash.cur = IF obc = "saveCur" THEN flash.prev ELSE state
    /\ obc \in {"pause", "pausing", "resuming"} => flash.prev = state

\* OBDH never serves a request whose client was deleted in the meantime and whose
\* buffer is gone with its stack (the reason obdh_submit_request gives for its wait
\* without a timeout, flash.c).
NoAbandonedRequest == \A i \in DOMAIN reqs : reqs[i].live

\* With no transition commanded, every task but a transceiver kept in radio
\* exchanges kicks in every health period (the waits of the task loops against the
\* 5 s of health_config; beacon.h asks for it).
QuietNeverFaults == commanded = 0 => faulty \subseteq {"TRANSCEIVER"}

\* The flash queue of 10 never holds more than two requests, so HAL_BUSY, which no
\* caller handles, is never returned: OBDH outranks every client but OBC.
AtMostTwoQueued == Len(reqs) <= 2

\* A task is blocked in obdh_submit_request exactly while its request is queued:
\* no lost wake-up, and no request left behind by a client that went on.
OneRequestPerBlockedClient ==
    \A t \in Tasks : loc[t] = "flash" <=> \E i \in DOMAIN reqs : reqs[i].client = t /\ reqs[i].live

\* The watchdog resets the system only after a health period in which a task did
\* not kick: the blocking calls of OBC itself, two acknowledgement timeouts and two
\* flash writes of a transition included, never keep it from a check for so long.
WatchdogNeedsFault == iwdg = WatchdogTimeout => faulty # {}

\* A telecommanded transition takes effect: the state commanded is in flash before
\* a watchdog reset can undo it.
CommandTakesEffect == \A s \in Commands : s \in obcBits ~> flash.cur = s

\* A paused COMMS, which neither receives telecommands nor lets a task of a lower
\* priority run, is not paused for ever: a resume or the watchdog ends it.
CommandLinkReturns == paused["COMMS"] ~> ~paused["COMMS"]

\* What state_machine.c:97-99 says of change_state: it resumes the tasks of the new
\* state.  The code does not keep this.
TransitionResumesTasks ==
    obc = "idle" => \A t \in TasksFor(state) : paused[t] => "RESUME" \in bits[t]

\* What task_management.c:151 and 164 say of tm_check_pause: a task that is paused
\* is excluded from health monitoring and one that is resumed re-included.  The code
\* does not keep this: two tasks update the expected set at a time.
MonitoredAreRunning ==
    obc # "boot" /\ (\A t \in Tasks : loc[t] \notin {"pause", "resume"}) =>
        expected = {t \in Tasks : ~paused[t]}

=============================================================================
