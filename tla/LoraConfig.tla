----------------------------- MODULE LoraConfig -----------------------------
(***************************************************************************)
(* Reconfiguration of the LoRa link in flight (lora_cfg.c): a two-phase    *)
(* commit with auto-revert.  COMMS stages a candidate that a telecommand   *)
(* carries, TRANSCEIVER swaps it in when its time has come and swaps it    *)
(* out again if no valid frame arrives on it in time.  The two tasks have  *)
(* the same priority and take no lock: s_state alone says whose turn it    *)
(* is, and a structure is copied in parts, between which the other runs.   *)
(*                                                                         *)
(* A configuration is abstracted to the parameters of the link, one value, *)
(* and its two times in seconds.                                           *)
(***************************************************************************)
EXTENDS Naturals, Sequences

CONSTANTS Links,        \* link parameters the ground station may command
          Invalid,      \* those of them that validate() rejects
          Offered,      \* the configurations it sends
          MaxTime,      \* bound: the last second of the clock
          MaxSent,      \* bound: configuration telecommands per behaviour
          MaxClockSets, \* bound: TC_UPLOAD_UNIX_TIME per behaviour
          MaxResets     \* bound: task resets per behaviour

ASSUME OfferedAssumption ==
    Offered \subseteq [link : Links, commitAt : 0..MaxTime, grace : Nat]
ASSUME BoundsAssumption ==
    MaxTime \in Nat /\ MaxSent \in Nat /\ MaxClockSets \in Nat /\ MaxResets \in Nat

VARIABLES
    slot,       \* s_state
    committed,  \* s_committed
    candidate,  \* s_candidate
    previous,   \* s_previous
    deadline,   \* s_revert_deadline_unix
    radio,      \* link parameters the radio is set to
    comms,      \* control point of COMMS in lora_cfg_request
    request,    \* the configuration COMMS has in hand
    rxq,        \* configuration telecommands in rx_queue
    deaf,       \* TRANSCEIVER forwards to a queue COMMS does not read any more
    trx,        \* control point of TRANSCEIVER
    sampled,    \* time_get_unix() as lora_cfg_tick read it, 0 outside of it
    now,        \* the clock
    asked,      \* history: configurations that reached COMMS
    heard,      \* history: links on which a valid frame was decoded
    sent, clockSets, resets  \* counters of the bounds

slots == <<slot, committed, candidate, previous, deadline, radio>>
tasks == <<comms, request, rxq, deaf, trx, sampled>>
environment == <<now, asked, heard, sent, clockSets, resets>>
vars == <<slots, tasks, environment>>

-----------------------------------------------------------------------------
(* Configurations *)

\* What lora_cfg_init commits, and what transceiver_task sets the radio to after
\* calling it: lora_cfg.c says they match, and they differ in the spreading factor.
BootConfig == [link |-> "SF10", commitAt |-> 0, grace |-> 0]
TransceiverDefault == "SF8"

QueueLength == 2        \* COMMS_QUEUE_LEN

AllLinks == Links \union {BootConfig.link, TransceiverDefault}
Configs == [link : AllLinks, commitAt : 0..MaxTime, grace : Nat]

Init ==
    /\ slot = "IDLE"
    /\ committed = BootConfig /\ candidate = BootConfig /\ previous = BootConfig
    /\ deadline = 0 /\ radio = TransceiverDefault
    /\ comms = "idle" /\ request = BootConfig /\ rxq = <<>> /\ deaf = FALSE
    /\ trx = "wait" /\ sampled = 0 /\ now = 0
    /\ asked = {} /\ heard = {} /\ sent = 0 /\ clockSets = 0 /\ resets = 0

-----------------------------------------------------------------------------
(* COMMS *)

\* tc_process takes a TC_LORA_CONFIG and parses it.
CommsTake ==
    /\ comms = "idle" /\ rxq # <<>>
    /\ request' = Head(rxq) /\ rxq' = Tail(rxq)
    /\ asked' = asked \union {Head(rxq)}
    /\ comms' = "check"
    /\ UNCHANGED <<slots, deaf, trx, sampled, now, heard, sent, clockSets, resets>>

\* Wrong variant: a candidate that is still pending is overwritten.
CommsCheckNotBusy ==
    /\ comms = "check"
    /\ comms' = IF request.link \in Invalid THEN "idle" ELSE "write"
    /\ UNCHANGED <<slots, request, rxq, deaf, trx, sampled, environment>>

\* lora_cfg_parse and lora_cfg_request: a NACK if a field is out of range or the
\* slot is taken.
CommsCheck ==
    /\ comms = "check"
    /\ comms' = IF request.link \in Invalid \/ slot # "IDLE" THEN "idle" ELSE "write"
    /\ UNCHANGED <<slots, request, rxq, deaf, trx, sampled, environment>>

\* s_candidate = *cfg, in two parts.
CommsWriteLink ==
    /\ comms = "write"
    /\ candidate' = [candidate EXCEPT !.link = request.link]
    /\ comms' = "writing"
    /\ UNCHANGED <<slot, committed, previous, deadline, radio, request, rxq, deaf, trx,
                   sampled, environment>>

CommsWriteTimes ==
    /\ comms = "writing"
    /\ candidate' = [request EXCEPT !.link = candidate.link]
    /\ comms' = "publish"
    /\ UNCHANGED <<slot, committed, previous, deadline, radio, request, rxq, deaf, trx,
                   sampled, environment>>

\* s_state = SLOT_STATE_PENDING_COMMIT
CommsPublish ==
    /\ comms = "publish"
    /\ slot' = "PENDING_COMMIT"
    /\ comms' = "idle"
    /\ UNCHANGED <<committed, candidate, previous, deadline, radio, request, rxq, deaf, trx,
                   sampled, environment>>

\* TC_UPLOAD_UNIX_TIME sets the clock, to any time.
CommsSetClock ==
    /\ comms = "idle" /\ clockSets < MaxClockSets
    /\ now' \in 0..MaxTime
    /\ clockSets' = clockSets + 1
    /\ UNCHANGED <<slots, tasks, asked, heard, sent, resets>>

-----------------------------------------------------------------------------
(* TRANSCEIVER *)

\* lora_cfg_notify_rx
Disarm == slot' = IF slot = "PENDING_REVERT" THEN "IDLE" ELSE slot

\* xQueueSend without waiting: a frame for a full queue is dropped.
Forward(c) == rxq' = IF deaf \/ Len(rxq) = QueueLength THEN rxq ELSE Append(rxq, c)

\* A valid frame arrives while the main loop listens.
ReceiveFrame ==
    /\ trx = "wait"
    /\ heard' = heard \union {radio}
    /\ Disarm
    /\ trx' = "tx"
    /\ \/ /\ sent < MaxSent /\ sent' = sent + 1
          /\ \E c \in Offered : Forward(c)
       \/ UNCHANGED <<sent, rxq>>
    /\ UNCHANGED <<committed, candidate, previous, deadline, radio, comms, request, deaf,
                   sampled, now, asked, clockSets, resets>>

\* A valid frame arrives while saw_send waits for its ACK: it is forwarded, and
\* lora_cfg_notify_rx is not called.
ReceiveInExchange ==
    /\ trx \in {"wait", "tx"}
    /\ heard' = heard \union {radio}
    /\ trx' = "tx"
    /\ \/ /\ sent < MaxSent /\ sent' = sent + 1
          /\ \E c \in Offered : Forward(c)
       \/ UNCHANGED <<sent, rxq>>
    /\ UNCHANGED <<slots, comms, request, deaf, sampled, now, asked, clockSets, resets>>

CommitDue == candidate.commitAt = 0 \/ now >= candidate.commitAt

\* lora_cfg_tick with nothing to do.
TickIdle ==
    /\ trx \in {"wait", "tx"}
    /\ \/ slot = "IDLE"
       \/ slot = "PENDING_COMMIT" /\ ~CommitDue
       \/ slot = "PENDING_REVERT" /\ now < deadline
    /\ trx' = "wait"
    /\ UNCHANGED <<slots, comms, request, rxq, deaf, sampled, environment>>

\* lora_cfg_tick when the candidate is due: s_previous = s_committed, and the
\* first part of s_committed = s_candidate.
TickCommit ==
    /\ trx \in {"wait", "tx"} /\ slot = "PENDING_COMMIT" /\ CommitDue
    /\ previous' = committed
    /\ committed' = [committed EXCEPT !.link = candidate.link]
    /\ sampled' = now
    /\ trx' = "copy"
    /\ UNCHANGED <<slot, candidate, deadline, radio, comms, request, rxq, deaf, environment>>

\* Its second part.
TickCopyTimes ==
    /\ trx = "copy"
    /\ committed' = [candidate EXCEPT !.link = committed.link]
    /\ trx' = "apply"
    /\ UNCHANGED <<slot, candidate, previous, deadline, radio, comms, request, rxq, deaf,
                   sampled, environment>>

\* Wrong variant: the slot is released before the new link proved itself.
TickApplyReleases ==
    /\ trx = "apply"
    /\ radio' = committed.link
    /\ slot' = "IDLE" /\ UNCHANGED deadline
    /\ trx' = "wait" /\ sampled' = 0
    /\ UNCHANGED <<committed, candidate, previous, comms, request, rxq, deaf, environment>>

\* apply_to_radio, and the revert timer armed if the configuration asks for one.
TickApply ==
    /\ trx = "apply"
    /\ radio' = committed.link
    /\ IF committed.grace > 0
       THEN slot' = "PENDING_REVERT" /\ deadline' = sampled + committed.grace
       ELSE slot' = "IDLE" /\ UNCHANGED deadline
    /\ trx' = "wait" /\ sampled' = 0
    /\ UNCHANGED <<committed, candidate, previous, comms, request, rxq, deaf, environment>>

\* Wrong variant: the slot stays taken after a revert.
TickRevertStays ==
    /\ trx \in {"wait", "tx"} /\ slot = "PENDING_REVERT" /\ now >= deadline
    /\ committed' = previous /\ previous' = committed
    /\ radio' = previous.link
    /\ trx' = "wait"
    /\ UNCHANGED <<slot, candidate, deadline, comms, request, rxq, deaf, sampled,
                   environment>>

\* lora_cfg_tick when the revert timer has run out.
TickRevert ==
    /\ trx \in {"wait", "tx"} /\ slot = "PENDING_REVERT" /\ now >= deadline
    /\ committed' = previous /\ previous' = committed
    /\ radio' = previous.link
    /\ slot' = "IDLE"
    /\ trx' = "wait"
    /\ UNCHANGED <<candidate, deadline, comms, request, rxq, deaf, sampled, environment>>

\* transceiver_task begins: it takes the handles of the queues, lora_cfg_init
\* restores the boot configuration, the radio gets its own defaults.
TransceiverStart ==
    /\ trx = "start"
    /\ committed' = BootConfig /\ previous' = BootConfig /\ slot' = "IDLE"
    /\ radio' = TransceiverDefault
    /\ deaf' = FALSE /\ trx' = "wait"
    /\ UNCHANGED <<candidate, deadline, comms, request, rxq, sampled, environment>>

-----------------------------------------------------------------------------
(* Task resets by the health check, and time *)

ResetTransceiver ==
    /\ resets < MaxResets /\ resets' = resets + 1
    /\ trx' = "start"
    /\ UNCHANGED <<slots, comms, request, rxq, deaf, sampled, now, asked, heard, sent,
                   clockSets>>

\* The new comms_task creates new queues, and TRANSCEIVER still uses the old ones.
ResetComms ==
    /\ resets < MaxResets /\ resets' = resets + 1
    /\ comms' = "idle" /\ rxq' = <<>> /\ deaf' = TRUE
    /\ UNCHANGED <<slots, request, trx, sampled, now, asked, heard, sent, clockSets>>

Second ==
    /\ now < MaxTime /\ now' = now + 1
    /\ UNCHANGED <<slots, tasks, asked, heard, sent, clockSets, resets>>

Comms == \/ CommsTake \/ CommsCheck \/ CommsWriteLink \/ CommsWriteTimes \/ CommsPublish
         \/ CommsSetClock

Tick == TickIdle \/ TickCommit \/ TickCopyTimes \/ TickApply \/ TickRevert

Transceiver == ReceiveFrame \/ ReceiveInExchange \/ Tick \/ TransceiverStart

Next == Comms \/ Transceiver \/ ResetTransceiver \/ ResetComms \/ Second

Spec == Init /\ [][Next]_vars

\* Both tasks are scheduled, a loop of TRANSCEIVER ends in lora_cfg_tick, and the
\* clock runs.
Fairness ==
    /\ WF_vars(Tick) /\ WF_vars(TransceiverStart) /\ WF_vars(Second)
    /\ WF_vars(CommsPublish)

FairSpec == Spec /\ Fairness

-----------------------------------------------------------------------------
(* Properties *)

\* Type invariant.
TypeOK ==
    /\ slot \in {"IDLE", "PENDING_COMMIT", "PENDING_REVERT"}
    /\ committed \in Configs /\ candidate \in Configs /\ previous \in Configs
    /\ deadline \in Nat /\ radio \in AllLinks
    /\ comms \in {"idle", "check", "write", "writing", "publish"}
    /\ request \in Configs /\ rxq \in Seq(Offered) /\ Len(rxq) <= QueueLength /\ deaf \in BOOLEAN
    /\ trx \in {"start", "wait", "tx", "copy", "apply"}
    /\ sampled \in 0..MaxTime /\ now \in 0..MaxTime
    /\ asked \subseteq Offered /\ heard \subseteq AllLinks
    /\ sent \in 0..MaxSent /\ clockSets \in 0..MaxClockSets /\ resets \in 0..MaxResets

\* What is committed is the boot configuration or one that a telecommand carried
\* and validate() accepted, never a mixture of two: COMMS and TRANSCEIVER copy the
\* slots without a lock, and only s_state keeps them apart (lora_cfg_request and
\* lora_cfg_tick, lora_cfg.c).
NoTornCommit ==
    trx \notin {"copy", "start"} =>
        committed \in {BootConfig} \union {c \in asked : c.link \notin Invalid}

\* On a link no valid frame was ever decoded on the radio stays only while the
\* revert timer runs, unless the telecommand asked for no revert or the link is a
\* default of the code (lora_cfg_tick and lora_cfg_notify_rx, lora_cfg.c).
UnheardLinkIsTemporary ==
    \/ radio \in heard \union {BootConfig.link, TransceiverDefault}
    \/ slot = "PENDING_REVERT"
    \/ trx \in {"copy", "apply", "start"}
    \/ committed.grace = 0

\* A configuration in progress does not keep the slot, and every later
\* reconfiguration BUSY, for ever (lora_cfg_tick, lora_cfg.c).
SlotIsReleased ==
    /\ slot = "PENDING_COMMIT" ~> slot # "PENDING_COMMIT"
    /\ slot = "PENDING_REVERT" /\ deadline <= MaxTime ~> slot # "PENDING_REVERT"

\* What lora_cfg.h:6-7 says of a revert: it falls back to the working
\* configuration, one the ground station was heard on.  The code does not keep this.
RevertsToWorkingLink ==
    [][slot = "PENDING_REVERT" /\ trx \in {"wait", "tx"} /\ committed' = previous
          /\ radio' # radio => radio' \in heard]_vars

=============================================================================
