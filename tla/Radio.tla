------------------------------- MODULE Radio --------------------------------
(***************************************************************************)
(* TRANSCEIVER and the radio: how its loop (transceiver.c), stop-and-wait  *)
(* (saw.c) and channel scans (cad.c) drive the chip of Sx1262, step by     *)
(* step, while frames arrive, a transmission ends, COMMS and BEACON queue  *)
(* frames and the OBC pauses the task.  What frames say is left to Link.   *)
(* The waits of arq_run_dl are made like those of saw_send.                *)
(***************************************************************************)
EXTENDS Sx1262, Sequences, FiniteSets

CONSTANTS LinksUsed,    \* the configurations the radio may be set to
          Queued,       \* what COMMS and BEACON queue: needs_ack of each frame, in order
          MaxArrivals,  \* bound: frames received by the chip
          MaxPauses     \* bound: pauses

ASSUME QueuedAssumption == Queued \in Seq(BOOLEAN)
ASSUME ArrivalsAssumption == MaxArrivals \in Nat /\ MaxPauses \in Nat

VARIABLES
    pc,         \* where TRANSCEIVER is
    then,       \* where it goes on when a transmission is over
    exchange,   \* it is in saw_send
    taken,      \* the flags it got
    hand, out,  \* the frame it received, the frame it sends
    drain,      \* the notification it took has TX_READY
    tries,      \* attempts of cad_precheck or of saw_send
    paused,     \* entry->paused
    txq,        \* tx_queue
    arrivals, queued, pauses,  \* counters of the bounds
    disturbed,  \* history: notified by another task since it discarded notifications
    readyLost,  \* history: a TX_READY was taken while it was paused
    delivered   \* history: what was put into rx_queue, in order

software == <<pc, then, exchange, taken, hand, out, drain, tries, paused>>
others == <<txq, arrivals, queued, pauses>>
history == <<disturbed, readyLost, delivered>>
config == <<link, callback>>
rvars == <<chip, line, config, software, others, history>>

-----------------------------------------------------------------------------
(* Frames *)

QueueLength == 2      \* COMMS_QUEUE_LEN
CadMaxAttempts == 4   \* CAD_MAX_ATTEMPTS
SawMaxRetx == 3       \* SAW_MAX_RETX

\* What a frame is for TRANSCEIVER: a command to acknowledge, one it has acknowledged
\* before, the answer to an exchange, or anything else.
Kinds == {"command", "repeat", "answer", "other"}

Ack == [bytes |-> 16, needsAck |-> FALSE]
Frame(n) == [bytes |-> FrameMax, needsAck |-> Queued[n]]

\* transceiver_task before its loop: RadioLib_Init, the configuration, RadioLib_SetIrqTask and
\* RadioLib_StartReceive
Init ==
    /\ link \in LinksUsed
    /\ mode = (IF ReceiveMode = "fails" THEN "standby" ELSE ReceiveMode)
    /\ exit = "standby" /\ irq = {} /\ mask = {"RX_DONE"} /\ buffer = NoFrame /\ air = NoFrame
    /\ callback = "radioIrq" /\ latched = FALSE
    /\ bits = {} /\ pending = FALSE /\ semaphore = FALSE
    /\ pc = "wait" /\ then = "rearm" /\ exchange = FALSE /\ taken = {}
    /\ hand = NoFrame /\ out = NoFrame /\ drain = FALSE /\ tries = 0 /\ paused = FALSE
    /\ txq = <<>> /\ arrivals = 0 /\ queued = 0 /\ pauses = 0
    /\ disturbed = FALSE /\ readyLost = FALSE /\ delivered = <<>>

-----------------------------------------------------------------------------
(* The chip, and the other tasks *)

Arrive ==
    /\ arrivals < MaxArrivals /\ arrivals' = arrivals + 1
    /\ \E damaged \in BOOLEAN :
          Receives([number |-> arrivals + 1, damaged |-> damaged])
    /\ UNCHANGED <<config, software, txq, queued, pauses, history>>

ChipStep == (Transmitted \/ Scanned \/ HearsNothing)
            /\ UNCHANGED <<config, software, others, history>>

Notify(bit) == /\ bits' = bits \union {bit} /\ pending' = TRUE /\ disturbed' = TRUE
               /\ UNCHANGED <<latched, semaphore, chip, config, software,
                              readyLost, delivered>>

\* Nothing is queued, nor notified, when the queue is full.
Enqueue ==
    /\ queued < Len(Queued) /\ queued' = queued + 1
    /\ Len(txq) < QueueLength /\ txq' = Append(txq, Frame(queued + 1))
    /\ Notify("TX_READY") /\ UNCHANGED <<arrivals, pauses>>

\* The OBC resumes a task that acknowledged its pause.
Pause == /\ pauses < MaxPauses /\ pauses' = pauses + 1 /\ ~paused
         /\ Notify("PAUSE") /\ UNCHANGED <<txq, arrivals, queued>>
Resume == paused /\ "RESUME" \notin bits /\ Notify("RESUME") /\ UNCHANGED others

-----------------------------------------------------------------------------
(* The loop *)

AfterReceive(d) == pc' = IF d THEN "drain" ELSE "rearm"

\* The wait of the loop ends with a notification, or after a second: then what is left of
\* earlier notifications is seen, and stays.
Wait ==
    /\ pc = "wait"
    /\ IF pending THEN bits' = {} ELSE UNCHANGED bits
    /\ pending' = FALSE
    /\ IF \/ paused /\ "RESUME" \notin bits
          \/ ~paused /\ "PAUSE" \in bits
       THEN /\ paused' = TRUE /\ readyLost' = (readyLost \/ (pending /\ "TX_READY" \in bits))
            /\ UNCHANGED <<pc, drain>>
       ELSE /\ paused' = FALSE /\ drain' = ("TX_READY" \in bits) /\ UNCHANGED readyLost
            /\ IF "RADIO_IRQ" \in bits THEN pc' = "flags" ELSE AfterReceive(drain')
    /\ UNCHANGED <<chip, config, latched, semaphore, then, exchange, taken, hand, out, tries,
                   others, disturbed, delivered>>

GetIrqFlags ==
    /\ pc = "flags" /\ taken' = irq /\ pc' = "clear"
    /\ UNCHANGED <<chip, line, config, then, exchange, hand, out, drain, tries, paused, others, history>>

\* Wrong variant: an interrupt is taken for a reception.
ClearFlagsOfReception ==
    /\ pc = "clear" /\ ClearIrqFlags(irq) /\ pc' = "read"
    /\ UNCHANGED <<line, config, then, exchange, taken, hand, out, drain, tries, paused, others, history>>

\* All flags are cleared before the frame is read, that of a bad checksum among them.
ClearFlags ==
    /\ pc = "clear" /\ ClearIrqFlags(irq)
    /\ IF "RX_DONE" \in taken THEN pc' = "read"
       ELSE IF exchange THEN pc' = "listen" ELSE AfterReceive(drain)
    /\ UNCHANGED <<line, config, then, exchange, taken, hand, out, drain, tries, paused, others, history>>

Deliver(f) == delivered' = Append(delivered, f)

\* What the loop does with a frame of some kind: a repeated command is acknowledged and
\* ends here, an answer too; a command is acknowledged and passed on; the rest passed on.
LoopTakes(kind) ==
    CASE kind \in {"command", "repeat"} ->
             /\ out' = Ack /\ pc' = "standby" /\ then' = (IF kind = "command" THEN "forward" ELSE "again")
             /\ UNCHANGED delivered
      [] kind = "answer" -> AfterReceive(drain) /\ UNCHANGED <<out, then, delivered>>
      [] kind = "other" -> AfterReceive(drain) /\ Deliver(buffer) /\ UNCHANGED <<out, then>>

\* saw_send ends with the answer, and passes on anything else.
ExchangeTakes(kind) ==
    IF kind = "answer" THEN pc' = "drain" /\ exchange' = FALSE /\ UNCHANGED delivered
    ELSE pc' = "relisten" /\ Deliver(buffer) /\ UNCHANGED exchange

\* A frame that fails its checksum, or does not decode, is dropped.
Drops == IF exchange THEN pc' = "relisten" ELSE AfterReceive(drain)

Read ==
    /\ pc = "read" /\ ReadRxData /\ hand' = buffer
    /\ IF ChecksumFails \/ buffer = NoFrame
       THEN Drops /\ UNCHANGED <<exchange, out, then, delivered>>
       ELSE \/ /\ buffer.damaged /\ Drops /\ UNCHANGED <<exchange, out, then, delivered>>
            \/ \E kind \in Kinds :
                  IF exchange THEN ExchangeTakes(kind) /\ UNCHANGED <<out, then>>
                  ELSE LoopTakes(kind) /\ UNCHANGED exchange
    /\ UNCHANGED <<line, config, taken, drain, tries, paused, others, disturbed, readyLost>>

\* The end of the loop: lora_cfg_tick may change the configuration, from standby; then
\* the radio listens.
Rearm ==
    /\ \/ pc \in {"rearm", "arm"} /\ pc' = "wait" /\ StartReceive /\ UNCHANGED link
       \/ pc = "rearm" /\ pc' = "arm" /\ Standby /\ link' \in LinksUsed \ {link}
    /\ UNCHANGED <<line, callback, then, exchange, taken, hand, out, drain, tries, paused, others, history>>

-----------------------------------------------------------------------------
(* Transmission: transmit_and_wait, and the same steps in saw_send and arq_tx_raw *)

\* Wrong variant: the notification of an earlier scan is not discarded.
DiscardStaleNot ==
    /\ pc = "standby" /\ pc' = "start" /\ Standby /\ disturbed' = FALSE
    /\ UNCHANGED <<line, config, then, exchange, taken, hand, out, drain, tries, paused, others, readyLost,
                   delivered>>

\* RadioLib_Standby, and xTaskNotifyStateClear, which leaves the bits.
DiscardStale ==
    /\ pc = "standby" /\ pc' = "start" /\ Standby
    /\ pending' = FALSE /\ disturbed' = FALSE
    /\ UNCHANGED <<bits, latched, semaphore, config, then, exchange, taken, hand, out, drain,
                   tries, paused, others, readyLost, delivered>>

Start ==
    /\ pc = "start" /\ pc' = "txwait" /\ StartTransmit(out)
    /\ UNCHANGED <<line, config, then, exchange, taken, hand, out, drain, tries, paused, others, history>>

\* The wait for TX_DONE ends with any notification.
TxWait ==
    /\ pc = "txwait" /\ pc' = "txclear"
    /\ \/ pending /\ pending' = FALSE /\ bits' = bits \ {"RADIO_IRQ"}
       \/ ~pending /\ Slow(out.bytes) /\ UNCHANGED <<pending, bits>>
    /\ UNCHANGED <<chip, config, latched, semaphore, then, exchange, taken, hand, out, drain, tries,
                   paused, others, history>>

TxClear ==
    /\ pc = "txclear" /\ pc' = then /\ ClearIrqFlags(irq)
    /\ UNCHANGED <<line, config, then, exchange, taken, hand, out, drain, tries, paused, others, history>>

\* The command that was acknowledged is passed on.
Forward ==
    /\ pc = "forward" /\ Deliver(hand) /\ AfterReceive(drain)
    /\ UNCHANGED <<chip, line, config, then, exchange, taken, hand, out, drain, tries, paused,
                   others, disturbed, readyLost>>

\* Wrong variant: after a repeated command the queue is not looked at.
RelistenSkipsQueue ==
    /\ pc \in {"again", "relisten"} /\ StartReceive
    /\ pc' = IF pc = "again" THEN "rearm" ELSE "listen"
    /\ UNCHANGED <<line, config, then, exchange, taken, hand, out, drain, tries, paused, others, history>>

\* RadioLib_StartReceive after the acknowledgement of a repeated command, and in saw_send
Relisten ==
    /\ pc \in {"again", "relisten"} /\ StartReceive
    /\ IF pc = "again" THEN AfterReceive(drain) ELSE pc' = "listen"
    /\ UNCHANGED <<line, config, then, exchange, taken, hand, out, drain, tries, paused, others, history>>

-----------------------------------------------------------------------------
(* The frames of tx_queue *)

DrainNext ==
    /\ pc = "drain" /\ tries' = 0
    /\ IF txq = <<>> THEN pc' = "rearm" /\ UNCHANGED <<txq, out>>
       ELSE pc' = "cad" /\ txq' = Tail(txq) /\ out' = Head(txq)
    /\ UNCHANGED <<chip, line, config, then, exchange, taken, hand, drain, paused,
                   arrivals, queued, pauses, history>>

ScanChannel ==
    /\ pc = "cad" /\ StartScan("standby", CadFlags) /\ pc' = "scan"
    /\ UNCHANGED <<line, config, then, exchange, taken, hand, out, drain, tries, paused, others, history>>

\* cad_precheck: a free channel, or another attempt, or the frame is given up.
ScanResult ==
    /\ pc = "scan" /\ Dio1
    /\ IF "CAD_DETECTED" \notin irq
       THEN /\ pc' = "standby" /\ tries' = 0
            /\ exchange' = out.needsAck /\ then' = (IF out.needsAck THEN "relisten" ELSE "drain")
       ELSE /\ tries' = tries + 1 /\ UNCHANGED <<exchange, then>>
            /\ pc' = IF tries + 1 < CadMaxAttempts THEN "cad" ELSE "drain"
    /\ UNCHANGED <<chip, line, config, taken, hand, out, drain, paused, others, history>>

\* The wait of saw_send for its answer: a notification without RADIO_IRQ changes nothing.
Listen ==
    /\ pc = "listen" /\ pending /\ pending' = FALSE /\ bits' = bits \ {"RADIO_IRQ"}
    /\ pc' = IF "RADIO_IRQ" \in bits THEN "flags" ELSE "listen"
    /\ UNCHANGED <<chip, config, latched, semaphore, then, exchange, taken, hand, out, drain, tries,
                   paused, others, history>>

ListenTimeout ==
    /\ pc = "listen"
    /\ IF tries < SawMaxRetx
       THEN tries' = tries + 1 /\ pc' = "standby" /\ UNCHANGED exchange
       ELSE tries' = 0 /\ pc' = "drain" /\ exchange' = FALSE
    /\ UNCHANGED <<chip, line, config, then, taken, hand, out, drain, paused, others, history>>

-----------------------------------------------------------------------------

Loop == Wait \/ GetIrqFlags \/ ClearFlags \/ Read \/ Forward \/ Rearm
Transmission == DiscardStale \/ Start \/ TxWait \/ TxClear \/ Relisten
Draining == DrainNext \/ ScanChannel \/ ScanResult \/ Listen \/ ListenTimeout
Transceiver == Loop \/ Transmission \/ Draining

Next == Transceiver \/ Arrive \/ ChipStep \/ Enqueue \/ Pause \/ Resume

Spec == Init /\ [][Next]_rvars

\* The task is scheduled, the chip ends what it does, and the OBC resumes what it paused.
FairSpec == Spec /\ WF_rvars(Transceiver) /\ WF_rvars(ChipStep) /\ WF_rvars(Resume)

-----------------------------------------------------------------------------
(* Properties *)

\* Type invariant.
TypeOK ==
    /\ mode \in {"standby", "tx", "cad", "rx", "dutyRx", "cadRx"}
    /\ bits \subseteq {"RADIO_IRQ", "TX_READY", "PAUSE", "RESUME"}
    /\ pending \in BOOLEAN /\ irq \subseteq CadFlags \union {"RX_DONE", "TX_DONE", "CRC_ERR", "TIMEOUT"}
    /\ tries \in 0..CadMaxAttempts /\ Len(txq) <= QueueLength
    /\ exchange => pc \notin {"wait", "drain", "rearm", "cad", "scan", "forward", "again"}

\* Whatever way TRANSCEIVER came back to the wait of its loop, the radio listens and the next
\* frame will raise its line, or a frame has arrived and is notified; only a configuration
\* whose preamble the driver refuses leaves it deaf (transceiver.c:183).
NeverDeaf ==
    pc = "wait" /\ ~paused /\ ReceiveMode # "fails" =>
        \/ mode \in {"rx", "dutyRx"} /\ mask = {"RX_DONE"} /\ ~Dio1
        \/ "RX_DONE" \in irq /\ pending /\ "RADIO_IRQ" \in bits

\* A transmission is cut off only when another task notified TRANSCEIVER since it discarded
\* what was stale, or when the frame takes longer than the wait for TX_DONE: a flag
\* of an earlier channel scan never ends it (transmit_and_wait, transceiver.c:32).
CutOnlyByOthers ==
    [][mode = "tx" /\ mode' # "tx" /\ "TX_DONE" \notin irq' => disturbed \/ Slow(air.bytes)]_rvars

\* A frame the chip received is passed on to COMMS at most once, although flags, bits and
\* the buffer outlive the wait they were made for.
PassedOnOnce == \A i, j \in DOMAIN delivered : i # j => delivered[i].number # delivered[j].number

\* What is queued is sent or given up, unless the notification was taken while paused.
QueueIsServed == txq # <<>> ~> (txq = <<>> \/ readyLost)

\* RadioLib_StartTransmit asks its callers to wait for TX_DONE before they start again
\* (radiolib_wrapper.h:191).
WaitsForTxDone == [][mode = "tx" /\ mode' # "tx" => "TX_DONE" \in irq']_rvars

=============================================================================
