-------------------------------- MODULE Link --------------------------------
(***************************************************************************)
(* The link layer: TRANSCEIVER, which receives frames, acknowledges them,  *)
(* passes them to COMMS and sends what COMMS and BEACON queued, some of it *)
(* by stop-and-wait (transceiver.c, saw.c, dedup.c, cad.c); and COMMS,     *)
(* which takes every frame it gets for a telecommand and executes it       *)
(* (tc_process, tc_handler.c).                                             *)
(*                                                                         *)
(* The ground station is not part of the repository: it sends its commands *)
(* one by one, each until it is acknowledged or four times, and            *)
(* acknowledges every telemetry frame.  A frame is lost, or late, within   *)
(* the bounds; when the ground station is out of sight all of them are.    *)
(*                                                                         *)
(* The number of a frame is s_seq++ without a lock, in three tasks of one  *)
(* priority: each loads it in one step and stores it in another, and what  *)
(* the others stored in between is undone.                                 *)
(***************************************************************************)
EXTENDS Naturals, Sequences, Bags, SequencesExt, Timing

CONSTANTS Commands,    \* the tc_ids the ground station sends, in their order
          Reports,     \* the tc_ids that are answered by telemetry
          Known,       \* the tc_ids tc_process knows
          RingSize,    \* DEDUP_SIZE
          Budgets      \* bound: how many frames lost, timeouts before a late answer, breaks
                       \* (resets, contact lost) and beacons a behaviour may have

ASSUME CommandsAssumption == Commands \in Seq(Nat) /\ Reports \subseteq Known /\ Known \subseteq Nat
ASSUME RingAssumption == RingSize \in Nat \ {0}
ASSUME BoundsAssumption == Budgets \subseteq [losses : Nat, late : Nat, breaks : Nat, beacons : Nat]

VARIABLES
    pc,        \* TRANSCEIVER: "loop", "encode" (has loaded the number of an ACK),
               \* "tx" (waits for TX_DONE), "drain" or "listen"
    out,       \* the frame it encodes, transmits or waits for the ACK of
    number,    \* the number it loaded for an ACK
    hand,      \* the frame to be passed on after its ACK; NoFrame if there is none
    drain,     \* the notification it took has TX_READY
    attempt,   \* attempt of saw_send
    woken,     \* it transmits and was notified since it started
    ready,     \* N_TRANSCEIVER_TX_READY_BIT
    dedup,     \* the ring of acknowledged sequence numbers, the oldest first
    seq,       \* s_seq, the number of the next frame
    reply,     \* the frame COMMS encodes, with the number it loaded; NoFrame if none
    beacon,    \* the same for BEACON
    rxq, txq,  \* rx_queue and tx_queue
    executed,  \* history: the frames tc_process executed, a bag
    inExchange,\* history: how often a command was received by saw_send
    overflow,  \* history: the commands dropped by a full rx_queue
    confirmed, \* history: telemetry whose exchange returned SAW_OK
    made,      \* history: how many telemetry frames were made
    setBack,   \* history: a store has lowered s_seq
    up, down,  \* frames on the air, from and to the ground station
    command, tries, waiting,  \* the command the ground station is at
    acked, told,  \* the commands acknowledged, the telemetry received
    contact,   \* the ground station is in sight
    resets,    \* history: resets of TRANSCEIVER
    budget,    \* what this behaviour has of them, a member of Budgets
    losses, late, beacons  \* how many there were; a frame cut off is lost too

transceiver == <<pc, out, number, hand, drain, attempt, dedup>>
counter == <<seq, setBack>>
encoders == <<reply, beacon, made>>
history == <<executed, inExchange, overflow, confirmed>>
station == <<command, tries, waiting, acked, told>>
bounds == <<budget, losses, late, beacons, resets>>
vars == <<transceiver, woken, ready, counter, encoders, rxq, txq, history, up, down, station,
          contact, bounds>>

-----------------------------------------------------------------------------
(* Frames *)

QueueLength == 2   \* COMMS_QUEUE_LEN
SawMaxRetx == 3    \* SAW_MAX_RETX
GroundRetries == 3 \* how often the ground station repeats a command

NoFrame == [type |-> "none"]

Tc(k) == [type |-> "TC", seq |-> k, id |-> Commands[k]]
AckOf(t, n) == [type |-> "ACK", refType |-> t, ref |-> n]
Tm(n, which) == [type |-> "TM", seq |-> n, which |-> which]   \* which: identity, not sent
Nack(n) == [type |-> "NACK", seq |-> n]
Beacon(n) == [type |-> "BEACON", seq |-> n]

\* A frame on its way: only telemetry is answered by its number.
Numbered(f) == IF f.type = "TM" THEN f ELSE [type |-> f.type]

Init ==
    /\ pc = "loop" /\ out = NoFrame /\ number = 0 /\ hand = NoFrame /\ drain = FALSE
    /\ attempt = 0 /\ woken = FALSE /\ ready = FALSE /\ dedup = <<>>
    /\ seq = 0 /\ setBack = FALSE /\ reply = NoFrame /\ beacon = NoFrame /\ made = 0
    /\ rxq = <<>> /\ txq = <<>>
    /\ executed = EmptyBag /\ inExchange = [k \in DOMAIN Commands |-> 0]
    /\ overflow = {} /\ confirmed = {}
    /\ up = <<>> /\ down = <<>> /\ contact = TRUE
    /\ command = 1 /\ tries = 0 /\ waiting = FALSE /\ acked = {} /\ told = {}
    /\ budget \in Budgets /\ losses = 0 /\ late = 0
    /\ beacons = 0 /\ resets = 0

Loss == losses < budget.losses /\ losses' = losses + 1
Break == resets + (IF contact THEN 0 ELSE 1) < budget.breaks

\* A frame is lost on the air, or to the noise of the channel.
Fade ==
    /\ Loss
    /\ \/ up # <<>> /\ up' = Tail(up) /\ UNCHANGED down
       \/ down # <<>> /\ down' = Tail(down) /\ UNCHANGED up
    /\ UNCHANGED <<transceiver, woken, ready, counter, encoders, rxq, txq, history, station,
                   contact, budget, late, beacons, resets>>

\* The ground station goes out of sight, and hears and is heard no more.
LoseContact ==
    /\ contact /\ contact' = FALSE /\ Break /\ up' = <<>> /\ down' = <<>>
    /\ UNCHANGED <<transceiver, woken, ready, counter, encoders, rxq, txq, history, station,
                   bounds>>

-----------------------------------------------------------------------------
(* The ground station *)

NextCommand == command' = command + 1 /\ tries' = 0 /\ waiting' = FALSE

GroundSend ==
    /\ contact /\ command <= Len(Commands) /\ ~waiting /\ waiting' = TRUE
    /\ up' = Append(up, Tc(command))
    /\ UNCHANGED <<transceiver, woken, ready, counter, encoders, rxq, txq, history, down,
                   command, tries, acked, told, contact, bounds>>

GroundHear ==
    /\ down # <<>> /\ down' = Tail(down)
    /\ LET f == Head(down)
       IN  \/ /\ f.type = "TM"
              /\ up' = Append(up, AckOf("TM", f.seq)) /\ told' = told \union {f.which}
              /\ UNCHANGED <<command, tries, waiting, acked>>
           \/ /\ f.type = "ACK" /\ acked' = acked \union {f.ref}
              /\ IF waiting /\ f.ref = command
                 THEN NextCommand ELSE UNCHANGED <<command, tries, waiting>>
              /\ UNCHANGED <<up, told>>
           \/ f.type \in {"NACK", "BEACON"} /\ UNCHANGED <<up, station>>
    /\ UNCHANGED <<transceiver, woken, ready, counter, encoders, rxq, txq, history, contact,
                   bounds>>

\* Nothing is on its way and nobody is about to send an answer: timeouts are longer
\* than what TRANSCEIVER and COMMS have to do (TimeoutCoversAnswer of Timing).
Quiet == /\ up = <<>> /\ down = <<>> /\ rxq = <<>> /\ reply = NoFrame
         /\ (pc = "loop" /\ ~ready) \/ pc = "listen"

\* A timeout comes when the answer is lost, or before a late answer.
TimesOut(lost) ==
    \/ lost /\ UNCHANGED late
    \/ ~lost /\ late < budget.late /\ late' = late + 1

GroundTimeout ==
    /\ contact /\ waiting /\ TimesOut(Quiet)
    /\ IF tries < GroundRetries
       THEN tries' = tries + 1 /\ waiting' = FALSE /\ UNCHANGED command
       ELSE NextCommand
    /\ UNCHANGED <<transceiver, woken, ready, counter, encoders, rxq, txq, history, up, down,
                   acked, told, contact, budget, losses, beacons, resets>>

-----------------------------------------------------------------------------
(* COMMS and BEACON *)

\* The store of comms_next_seq: one more than was loaded, whatever s_seq is by now.
StoreNumber(n) == seq' = n + 1 /\ setBack' = (setBack \/ n + 1 < seq)

\* A frame in tx_queue, and the notification, which also ends the wait of a
\* TRANSCEIVER that transmits; nothing if the queue is full.
Enqueue(f) ==
    IF Len(txq) < QueueLength
    THEN txq' = Append(txq, f) /\ ready' = TRUE /\ woken' = (pc = "tx")
    ELSE UNCHANGED <<txq, ready, woken>>

\* What the frame has where a telecommand has its tc_id: in an ACK or NACK that is the
\* number of the frame it answers.
IdOf(f) == IF f.type = "TC" THEN f.id ELSE f.ref

\* tc_process, which does not look at the type of the frame, up to the load of the number
\* of the answer, if there is one.
CommsExecute ==
    /\ reply = NoFrame /\ rxq # <<>> /\ rxq' = Tail(rxq)
    /\ LET f == Head(rxq)
           id == IdOf(f)
       IN  /\ executed' = executed (+) SetToBag({f})
           /\ \/ id \in Reports /\ reply' = Tm(seq, made + 1) /\ made' = made + 1
              \/ id \in Known \ Reports /\ UNCHANGED <<reply, made>>
              \/ id \notin Known /\ reply' = Nack(seq) /\ UNCHANGED made
    /\ UNCHANGED <<transceiver, woken, ready, counter, beacon, txq, inExchange, overflow,
                   confirmed, up, down, station, contact, bounds>>

\* Its rest: the store, and the answer for TRANSCEIVER.
CommsReply ==
    /\ reply # NoFrame /\ reply' = NoFrame
    /\ StoreNumber(reply.seq) /\ Enqueue(Numbered(reply))
    /\ UNCHANGED <<transceiver, beacon, made, rxq, history, up, down, station, contact, bounds>>

\* transmit_beacon, up to the load of the number.
TakeBeacon ==
    /\ beacon = NoFrame /\ beacon' = Beacon(seq)
    /\ beacons < budget.beacons /\ beacons' = beacons + 1
    /\ UNCHANGED <<transceiver, woken, ready, counter, reply, made, rxq, txq, history, up, down,
                   station, contact, budget, losses, late, resets>>

\* Its rest: the store, and the beacon for TRANSCEIVER.
SendBeacon ==
    /\ beacon # NoFrame /\ beacon' = NoFrame
    /\ StoreNumber(beacon.seq) /\ Enqueue(Numbered(beacon))
    /\ UNCHANGED <<transceiver, reply, made, rxq, history, up, down, station, contact, bounds>>

-----------------------------------------------------------------------------
(* TRANSCEIVER: reception *)

\* xQueueSend without a wait: dropped by a full queue.
Forward(f) ==
    IF Len(rxq) < QueueLength
    THEN rxq' = Append(rxq, f) /\ UNCHANGED overflow
    ELSE UNCHANGED rxq /\ overflow' = overflow \union (IF f.type = "TC" THEN {f.seq} ELSE {})

\* dedup_add: the oldest entry makes room.
Remember(n) == LET ring == Append(dedup, n) IN
    IF Len(ring) > RingSize THEN Tail(ring) ELSE ring

\* It starts to transmit f, with notifications from before discarded.
Transmit(f) == pc' = "tx" /\ out' = f /\ woken' = FALSE

\* Where it goes from the top of the loop when nothing is received.
Drain(d) == pc' = IF d THEN "drain" ELSE "loop"

\* Wrong variant: a duplicate is acknowledged and passed on again.
LoopReceivePassesDuplicates ==
    /\ pc = "loop" /\ up # <<>> /\ up' = Tail(up)
    /\ drain' = ready /\ ready' = FALSE
    /\ LET f == Head(up)
       IN  \/ /\ f.type = "TC" /\ Contains(dedup, f.seq)
              /\ Transmit(AckOf("TC", f.seq)) /\ hand' = f /\ UNCHANGED <<dedup, number>>
           \/ /\ f.type = "TC" /\ ~Contains(dedup, f.seq) /\ dedup' = Remember(f.seq)
              /\ pc' = "encode" /\ number' = seq /\ out' = AckOf("TC", f.seq) /\ hand' = f
              /\ UNCHANGED woken
           \/ f.type = "ACK" /\ Drain(ready) /\ UNCHANGED <<out, number, hand, woken, dedup>>
    /\ UNCHANGED <<attempt, counter, encoders, rxq, txq, history, down, station, contact, bounds>>

\* The loop is woken with a frame received and takes TX_READY with it.  A command is
\* acknowledged and passed on: it is entered in the ring, which is TRANSCEIVER's own, and
\* the number of its ACK is loaded.  A duplicate has its ACK in the ring and ends with it;
\* an ACK ends here.
LoopReceive ==
    /\ pc = "loop" /\ up # <<>> /\ up' = Tail(up)
    /\ drain' = ready /\ ready' = FALSE
    /\ LET f == Head(up)
       IN  \/ /\ f.type = "TC" /\ Contains(dedup, f.seq)
              /\ Transmit(AckOf("TC", f.seq)) /\ hand' = NoFrame /\ UNCHANGED <<dedup, number>>
           \/ /\ f.type = "TC" /\ ~Contains(dedup, f.seq) /\ dedup' = Remember(f.seq)
              /\ pc' = "encode" /\ number' = seq /\ out' = AckOf("TC", f.seq) /\ hand' = f
              /\ UNCHANGED woken
           \/ f.type = "ACK" /\ Drain(ready) /\ UNCHANGED <<out, number, hand, woken, dedup>>
    /\ UNCHANGED <<attempt, counter, encoders, rxq, txq, history, down, station, contact, bounds>>

\* The number is stored, and the ACK of the command is transmitted.
LoopAck ==
    /\ pc = "encode" /\ StoreNumber(number) /\ number' = 0 /\ Transmit(out)
    /\ UNCHANGED <<hand, drain, attempt, dedup, ready, encoders, rxq, txq, history, up, down,
                   station, contact, bounds>>

LoopReady ==
    /\ pc = "loop" /\ ready /\ ready' = FALSE
    /\ pc' = "drain" /\ drain' = TRUE
    /\ UNCHANGED <<out, number, hand, attempt, dedup, woken, counter, encoders, rxq, txq,
                   history, up, down, station, contact, bounds>>

-----------------------------------------------------------------------------
(* TRANSCEIVER: transmission *)

\* Wrong variant: the command is passed on only if tx_queue has to be drained next.
AfterTransmitForgets ==
    /\ \/ /\ out.type = "ACK" /\ Drain(drain) /\ hand' = NoFrame /\ out' = NoFrame
          /\ IF hand = NoFrame \/ drain THEN UNCHANGED <<rxq, overflow>> ELSE Forward(hand)
       \/ out.type = "TM" /\ pc' = "listen" /\ UNCHANGED <<hand, out, rxq, overflow>>
       \/ /\ out.type \in {"NACK", "BEACON"} /\ pc' = "drain" /\ out' = NoFrame
          /\ UNCHANGED <<hand, rxq, overflow>>
    /\ woken' = FALSE
    /\ UNCHANGED <<number, drain, attempt, dedup, ready, counter, encoders, txq, executed,
                   inExchange, confirmed, up, station, contact, budget, late, beacons, resets>>

\* What follows a transmission: an ACK is followed by the command it is for, telemetry by
\* the wait for its ACK, anything else by the next frame of tx_queue.
AfterTransmit ==
    /\ \/ /\ out.type = "ACK" /\ Drain(drain) /\ hand' = NoFrame /\ out' = NoFrame
          /\ IF hand = NoFrame THEN UNCHANGED <<rxq, overflow>> ELSE Forward(hand)
       \/ out.type = "TM" /\ pc' = "listen" /\ UNCHANGED <<hand, out, rxq, overflow>>
       \/ /\ out.type \in {"NACK", "BEACON"} /\ pc' = "drain" /\ out' = NoFrame
          /\ UNCHANGED <<hand, rxq, overflow>>
    /\ woken' = FALSE
    /\ UNCHANGED <<number, drain, attempt, dedup, ready, counter, encoders, txq, executed,
                   inExchange, confirmed, up, station, contact, budget, late, beacons, resets>>

TxDone ==
    /\ pc = "tx" /\ down' = IF contact THEN Append(down, out) ELSE down
    /\ AfterTransmit /\ UNCHANGED losses

\* The wait for TX_DONE ends on any notification, and what follows stops the radio:
\* the frame is cut off.
TxCut ==
    /\ pc = "tx" /\ woken /\ losses' = losses + 1
    /\ AfterTransmit /\ UNCHANGED down

\* cad_precheck: the channel is found busy four times.
CadGivesUp == Loss

\* The next frame of tx_queue, if any, after CAD: a frame without acknowledgement is
\* dropped when the channel stays busy, and so is one with it (SAW_CAD_FAIL).
DrainNext ==
    /\ pc = "drain"
    /\ \/ txq = <<>> /\ pc' = "loop" /\ drain' = FALSE /\ UNCHANGED <<out, attempt, woken, txq, losses>>
       \/ /\ txq # <<>> /\ txq' = Tail(txq) /\ attempt' = 0 /\ UNCHANGED drain
          /\ \/ Transmit(Head(txq)) /\ UNCHANGED losses
             \/ CadGivesUp /\ UNCHANGED <<pc, out, woken>>
    /\ UNCHANGED <<number, hand, dedup, ready, counter, encoders, rxq, history, up, down,
                   station, contact, budget, late, beacons, resets>>

-----------------------------------------------------------------------------
(* saw_send, while it listens *)

\* Wrong variant: any ACK of telemetry will do.
AnswersAny(f) == f.type = "ACK" /\ f.refType = "TM"

\* The ACK is recognised by the number alone.
Answers(f) == f.type = "ACK" /\ f.ref = out.seq

\* Wrong variant: a command that comes in an exchange is entered in the ring and not
\* passed on.
ListenHearRemembers ==
    /\ pc = "listen" /\ up # <<>> /\ up' = Tail(up)
    /\ LET f == Head(up)
       IN  \/ /\ Answers(f) /\ pc' = "drain" /\ out' = NoFrame
              /\ confirmed' = confirmed \union {out.which} /\ attempt' = 0
              /\ UNCHANGED <<rxq, overflow, inExchange, dedup>>
           \/ /\ ~Answers(f) /\ dedup' = (IF f.type = "TC" THEN Remember(f.seq) ELSE dedup)
              /\ UNCHANGED <<rxq, overflow>>
              /\ inExchange' = IF f.type = "TC" THEN [inExchange EXCEPT ![f.seq] = @ + 1]
                               ELSE inExchange
              /\ UNCHANGED <<pc, out, attempt, confirmed>>
    /\ UNCHANGED <<number, hand, drain, woken, ready, counter, encoders, txq, executed, down,
                   station, contact, bounds>>

\* Any other frame is passed on to COMMS, an ACK too, and is neither acknowledged nor
\* entered in the ring.
ListenHear ==
    /\ pc = "listen" /\ up # <<>> /\ up' = Tail(up)
    /\ LET f == Head(up)
       IN  \/ /\ Answers(f) /\ pc' = "drain" /\ out' = NoFrame
              /\ confirmed' = confirmed \union {out.which} /\ attempt' = 0
              /\ UNCHANGED <<rxq, overflow, inExchange>>
           \/ /\ ~Answers(f) /\ Forward(f)
              /\ inExchange' = IF f.type = "TC" THEN [inExchange EXCEPT ![f.seq] = @ + 1]
                               ELSE inExchange
              /\ UNCHANGED <<pc, out, attempt, confirmed>>
    /\ UNCHANGED <<number, hand, drain, dedup, woken, ready, counter, encoders, txq, executed,
                   down, station, contact, bounds>>

ListenTimeout ==
    /\ pc = "listen" /\ TimesOut(Quiet)
    /\ IF attempt < SawMaxRetx
       THEN attempt' = attempt + 1 /\ Transmit(out)
       ELSE pc' = "drain" /\ out' = NoFrame /\ attempt' = 0 /\ UNCHANGED woken
    /\ UNCHANGED <<number, hand, drain, dedup, ready, counter, encoders, rxq, txq, history, up,
                   down, station, contact, budget, losses, beacons, resets>>

\* The health monitor resets TRANSCEIVER (tm_reset_task): the ring is empty, and the
\* frame in hand is gone, with the number it loaded.
Reset ==
    /\ pc # "loop" /\ Break /\ resets' = resets + 1
    /\ pc' = "loop" /\ out' = NoFrame /\ number' = 0 /\ hand' = NoFrame /\ drain' = FALSE
    /\ attempt' = 0 /\ dedup' = <<>> /\ ready' = FALSE /\ woken' = FALSE
    /\ UNCHANGED <<counter, encoders, rxq, txq, history, up, down, station, contact, budget,
                   losses, late, beacons>>

-----------------------------------------------------------------------------

Transceive == \/ LoopReceive \/ LoopAck \/ LoopReady \/ TxDone \/ TxCut \/ DrainNext
              \/ ListenHear \/ ListenTimeout
Comms == CommsExecute \/ CommsReply
Ground == GroundSend \/ GroundHear \/ GroundTimeout

\* All commands are sent, nothing is on its way.
Finished == /\ command > Len(Commands) \/ ~contact
            /\ up = <<>> /\ down = <<>> /\ rxq = <<>> /\ reply = NoFrame /\ beacon = NoFrame
            /\ pc = "loop" /\ ~ready /\ UNCHANGED vars

Next == \/ Transceive \/ Reset \/ Comms \/ TakeBeacon \/ SendBeacon
        \/ Ground \/ Fade \/ LoseContact \/ Finished

Spec == Init /\ [][Next]_vars

\* TRANSCEIVER and COMMS are scheduled, and the ground station goes on.
FairSpec == Spec /\ WF_vars(Transceive) /\ WF_vars(Comms) /\ WF_vars(Ground)

-----------------------------------------------------------------------------
(* Properties *)

\* Type invariant.
TypeOK ==
    /\ pc \in {"loop", "encode", "tx", "drain", "listen"} /\ drain \in BOOLEAN
    /\ attempt \in 0..SawMaxRetx /\ woken \in BOOLEAN /\ ready \in BOOLEAN
    /\ pc \in {"encode", "tx", "listen"} <=> out # NoFrame
    /\ hand # NoFrame => out = AckOf("TC", hand.seq)
    /\ Len(dedup) <= RingSize /\ seq \in Nat /\ number \in Nat
    /\ made \in Nat /\ setBack \in BOOLEAN
    /\ Len(rxq) <= QueueLength /\ Len(txq) <= QueueLength

Executions(k) == IF BagIn(Tc(k), executed) THEN executed[Tc(k)] ELSE 0

\* A command runs at most once for being received by the loop, however often the ground
\* station repeats it, and once more for each copy that came in an exchange: those are
\* not compared with the ring (transceiver_task, transceiver.c and saw_send, saw.c).
OnceOutsideExchanges ==
    \A k \in DOMAIN Commands : Executions(k) <= 1 + inExchange[k] + resets

\* A command the ground station has the ACK of was executed, is on its way to be, or was
\* dropped by a full queue: the ACK goes out before the command is passed on
\* (transceiver_task, transceiver.c).
AckedIsKept ==
    \A k \in acked : \/ Executions(k) > 0 \/ hand = Tc(k) \/ Contains(rxq, Tc(k))
                     \/ k \in overflow \/ resets > 0

\* An exchange that returns SAW_OK was for telemetry that the ground station received,
\* although the ACK is recognised by its number alone, comes late or twice, and the number
\* of another frame is loaded before the own one is stored: two frames that wait for an ACK
\* have one number only after a store has lowered s_seq (comms_next_seq, comms.c and
\* saw_send, saw.c).
OkMeansReceived == setBack \/ confirmed \subseteq told

\* What comms.h:44 promises, a next number for each frame, without the exception.  A task
\* that is preempted between its load and its store sets the counter back over what others
\* numbered, and the next telemetry takes a late ACK of an earlier one for its own.
NumbersTellFrames == confirmed \subseteq told

\* Every command is executed if at most three frames are lost, cut off or answered late,
\* whatever exchange is going on when one comes: the four times the ground station sends it
\* are enough (transceiver_task and saw_send, which pass it on).
CommandsArrive ==
    <>(\/ \A k \in DOMAIN Commands : Executions(k) > 0 \/ k \in overflow
       \/ ~contact \/ losses + late > GroundRetries \/ resets > 0)

\* What transceiver.c:136 says of the frames for COMMS: no ACK is among them, so what
\* tc_process executes are telecommands.  saw_send does not keep this.
CommandsAreCommands == \A f \in BagToSet(executed) : f.type = "TC"

=============================================================================
