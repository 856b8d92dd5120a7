---------------------------- MODULE Radio_proofs ----------------------------
(***************************************************************************)
(* The radio and its users, for every set of links, everything that COMMS  *)
(* and BEACON may queue, and any number of arrivals and pauses:            *)
(*                                                                         *)
(*   TRANSCEIVER never waits at a radio that is deaf;                      *)
(*   a transmission is cut off only because of others, or by its length;   *)
(*   a frame is passed on once; a blocking reception returns a new one.    *)
(*                                                                         *)
(* The buffer of the chip keeps a frame after it was read, and the task's  *)
(* notification outlives the interrupt.  That no frame is read twice rests *)
(* on the flag RX_DONE: wherever it is set, or was taken and is about to   *)
(* be acted on, the frame in the buffer is one nobody has had (Fresh).     *)
(***************************************************************************)
EXTENDS BlockingReceive, TLAPS

-----------------------------------------------------------------------------
(* Where the user of the radio is *)

Sending == {"standby", "start", "txwait", "txclear"}
TransceiverPlaces ==
    Sending \union {"wait", "flags", "clear", "read", "forward", "again", "relisten", "listen",
                    "rearm", "arm", "drain", "cad", "scan"}
Armed == {"dutyWait", "dutyStop", "dutyCheck", "cadWait", "cadFlags", "cadClear", "cadListen",
          "cadStop", "cadCheck"}
CallerPlaces == Armed \union {"idle", "dutyArm", "cadScan"}

\* TRANSCEIVER and the blocking calls do not meet: who attached the callback is the user.
Seats ==
    /\ \/ callback = "radioIrq" /\ pc \in TransceiverPlaces
       \/ callback \in {"none", "dutyCycle", "detached"} /\ pc \in CallerPlaces /\ mode # "tx"
    /\ exit \in {"standby", "cadRx"}
    /\ then \in {"rearm", "forward", "again", "relisten", "drain"}
    /\ exchange \/ pc \in {"listen", "relisten"} => then = "relisten"

LEMMA ReceiveModes == ReceiveMode \in {"rx", "dutyRx", "fails"}
BY DEF ReceiveMode

LEMMA SeatsInit == BInit \/ CallerInit => Seats
BY DEF BInit, CallerInit, Init, Seats, TransceiverPlaces, CallerPlaces, Armed, Sending

LEMMA SeatsNext == Seats /\ [BNext]_bvars => Seats'
<1> SUFFICES ASSUME Seats, [BNext]_bvars
             PROVE  Seats'
  OBVIOUS
<1> USE DEF Seats, chip, line, config, software, others, history, idle
<1>1. CASE UNCHANGED bvars
  BY <1>1 DEF bvars, rvars
<1>2. CASE Transceives /\ Transceiver
  <2>1. callback = "radioIrq" /\ pc \in TransceiverPlaces
    BY <1>2 DEF Transceives
  <2>2. callback' = callback /\ exit' \in {"standby", "cadRx"}
    BY <1>2 DEF Transceiver, Loop, Transmission, Draining, Wait, GetIrqFlags, ClearFlags, Read,
       Forward, Rearm, DiscardStale, Start, TxWait, TxClear, Relisten, DrainNext, ScanChannel,
       ScanResult, Listen, ListenTimeout, ClearIrqFlags, ReadRxData, StartReceive, Standby,
       StartTransmit, StartScan
  <2>3. CASE Loop
    <3>1. CASE Wait \/ GetIrqFlags \/ ClearFlags \/ Forward \/ Rearm
      BY <2>1, <2>2, <3>1 DEF Wait, GetIrqFlags, ClearFlags, Forward, Rearm, AfterReceive,
                              TransceiverPlaces, Sending
    <3>2. CASE Read
      BY <2>1, <2>2, <3>2 DEF Read, Drops, ExchangeTakes, LoopTakes, Kinds, AfterReceive,
                              TransceiverPlaces, Sending
    <3>3. QED
      BY <2>3, <3>1, <3>2 DEF Loop
  <2>4. CASE Transmission
    BY <2>1, <2>2, <2>4 DEF Transmission, DiscardStale, Start, TxWait, TxClear, Relisten, AfterReceive,
                            TransceiverPlaces, Sending
  <2>5. CASE Draining
    <3>1. CASE DrainNext \/ ScanChannel \/ Listen \/ ListenTimeout
      BY <2>1, <2>2, <3>1 DEF DrainNext, ScanChannel, Listen, ListenTimeout, TransceiverPlaces, Sending
    <3>2. CASE ScanResult
      BY <2>1, <2>2, <3>2 DEF ScanResult, TransceiverPlaces, Sending
    <3>3. QED
      BY <2>5, <3>1, <3>2 DEF Draining
  <2>6. QED
    BY <1>2, <2>3, <2>4, <2>5 DEF Transceiver
<1>3. CASE ~Transceives /\ Blocking
  <2>1. callback \in {"none", "dutyCycle", "detached"} /\ pc \in CallerPlaces /\ mode # "tx"
    BY <1>3 DEF Transceives
  <2>2. callback' \in {"none", "dutyCycle", "detached"}
    BY <1>3, <2>1 DEF Blocking, DutyCall, DutyArm, DutyWait, DutyStop, DutyCheck, CadCall, CadScan, CadWait,
       CadFlagsTaken, CadClear, CadListen, CadStop, CadCheck, AttachDutyCycle, DetachInterrupt
  <2>3. mode' # "tx" /\ exit' \in {"standby", "cadRx"}
    BY <1>3, <2>1, ReceiveModes DEF Blocking, DutyCall, DutyArm, DutyWait, DutyStop, DutyCheck, CadCall, CadScan, CadWait,
       CadFlagsTaken, CadClear, CadListen, CadStop, CadCheck, ClearIrqFlags, ReadAndReturn, ReadRxData, StartReceive, Standby,
       StartScan
  <2>4. pc' \in CallerPlaces /\ UNCHANGED <<then, exchange>>
    BY <1>3 DEF Blocking, DutyCall, DutyArm, DutyWait, DutyStop, DutyCheck, CadCall, CadScan, CadWait,
       CadFlagsTaken, CadClear, CadListen, CadStop, CadCheck, ReadAndReturn, Returns, CallerPlaces, Armed
  <2>5. pc' \notin {"listen", "relisten"}
    BY <2>4 DEF CallerPlaces, Armed
  <2>6. QED
    BY <2>2, <2>3, <2>4, <2>5
<1>4. CASE Arrive \/ ChipStep
  <2>1. UNCHANGED <<callback, pc, then, exchange, exit>>
    BY <1>4 DEF Arrive, Receives, ChipStep, Transmitted, Scanned, HearsNothing
  <2>2. mode # "tx" => mode' # "tx"
    BY <1>4 DEF Arrive, Receives, ChipStep, Transmitted, Scanned, HearsNothing
  <2>3. QED
    BY <2>1, <2>2
<1>5. CASE Transceives /\ (Enqueue \/ Pause \/ Resume)
  BY <1>5 DEF Enqueue, Pause, Resume, Notify
<1>6. QED
  BY <1>1, <1>2, <1>3, <1>4, <1>5 DEF BNext, Next

-----------------------------------------------------------------------------
(* The radio listens *)

Listening == mode \in {"rx", "dutyRx"} /\ mask = {"RX_DONE"} /\ ~Dio1
Notified == "RX_DONE" \in irq /\ pending /\ "RADIO_IRQ" \in bits

LEMMA NeverDeafInit == BInit \/ CallerInit => NeverDeaf
BY ReceiveModes DEF BInit, CallerInit, Init, NeverDeaf, Dio1

LEMMA NeverDeafNext == Seats /\ NeverDeaf /\ [BNext]_bvars => NeverDeaf'
<1> SUFFICES ASSUME Seats, NeverDeaf, [BNext]_bvars, pc' = "wait", ~paused',
                    (ReceiveMode # "fails")'
             PROVE  Listening' \/ Notified'
  BY DEF NeverDeaf, Listening, Notified
<1>r. ASSUME UNCHANGED link
      PROVE  ReceiveMode' = ReceiveMode
  BY <1>r DEF ReceiveMode, SleepUs
<1>1. CASE pc # "wait"
  \* Only the end of the loop leads there.
  <2>1. Rearm
    BY <1>1 DEF BNext, Next, Transceiver, Loop, Transmission, Draining, Wait, GetIrqFlags,
       ClearFlags, Read, Drops, ExchangeTakes, LoopTakes, Kinds, AfterReceive, Forward, Rearm,
       DiscardStale, Start, TxWait, TxClear, Relisten, DrainNext, ScanChannel, ScanResult, Listen,
       ListenTimeout, Seats, Blocking, DutyCall, DutyArm, DutyWait, DutyStop, DutyCheck, CadCall,
       CadScan, CadWait, CadFlagsTaken, CadClear, CadListen, CadStop, CadCheck, ReadAndReturn, Returns,
       Arrive, ChipStep, Enqueue, Pause, Resume, Notify, software, config, bvars, rvars, idle
  <2>2. StartReceive /\ UNCHANGED link
    BY <2>1 DEF Rearm
  <2>3. mode' = ReceiveMode /\ irq' = {} /\ mask' = {"RX_DONE"} /\ ReceiveMode # "fails"
    BY <2>2, <1>r DEF StartReceive
  <2>4. QED
    BY <2>3, ReceiveModes DEF Listening, Dio1
<1>2. CASE pc = "wait"
  <2>1. callback = "radioIrq"
    BY <1>2 DEF Seats, CallerPlaces, Armed
  <2>2. ASSUME UNCHANGED <<paused, link>>
        PROVE  Listening \/ Notified
    BY <1>2, <2>2, <1>r DEF NeverDeaf, Listening, Notified
  <2>3. ASSUME UNCHANGED <<paused, link, mask>>, NEW fl, Raises(fl), "RX_DONE" \in fl
        PROVE  Notified'
    <3>1. irq' = irq \union fl
      BY <2>3 DEF Raises
    <3>2. CASE Listening
      BY <2>1, <2>3, <3>1, <3>2 DEF Raises, Notified, Listening
    <3>3. CASE Notified
      BY <2>1, <2>3, <3>1, <3>3 DEF Raises, Notified, line
    <3>4. QED
      BY <2>2, <2>3, <3>2, <3>3
  <2>4. CASE Wait
    BY <1>2, <2>4 DEF Wait, AfterReceive
  <2>5. CASE Arrive
    BY <2>3, <2>5 DEF Arrive, Receives, config, software
  <2>6. CASE ChipStep
    <3>1. UNCHANGED <<paused, link>>
      BY <2>6 DEF ChipStep, config, software
    <3>2. /\ mode \in {"tx", "cad", "cadRx"}
          /\ \E fl : Raises(fl)
      BY <2>6 DEF ChipStep, Transmitted, Scanned, HearsNothing
    <3>3. Notified
      BY <2>2, <3>1, <3>2 DEF Listening
    <3>4. QED
      BY <2>1, <3>2, <3>3 DEF Raises, Notified, line
  <2>7. CASE Enqueue \/ Pause \/ Resume
    <3>1. /\ UNCHANGED <<paused, link, mode, mask, irq>> /\ pending' = TRUE /\ bits \subseteq bits'
      BY <2>7 DEF Enqueue, Pause, Resume, Notify, config, software, chip
    <3>2. QED
      BY <2>2, <3>1 DEF Listening, Notified, Dio1
  <2>8. CASE UNCHANGED bvars
    BY <2>2, <2>8 DEF bvars, rvars, chip, line, config, software, Listening, Notified, Dio1
  <2>9. QED
    BY <1>2, <2>1, <2>4, <2>5, <2>6, <2>7, <2>8 DEF BNext, Next, Transceives, Transceiver, Loop, Transmission,
       Draining, GetIrqFlags, ClearFlags, Read, Forward, Rearm, DiscardStale, Start, TxWait, TxClear,
       Relisten, DrainNext, ScanChannel, ScanResult, Listen, ListenTimeout
<1>3. QED
  BY <1>1, <1>2

-----------------------------------------------------------------------------
(* What ends a transmission *)

\* While a frame is on the air TRANSCEIVER waits for it and has not been notified since it
\* discarded what was stale, unless another task notified it or the frame takes too long.
Undisturbed ==
    /\ pc = "start" => mode = "standby" /\ (disturbed \/ ~pending)
    /\ mode = "tx" => disturbed \/ Slow(air.bytes) \/ (pc = "txwait" /\ air = out /\ ~pending)

LEMMA UndisturbedInit == BInit \/ CallerInit => Undisturbed
BY ReceiveModes DEF BInit, CallerInit, Init, Undisturbed

LEMMA UndisturbedNext == Seats /\ Undisturbed /\ [BNext]_bvars => Undisturbed'
<1> SUFFICES ASSUME Seats, Undisturbed, [BNext]_bvars
             PROVE  Undisturbed'
  OBVIOUS
<1> USE DEF Undisturbed
<1>s. ASSUME UNCHANGED link, NEW b
      PROVE  Slow(b)' = Slow(b)
  BY <1>s DEF Slow, AirtimeUs, Symbols, SymbolUs
<1>0. ASSUME mode' # "tx", pc' # "start"
      PROVE  Undisturbed'
  BY <1>0
<1>1. ASSUME UNCHANGED <<mode, air, link, disturbed>>, pc' # "start", pc # "txwait"
      PROVE  Undisturbed'
  BY <1>1, <1>s
<1>2. CASE Transceives /\ Loop
  <2>1. /\ pc' # "start" /\ pc # "txwait"
        /\ \/ UNCHANGED <<mode, air, link, disturbed>>
           \/ mode' # "tx"
    <3>1. pc' # "start" /\ pc # "txwait"
      BY <1>2 DEF Loop, Wait, GetIrqFlags, ClearFlags, Read, Forward, Rearm, Drops, ExchangeTakes,
         LoopTakes, Kinds, AfterReceive, software
    <3>2. \/ UNCHANGED <<mode, air, link, disturbed>>
          \/ mode' # "tx"
      BY <1>2, ReceiveModes DEF Loop, Wait, GetIrqFlags, ClearFlags, Read, Forward, Rearm, ReadRxData,
         ClearIrqFlags, StartReceive, Standby, chip, config, history
    <3>3. QED
      BY <3>1, <3>2
  <2>2. QED
    BY <1>0, <1>1, <2>1
<1>3. CASE Transceives /\ DiscardStale
  BY <1>3 DEF DiscardStale, Standby
<1>4. CASE Transceives /\ Start
  BY <1>4 DEF Start, StartTransmit, line, software, history
<1>5. CASE Transceives /\ TxWait
  BY <1>5, <1>s DEF TxWait, chip, config, history
<1>6. CASE Transceives /\ (TxClear \/ Relisten \/ Draining)
  <2>1. pc' # "start" /\ pc # "txwait"
    BY <1>6 DEF Seats, TxClear, Relisten, Draining, DrainNext, ScanChannel, ScanResult, Listen, ListenTimeout,
       AfterReceive
  <2>2. \/ UNCHANGED <<mode, air, link, disturbed>>
        \/ mode' # "tx"
    BY <1>6, ReceiveModes DEF TxClear, Relisten, Draining, DrainNext, ScanChannel, ScanResult, Listen, ListenTimeout,
       ClearIrqFlags, StartReceive, StartScan, chip, config, history
  <2>3. QED
    BY <1>0, <1>1, <2>1, <2>2
<1>7. CASE ~Transceives /\ Blocking
  <2>1. Seats'
    BY SeatsNext
  <2>2. callback' # "radioIrq"
    BY <1>7 DEF Seats, Transceives, Blocking, DutyCall, DutyArm, DutyWait, DutyStop, DutyCheck, CadCall, CadScan, CadWait,
       CadFlagsTaken, CadClear, CadListen, CadStop, CadCheck, AttachDutyCycle, DetachInterrupt
  <2>3. mode' # "tx" /\ pc' # "start"
    BY <2>1, <2>2 DEF Seats, CallerPlaces, Armed
  <2>4. QED
    BY <1>0, <2>3
<1>8. CASE Arrive \/ ChipStep
  <2>1. /\ mode # "standby" /\ mode' # "tx" /\ UNCHANGED pc
    BY <1>8 DEF Arrive, Receives, ChipStep, Transmitted, Scanned, HearsNothing, Seats, software
  <2>2. QED
    BY <1>0, <2>1
<1>9. CASE Transceives /\ (Enqueue \/ Pause \/ Resume)
  BY <1>9 DEF Enqueue, Pause, Resume, Notify, chip, software
<1>10. CASE UNCHANGED bvars
  BY <1>10, <1>s DEF bvars, rvars, chip, line, config, software, history
<1>11. QED
  BY <1>2, <1>3, <1>4, <1>5, <1>6, <1>7, <1>8, <1>9, <1>10 DEF BNext, Next, Transceiver, Transmission

LEMMA CutStep ==
    ASSUME Seats, Undisturbed, [BNext]_bvars, mode = "tx", mode' # "tx", "TX_DONE" \notin irq'
    PROVE  disturbed \/ Slow(air.bytes)
<1> SUFFICES ASSUME ~disturbed, ~Slow(air.bytes)
             PROVE  FALSE
  OBVIOUS
<1>1. pc = "txwait" /\ air = out /\ ~pending /\ Transceives
  BY DEF Undisturbed, Seats, Transceives
<1>2. ~Transceiver
  BY <1>1 DEF Transceiver, Loop, Transmission, Draining, Wait, GetIrqFlags, ClearFlags, Read, Forward, Rearm,
     DiscardStale, Start, TxWait, TxClear, Relisten, DrainNext, ScanChannel, ScanResult, Listen, ListenTimeout
<1>3. ~(Enqueue \/ Pause \/ Resume) /\ ~(UNCHANGED bvars)
  BY DEF Enqueue, Pause, Resume, Notify, chip, bvars, rvars
<1>4. ~Arrive
  BY DEF Arrive, Receives
<1>5. ~ChipStep
  BY DEF ChipStep, Transmitted, Scanned, HearsNothing, Raises
<1>6. QED
  BY <1>1, <1>2, <1>3, <1>4, <1>5 DEF BNext, Next

-----------------------------------------------------------------------------
(* No frame is passed on twice *)

Heard == [number : Nat \ {0}, damaged : BOOLEAN]

\* Frames are numbered as they arrive.
Numbered ==
    /\ arrivals \in Nat /\ delivered \in Seq(Heard)
    /\ buffer \in Heard \union {NoFrame} /\ buffer.number <= arrivals
    /\ hand \in Heard \union {NoFrame} /\ hand.number <= arrivals
    /\ \A i \in 1..Len(delivered) : delivered[i].number <= arrivals

IsNew(n) == \A i \in 1..Len(delivered) : delivered[i].number # n

\* The frame in hand is going to be passed on when its acknowledgement is sent.
Forwarding == pc = "forward" \/ (pc \in Sending /\ then = "forward")

\* The frame in the buffer is going to be read, or may be.
Readable == "RX_DONE" \in irq \/ pc = "read" \/ (pc = "clear" /\ "RX_DONE" \in taken)

Fresh ==
    /\ Readable => IsNew(buffer.number) /\ (Forwarding => buffer.number # hand.number)
    /\ Forwarding => hand # NoFrame /\ IsNew(hand.number)

LEMMA ZeroFrame == NoFrame.number = 0 /\ \A f \in Heard : f.number \in Nat \ {0} /\ f # NoFrame
BY DEF NoFrame, Heard

\* A frame nobody has had is put into rx_queue.
LEMMA DeliverNew ==
    ASSUME Numbered, PassedOnOnce, NEW f \in Heard, f.number <= arrivals, IsNew(f.number), Deliver(f)
    PROVE  /\ PassedOnOnce' /\ delivered' \in Seq(Heard)
           /\ \A i \in 1..Len(delivered') : delivered'[i].number <= arrivals
           /\ \A n : n # f.number /\ IsNew(n) => IsNew(n)'
           /\ delivered'[Len(delivered')] = f
<1> DEFINE n == Len(delivered)
<1>1. /\ n \in Nat /\ DOMAIN delivered = 1..n
      /\ \A i \in 1..n : delivered[i].number <= arrivals /\ delivered[i].number # f.number
      /\ \A i, j \in 1..n : i # j => delivered[i].number # delivered[j].number
  BY DEF Numbered, PassedOnOnce, IsNew
<1>2. delivered' = Append(delivered, f) /\ delivered \in Seq(Heard)
  BY DEF Deliver, Numbered
<1>3. /\ delivered' \in Seq(Heard) /\ Len(delivered') = n + 1 /\ DOMAIN delivered' = 1..(n + 1)
      /\ delivered'[n + 1] = f /\ \A i \in 1..n : delivered'[i] = delivered[i]
  BY <1>2
<1> HIDE DEF n
<1>4. \A i \in 1..(n + 1) : i \in 1..n \/ i = n + 1
  BY <1>1
<1>5. \A i \in 1..(n + 1) : delivered'[i].number <= arrivals
  BY <1>1, <1>3, <1>4
<1>6. \A i, j \in 1..(n + 1) : i # j => delivered'[i].number # delivered'[j].number
  <2> SUFFICES ASSUME NEW i \in 1..(n + 1), NEW j \in 1..(n + 1), i # j
               PROVE  delivered'[i].number # delivered'[j].number
    OBVIOUS
  <2>1. CASE i \in 1..n /\ j \in 1..n
    BY <1>1, <1>3, <2>1
  <2>2. CASE i \in 1..n /\ j = n + 1
    BY <1>1, <1>3, <2>2
  <2>3. CASE i = n + 1 /\ j \in 1..n
    BY <1>1, <1>3, <2>3
  <2>4. QED
    BY <1>4, <2>1, <2>2, <2>3
<1>7. \A m : m # f.number /\ IsNew(m) => IsNew(m)'
  <2> SUFFICES ASSUME NEW m, m # f.number, IsNew(m), NEW i \in 1..(n + 1)
               PROVE  delivered'[i].number # m
    BY <1>3 DEF IsNew
  <2>1. CASE i \in 1..n
    BY <1>3, <2>1 DEF IsNew, n
  <2>2. CASE i = n + 1
    BY <1>3, <2>2
  <2>3. QED
    BY <1>4, <2>1, <2>2
<1>8. QED
  BY <1>3, <1>5, <1>6, <1>7 DEF PassedOnOnce

Once == Numbered /\ Fresh /\ PassedOnOnce

LEMMA OnceInit == BInit \/ CallerInit => Once
<1>1. <<>> \in Seq(Heard) /\ Len(<<>>) = 0 /\ DOMAIN <<>> = {}
  OBVIOUS
<1>2. ASSUME BInit \/ CallerInit
      PROVE  /\ delivered = <<>> /\ arrivals = 0 /\ buffer = NoFrame /\ hand = NoFrame /\ irq = {}
             /\ pc \in {"wait", "idle"}
  BY <1>2 DEF BInit, CallerInit, Init
<1>3. ASSUME BInit \/ CallerInit
      PROVE  Numbered
  <2>1. arrivals \in Nat /\ delivered \in Seq(Heard) /\ \A i \in 1..Len(delivered) : FALSE
    <3>1. arrivals = 0 /\ delivered = <<>>
      BY <1>2, <1>3
    <3>2. Len(delivered) = 0 /\ delivered \in Seq(Heard)
      BY <1>1, <3>1
    <3>3. QED
      BY <3>1, <3>2
  <2>2. buffer = NoFrame /\ hand = NoFrame /\ buffer.number <= arrivals /\ hand.number <= arrivals
    BY <1>2, <1>3, ZeroFrame
  <2>3. QED
    BY <2>1, <2>2 DEF Numbered
<1>4. ASSUME BInit \/ CallerInit
      PROVE  Fresh
  BY <1>2, <1>4 DEF Fresh, Readable, Forwarding, Sending
<1>5. ASSUME BInit \/ CallerInit
      PROVE  PassedOnOnce
  BY <1>1, <1>2, <1>5 DEF PassedOnOnce
<1>6. QED
  BY <1>3, <1>4, <1>5 DEF Once

-----------------------------------------------------------------------------
(* A blocking reception *)

CadPlaces == {"cadClear", "cadListen", "cadStop", "cadCheck"}

\* From the moment the radio listens for a call the flag RX_DONE is about a frame that came
\* after the call began; and CadReceive has seen DIO1 high because of a frame or of TIMEOUT.
Caller ==
    /\ since \in Nat /\ since <= arrivals
    /\ pc \in Armed /\ "RX_DONE" \in irq =>
          buffer # NoFrame /\ buffer.number > since /\ (buffer.damaged => "CRC_ERR" \in irq)
    /\ pc \in {"cadWait", "cadFlags"} /\ "CAD_DETECTED" \in irq => mode # "cad"
    /\ pc \in CadPlaces => mode # "cad"
    /\ pc \in {"cadWait", "cadFlags", "cadClear", "cadListen"} =>
          mask = CadFlags \union {"RX_DONE", "TIMEOUT"}
    /\ pc = "cadListen" => irq \cap CadFlags = {}
    /\ pc \in {"cadStop", "cadCheck"} /\ woken => "RX_DONE" \in irq \/ "TIMEOUT" \in irq

LEMMA CallerInv == BInit \/ CallerInit => Caller /\ BlockingReadsAreFresh
BY DEF BInit, CallerInit, Init, Caller, BlockingReadsAreFresh, Armed, CadPlaces

\* The last step of a call that reads the buffer.
Reads == /\ pc \in {"dutyCheck", "cadCheck"} /\ woken /\ ReadAndReturn
         /\ IF pc = "dutyCheck" THEN "RX_DONE" \in irq ELSE "TIMEOUT" \notin irq

LEMMA ReadsOnly ==
    ASSUME Blocking
    PROVE  UNCHANGED delivered \/ (Reads /\ Deliver(buffer) /\ ~ChecksumFails)
BY DEF Blocking, DutyCall, DutyArm, DutyWait, DutyStop, DutyCheck, CadCall, CadScan, CadWait,
   CadFlagsTaken, CadClear, CadListen, CadStop, CadCheck, Reads, ReadAndReturn, ChecksumFails

LEMMA ReadsFrame ==
    ASSUME Caller, Numbered, Reads
    PROVE  /\ "RX_DONE" \in irq /\ irq' = {} /\ buffer \in Heard /\ buffer.number > since
           /\ ~ChecksumFails => ~buffer.damaged
<1>1. "RX_DONE" \in irq /\ pc \in Armed /\ irq' = {}
  BY DEF Reads, Caller, Armed, ReadAndReturn, ReadRxData
<1>2. QED
  BY <1>1 DEF Caller, Numbered, ChecksumFails

LEMMA CallerNext == Seats /\ Once /\ Caller /\ [BNext]_bvars => Caller'
<1> SUFFICES ASSUME Seats, Once, Caller, [BNext]_bvars
             PROVE  Caller'
  OBVIOUS
<1>n. /\ since \in Nat /\ arrivals \in Nat /\ since <= arrivals
      /\ buffer \in Heard \union {NoFrame} /\ buffer.number <= arrivals
  BY DEF Once, Numbered, Caller
<1>1. CASE Transceives /\ Next /\ UNCHANGED <<since, woken, result>>
  <2>1. arrivals' \in {arrivals, arrivals + 1}
    BY <1>1 DEF Next, Transceiver, Loop, Transmission, Draining, Wait, GetIrqFlags, ClearFlags, Read,
       Forward, Rearm, DiscardStale, Start, TxWait, TxClear, Relisten, DrainNext, ScanChannel, ScanResult,
       Listen, ListenTimeout, Arrive, ChipStep, Enqueue, Pause, Resume, Notify, others
  <2>2. since' = since
    BY <1>1
  <2>3. pc' \in TransceiverPlaces
    <3>1. callback' = "radioIrq"
      BY <1>1 DEF Transceives, Next, Transceiver, Loop, Transmission, Draining, Wait, GetIrqFlags, ClearFlags, Read,
         Forward, Rearm, DiscardStale, Start, TxWait, TxClear, Relisten, DrainNext, ScanChannel, ScanResult,
         Listen, ListenTimeout, Arrive, ChipStep, Enqueue, Pause, Resume, Notify, config
    <3>2. QED
      BY <3>1, SeatsNext DEF Seats
  <2>4. QED
    BY <1>n, <2>1, <2>2, <2>3 DEF Caller, Armed, CadPlaces, TransceiverPlaces, Sending
<1>2. CASE ~Transceives /\ Blocking
  <2>a. UNCHANGED <<arrivals, buffer>>
    BY <1>2 DEF Blocking, DutyCall, DutyArm, DutyWait, DutyStop, DutyCheck, CadCall, CadScan, CadWait,
       CadFlagsTaken, CadClear, CadListen, CadStop, CadCheck, ReadAndReturn, ReadRxData, ClearIrqFlags,
       StartReceive, Standby, StartScan, chip, others, idle
  <2>1. CASE DutyCall
    BY <1>n, <2>a, <2>1 DEF DutyCall, Caller, Armed, CadPlaces
  <2>2. CASE DutyArm
    BY <1>n, <2>a, <2>2 DEF DutyArm, StartReceive, Returns, Caller, Armed, CadPlaces
  <2>3. CASE DutyWait
    BY <1>n, <2>a, <2>3 DEF DutyWait, chip, Caller, Armed, CadPlaces
  <2>4. CASE DutyStop
    BY <1>n, <2>a, <2>4 DEF DutyStop, Standby, Caller, Armed, CadPlaces
  <2>5. CASE DutyCheck
    BY <1>n, <2>a, <2>5 DEF DutyCheck, ReadAndReturn, Returns, Caller, Armed, CadPlaces
  <2>6. CASE CadCall
    BY <1>n, <2>a, <2>6 DEF CadCall, Caller, Armed, CadPlaces
  <2>7. CASE CadScan
    BY <1>n, <2>a, <2>7 DEF CadScan, StartScan, Returns, Caller, Armed, CadPlaces
  <2>8. CASE CadWait
    BY <1>n, <2>a, <2>8 DEF CadWait, Returns, chip, Caller, Armed, CadPlaces
  <2>9. CASE CadFlagsTaken
    BY <1>n, <2>a, <2>9 DEF CadFlagsTaken, chip, Caller, Armed, CadPlaces
  <2>10. CASE CadClear
    BY <1>n, <2>a, <2>10 DEF CadClear, ClearIrqFlags, CadFlags, Caller, Armed, CadPlaces
  <2>11. CASE CadListen
    BY <1>n, <2>a, <2>11 DEF CadListen, Dio1, chip, Caller, Armed, CadPlaces
  <2>12. CASE CadStop
    BY <1>n, <2>a, <2>12 DEF CadStop, Standby, Caller, Armed, CadPlaces
  <2>13. CASE CadCheck
    BY <1>n, <2>a, <2>13 DEF CadCheck, ReadAndReturn, Returns, Caller, Armed, CadPlaces
  <2>14. QED
    BY <1>2, <2>1, <2>2, <2>3, <2>4, <2>5, <2>6, <2>7, <2>8, <2>9, <2>10, <2>11, <2>12, <2>13 DEF Blocking
<1>3. CASE ~Transceives /\ Arrive /\ UNCHANGED <<since, woken, result>>
  <2>1. /\ arrivals' = arrivals + 1 /\ UNCHANGED <<pc, since, woken, mask>>
        /\ mode # "cad" /\ mode' # "cad"
    BY <1>3 DEF Arrive, Receives, software
  <2>2. PICK damaged \in BOOLEAN : Receives([number |-> arrivals + 1, damaged |-> damaged])
    BY <1>3 DEF Arrive
  <2>3. /\ buffer' = [number |-> arrivals + 1, damaged |-> damaged]
        /\ irq' = irq \union (IF damaged THEN {"RX_DONE", "CRC_ERR"} ELSE {"RX_DONE"})
    BY <2>2 DEF Receives, Raises
  <2>4. buffer' # NoFrame /\ buffer'.number > since /\ (buffer'.damaged => "CRC_ERR" \in irq')
    BY <1>n, <2>3 DEF NoFrame
  <2>5. /\ "CAD_DETECTED" \in irq' => "CAD_DETECTED" \in irq
        /\ irq' \cap CadFlags = irq \cap CadFlags /\ irq \subseteq irq'
    BY <2>3 DEF CadFlags
  <2>6. since' <= arrivals' /\ since' \in Nat
    BY <1>n, <2>1
  <2>7. QED
    BY <2>1, <2>4, <2>5, <2>6 DEF Caller
<1>4. CASE ~Transceives /\ ChipStep /\ UNCHANGED <<since, woken, result>>
  <2>1. /\ UNCHANGED <<pc, since, woken, mask, arrivals, buffer>> /\ mode \in {"cad", "cadRx"} /\ mode' # "cad"
    BY <1>4 DEF Seats, Transceives, ChipStep, Transmitted, Scanned, HearsNothing, software, others
  <2>2. /\ "RX_DONE" \in irq' => "RX_DONE" \in irq
        /\ irq \subseteq irq'
        /\ mode # "cad" => irq' = irq \union {"TIMEOUT"}
    BY <1>4, <2>1 DEF ChipStep, Transmitted, Scanned, HearsNothing, Raises, CadFlags
  <2>3. mode # "cad" => irq' \cap CadFlags = irq \cap CadFlags
    BY <2>2 DEF CadFlags
  <2>4. pc = "cadListen" => mode # "cad"
    BY DEF Caller, CadPlaces
  <2>5. QED
    BY <1>n, <2>1, <2>2, <2>3, <2>4 DEF Caller
<1>5. CASE UNCHANGED bvars
  BY <1>5 DEF bvars, rvars, chip, software, others, Caller
<1>6. QED
  BY <1>1, <1>2, <1>3, <1>4, <1>5 DEF BNext

LEMMA OnceNext == Seats /\ Caller /\ Once /\ [BNext]_bvars => Once'
<1> SUFFICES ASSUME Seats, Caller, Once, [BNext]_bvars
             PROVE  Once'
  OBVIOUS
<1>n. /\ arrivals \in Nat /\ delivered \in Seq(Heard)
      /\ buffer \in Heard \union {NoFrame} /\ buffer.number <= arrivals
      /\ hand \in Heard \union {NoFrame} /\ hand.number <= arrivals
      /\ \A i \in 1..Len(delivered) : delivered[i].number <= arrivals
  BY DEF Once, Numbered
<1>z. \A f \in Heard \union {NoFrame} : f.number \in Nat /\ (f.number = 0 <=> f = NoFrame)
  BY ZeroFrame
\* Nothing is passed on, and no frame becomes readable.
<1>1. ASSUME /\ UNCHANGED <<arrivals, delivered>>
             /\ UNCHANGED buffer \/ (buffer' = NoFrame /\ ~Readable')
             /\ UNCHANGED hand
             /\ Readable' => Readable
             /\ Forwarding' => Forwarding
      PROVE  Once'
  <2>1. \A n : IsNew(n)' <=> IsNew(n)
    BY <1>1 DEF IsNew
  <2>2. Numbered'
    BY <1>n, <1>1, ZeroFrame DEF Numbered
  <2>3. Fresh'
    BY <1>1, <2>1 DEF Once, Fresh
  <2>4. PassedOnOnce'
    BY <1>1 DEF Once, PassedOnOnce
  <2>5. QED
    BY <2>2, <2>3, <2>4 DEF Once
<1>2. CASE Transceives /\ (Wait \/ GetIrqFlags \/ ClearFlags \/ Rearm)
  <2>1. UNCHANGED <<arrivals, delivered, buffer, hand>>
    BY <1>2 DEF Wait, GetIrqFlags, ClearFlags, Rearm, ClearIrqFlags, StartReceive, Standby,
       chip, line, config, software, others, history
  <2>2. Readable' => Readable
    BY <1>2 DEF Wait, GetIrqFlags, ClearFlags, Rearm, ClearIrqFlags, StartReceive, Standby, AfterReceive,
       chip, line, config, software, others, history, Readable
  <2>3. ~Forwarding'
    BY <1>2 DEF Wait, GetIrqFlags, ClearFlags, Rearm, AfterReceive, Forwarding, Sending
  <2>4. QED
    BY <1>1, <2>1, <2>2, <2>3
<1>3. CASE Transceives /\ (Transmission \/ Draining)
  <2>1. /\ UNCHANGED <<arrivals, delivered, hand>>
        /\ buffer' = buffer \/ (buffer' = NoFrame /\ irq' = {})
    BY <1>3 DEF Transmission, Draining, DiscardStale, Start, TxWait, TxClear, Relisten, DrainNext, ScanChannel,
       ScanResult, Listen, ListenTimeout, ClearIrqFlags, StartReceive, Standby, StartTransmit, StartScan,
       chip, line, config, software, others, history
  <2>2. irq' \subseteq irq
    BY <1>3 DEF Transmission, Draining, DiscardStale, Start, TxWait, TxClear, Relisten, DrainNext, ScanChannel,
       ScanResult, Listen, ListenTimeout, ClearIrqFlags, StartReceive, Standby, StartTransmit, StartScan,
       chip, line, config, software, others, history
  <2>3. pc' \notin {"read", "clear"}
    BY <1>3 DEF Transmission, Draining, DiscardStale, Start, TxWait, TxClear, Relisten, DrainNext, ScanChannel,
       ScanResult, Listen, ListenTimeout, AfterReceive, Seats
  <2>4. Forwarding' => Forwarding
    BY <1>3 DEF Transmission, Draining, DiscardStale, Start, TxWait, TxClear, Relisten, DrainNext, ScanChannel,
       ScanResult, Listen, ListenTimeout, AfterReceive, Seats, Forwarding, Sending
  <2>5. QED
    BY <1>1, <2>1, <2>2, <2>3, <2>4 DEF Readable
<1>4. CASE Transceives /\ Forward
  <2>1. /\ UNCHANGED <<arrivals, buffer, hand, irq>> /\ Deliver(hand)
        /\ pc' \in {"drain", "rearm"} /\ pc = "forward"
    BY <1>4 DEF Forward, AfterReceive, chip, others
  <2>2. hand \in Heard /\ IsNew(hand.number) /\ Forwarding
    BY <1>n, <2>1 DEF Once, Fresh, Forwarding
  <2>3. /\ PassedOnOnce' /\ delivered' \in Seq(Heard)
        /\ \A i \in 1..Len(delivered') : delivered'[i].number <= arrivals
        /\ \A n : n # hand.number /\ IsNew(n) => IsNew(n)'
    BY <1>n, <2>1, <2>2, DeliverNew DEF Once
  <2>4. Numbered'
    BY <1>n, <2>1, <2>3 DEF Numbered
  <2>5. ~Forwarding'
    BY <2>1 DEF Forwarding, Sending
  <2>6. Readable' => Readable
    BY <2>1 DEF Readable
  <2>7. Fresh'
    BY <2>1, <2>2, <2>3, <2>5, <2>6 DEF Once, Fresh
  <2>8. QED
    BY <2>3, <2>4, <2>7 DEF Once
<1>5. CASE Transceives /\ Read
  <2>1. /\ pc = "read" /\ UNCHANGED <<arrivals, buffer>> /\ irq' = {} /\ hand' = buffer
    BY <1>5 DEF Read, ReadRxData, others
  <2>2. IsNew(buffer.number)
    BY <2>1 DEF Once, Fresh, Readable
  <2>3. pc' \in {"relisten", "standby", "drain", "rearm"}
    BY <1>5 DEF Read, Drops, ExchangeTakes, LoopTakes, Kinds, AfterReceive
  <2>4. ~Readable'
    BY <2>1, <2>3 DEF Readable
  <2>5. Forwarding' => buffer # NoFrame /\ UNCHANGED delivered
    BY <1>5 DEF Read, Drops, ExchangeTakes, LoopTakes, Kinds, AfterReceive, Forwarding, Sending
  <2>6. Fresh'
    BY <2>1, <2>2, <2>4, <2>5 DEF Fresh, IsNew
  <2>7. UNCHANGED delivered \/ (buffer # NoFrame /\ Deliver(buffer))
    BY <1>5 DEF Read, Drops, ExchangeTakes, LoopTakes, Kinds
  <2>8. CASE UNCHANGED delivered
    BY <1>n, <2>1, <2>6, <2>8 DEF Once, Numbered, PassedOnOnce
  <2>9. CASE buffer # NoFrame /\ Deliver(buffer)
    <3>1. /\ PassedOnOnce' /\ delivered' \in Seq(Heard)
          /\ \A i \in 1..Len(delivered') : delivered'[i].number <= arrivals
      BY <1>n, <2>2, <2>9, DeliverNew DEF Once
    <3>2. QED
      BY <1>n, <2>1, <2>6, <3>1 DEF Once, Numbered
  <2>10. QED
    BY <2>7, <2>8, <2>9
<1>6. CASE ~Transceives /\ Blocking
  <2>1. /\ UNCHANGED <<arrivals, buffer, hand>> /\ irq' \subseteq irq
    BY <1>6 DEF Blocking, DutyCall, DutyArm, DutyWait, DutyStop, DutyCheck, CadCall, CadScan, CadWait,
       CadFlagsTaken, CadClear, CadListen, CadStop, CadCheck, ReadAndReturn, ReadRxData, ClearIrqFlags,
       StartReceive, Standby, StartScan, chip, others, idle
  <2>2. pc' \in CallerPlaces
    BY <1>6 DEF Blocking, DutyCall, DutyArm, DutyWait, DutyStop, DutyCheck, CadCall, CadScan, CadWait,
       CadFlagsTaken, CadClear, CadListen, CadStop, CadCheck, ReadAndReturn, Returns, CallerPlaces, Armed
  <2>3. ~Forwarding' /\ (Readable' => Readable)
    BY <2>1, <2>2 DEF Forwarding, Sending, Readable, CallerPlaces, Armed
  <2>4. UNCHANGED delivered \/ (Reads /\ Deliver(buffer))
    BY <1>6, ReadsOnly
  <2>5. CASE UNCHANGED delivered
    BY <1>1, <2>1, <2>3, <2>5
  <2>6. CASE Reads /\ Deliver(buffer)
    <3>1. "RX_DONE" \in irq /\ irq' = {} /\ Deliver(buffer) /\ buffer \in Heard
      BY <2>6, ReadsFrame DEF Once
    <3>2. /\ PassedOnOnce' /\ delivered' \in Seq(Heard)
          /\ \A i \in 1..Len(delivered') : delivered'[i].number <= arrivals
      <4>1. IsNew(buffer.number)
        BY <3>1 DEF Once, Fresh, Readable
      <4>2. QED
        BY <1>n, <3>1, <4>1, DeliverNew DEF Once
    <3>3. ~Readable'
      BY <2>2, <3>1 DEF Readable, CallerPlaces, Armed
    <3>4. QED
      BY <1>n, <2>1, <2>3, <3>2, <3>3 DEF Once, Numbered, Fresh
  <2>7. QED
    BY <2>4, <2>5, <2>6
<1>7. CASE Arrive
  <2>1. /\ arrivals' = arrivals + 1 /\ UNCHANGED <<delivered, hand, pc, then>>
        /\ \E damaged \in BOOLEAN : buffer' = [number |-> arrivals + 1, damaged |-> damaged]
    BY <1>7 DEF Arrive, Receives, software, history
  <2>2. buffer' \in Heard /\ buffer'.number = arrivals + 1
    BY <1>n, <2>1 DEF Heard
  <2>3. \A n : IsNew(n)' <=> IsNew(n)
    BY <2>1 DEF IsNew
  <2>4. \A i \in 1..Len(delivered) : delivered[i].number \in Nat
    <3>1. \A i \in 1..Len(delivered) : delivered[i] \in Heard
      BY <1>n
    <3>2. QED
      BY <1>z, <3>1
  <2>5. Numbered'
    <3>1. arrivals' \in Nat /\ buffer'.number <= arrivals' /\ hand'.number <= arrivals'
      BY <1>n, <1>z, <2>1, <2>2
    <3>2. \A i \in 1..Len(delivered) : delivered[i].number <= arrivals + 1
      BY <1>n, <2>4
    <3>3. QED
      BY <1>n, <2>1, <2>2, <3>1, <3>2 DEF Numbered
  <2>6. IsNew(buffer'.number) /\ buffer'.number # hand.number
    BY <1>n, <1>z, <2>2, <2>4 DEF IsNew
  <2>7. Forwarding' = Forwarding
    BY <2>1 DEF Forwarding
  <2>8. Fresh'
    BY <2>1, <2>3, <2>6, <2>7 DEF Once, Fresh
  <2>9. QED
    BY <2>1, <2>5, <2>8 DEF Once, PassedOnOnce
<1>8. CASE ChipStep \/ (Transceives /\ (Enqueue \/ Pause \/ Resume)) \/ UNCHANGED bvars
  <2>1. /\ UNCHANGED <<arrivals, delivered, buffer, hand, pc, then, taken>>
        /\ "RX_DONE" \in irq' => "RX_DONE" \in irq
    BY <1>8 DEF ChipStep, Transmitted, Scanned, HearsNothing, Raises, CadFlags, Enqueue, Pause, Resume, Notify,
       bvars, rvars, chip, line, config, software, others, history
  <2>2. QED
    BY <1>1, <2>1 DEF Readable, Forwarding
<1>9. QED
  BY <1>2, <1>3, <1>4, <1>5, <1>6, <1>7, <1>8 DEF BNext, Next, Transceiver, Loop

LEMMA FreshReadsNext ==
    Seats /\ Caller /\ Once /\ BlockingReadsAreFresh /\ [BNext]_bvars => BlockingReadsAreFresh'
<1> SUFFICES ASSUME Seats, Caller, Once, BlockingReadsAreFresh, [BNext]_bvars,
                    (~Transceives)', pc' = "idle", result' = "OK"
             PROVE  delivered'[Len(delivered')].number > since' /\ ~delivered'[Len(delivered')].damaged
  BY DEF BlockingReadsAreFresh
\* A call that ends without a frame does not return OK.
<1>1. CASE ~Transceives /\ Blocking
  <2>1. Reads /\ Deliver(buffer) /\ ~ChecksumFails /\ UNCHANGED since
    BY <1>1 DEF Blocking, DutyCall, DutyArm, DutyWait, DutyStop, DutyCheck, CadCall, CadScan, CadWait,
       CadFlagsTaken, CadClear, CadListen, CadStop, CadCheck, Reads, ReadAndReturn, Returns, ChecksumFails
  <2>2. buffer \in Heard /\ buffer.number > since /\ ~buffer.damaged
    BY <2>1, ReadsFrame DEF Once
  <2>3. "RX_DONE" \in irq
    BY <2>1, ReadsFrame DEF Once
  <2>4. delivered'[Len(delivered')] = buffer
    <3>1. IsNew(buffer.number)
      BY <2>3 DEF Once, Fresh, Readable
    <3>2. buffer.number <= arrivals
      BY DEF Once, Numbered
    <3>3. QED
      BY <2>1, <2>2, <3>1, <3>2, DeliverNew DEF Once
  <2>5. QED
    BY <2>1, <2>2, <2>4
<1>2. CASE UNCHANGED <<callback, pc, delivered, since, result>>
  BY <1>2 DEF BlockingReadsAreFresh, Transceives
<1>3. CASE (Arrive \/ ChipStep) /\ UNCHANGED <<since, woken, result>>
  BY <1>2, <1>3 DEF Arrive, ChipStep, config, software, history
<1>4. CASE UNCHANGED bvars
  BY <1>2, <1>4 DEF bvars, rvars, config, software, history
<1>5. CASE Transceives /\ Next
  <2>1. callback' = "radioIrq"
    BY <1>5 DEF Transceives, Next, Transceiver, Loop, Transmission, Draining, Wait, GetIrqFlags, ClearFlags, Read,
       Forward, Rearm, DiscardStale, Start, TxWait, TxClear, Relisten, DrainNext, ScanChannel, ScanResult,
       Listen, ListenTimeout, Arrive, ChipStep, Enqueue, Pause, Resume, Notify, config
  <2>2. QED
    BY <2>1 DEF Transceives
<1>6. QED
  BY <1>1, <1>3, <1>4, <1>5 DEF BNext

-----------------------------------------------------------------------------
(* The theorems *)

IInv == Seats /\ NeverDeaf /\ Undisturbed /\ Caller /\ Once /\ BlockingReadsAreFresh

LEMMA IInvHolds == BSpec => []IInv
<1>1. BInit \/ CallerInit => IInv
  BY SeatsInit, NeverDeafInit, UndisturbedInit, CallerInv, OnceInit DEF IInv
<1>2. IInv /\ [BNext]_bvars => IInv'
  BY SeatsNext, NeverDeafNext, UndisturbedNext, CallerNext, OnceNext, FreshReadsNext DEF IInv
<1>3. QED
  BY <1>1, <1>2, PTL DEF BSpec

\* Whatever way TRANSCEIVER came back to the wait of its loop, the radio listens, or a frame has
\* arrived and is notified (transceiver_task).
THEOREM NeverDeafHolds == BSpec => []NeverDeaf
<1>1. IInv => NeverDeaf
  BY DEF IInv
<1>2. QED
  BY <1>1, IInvHolds, PTL

\* A transmission is cut off only when another task notified TRANSCEIVER since it discarded
\* what was stale, or when the frame takes longer than the wait for it (transmit_and_wait).
THEOREM CutOnlyByOthersHolds == BSpec => CutOnlyByOthers
<1>1. ASSUME IInv, [BNext]_bvars
      PROVE  [mode = "tx" /\ mode' # "tx" /\ "TX_DONE" \notin irq' => disturbed \/ Slow(air.bytes)]_rvars
  BY <1>1, CutStep DEF IInv
<1>2. QED
  BY <1>1, IInvHolds, PTL DEF BSpec, CutOnlyByOthers

\* A frame the chip received is put into rx_queue at most once, although flags, notifications
\* and the buffer outlive the wait they were made for.
THEOREM PassedOnOnceHolds == BSpec => []PassedOnOnce
<1>1. IInv => PassedOnOnce
  BY DEF IInv, Once
<1>2. QED
  BY <1>1, IInvHolds, PTL

\* A blocking reception that returns a frame returns one that arrived since it was called, and
\* whose checksum is right (RadioLib_DutyCycleReceive, RadioLib_CadReceive).
THEOREM BlockingReadsAreFreshHolds == BSpec => []BlockingReadsAreFresh
<1>1. IInv => BlockingReadsAreFresh
  BY DEF IInv
<1>2. QED
  BY <1>1, IInvHolds, PTL

-----------------------------------------------------------------------------
(* Types *)

\* What TRANSCEIVER counts is bounded where it counts it: attempts of a scan, and of an exchange.
Frames == {Frame(n) : n \in Nat}
Typed ==
    /\ TypeOK
    /\ txq \in Seq(Frames) /\ queued \in Nat
    /\ pc \in {"cad", "scan"} => tries < CadMaxAttempts
    /\ exchange => pc # "arm"

\* Nothing is queued and nothing counted.
LEMMA TypedInit == BInit \/ CallerInit => Typed
<1> SUFFICES ASSUME BInit \/ CallerInit PROVE Typed
  OBVIOUS
<1>1. /\ mode \in {"standby", "rx", "dutyRx"} /\ bits = {} /\ pending = FALSE /\ irq = {}
      /\ tries = 0 /\ txq = <<>> /\ queued = 0 /\ exchange = FALSE
  BY ReceiveModes DEF BInit, CallerInit, Init
<1>2. txq \in Seq(Frames) /\ Len(txq) <= QueueLength
  BY <1>1 DEF QueueLength
<1>3. tries \in 0..CadMaxAttempts /\ tries < CadMaxAttempts /\ queued \in Nat
  BY <1>1 DEF CadMaxAttempts
<1>4. ~exchange /\ pending \in BOOLEAN
  BY <1>1
<1> QED
  BY <1>1, <1>2, <1>3, <1>4 DEF Typed, TypeOK

\* The chip, its flags and the notification have the values of their types.
LEMMA TypedLine == ASSUME Seats, Typed, [BNext]_bvars
                   PROVE  /\ mode' \in {"standby", "tx", "cad", "rx", "dutyRx", "cadRx"}
                          /\ irq' \subseteq CadFlags \union {"RX_DONE", "TX_DONE", "CRC_ERR", "TIMEOUT"}
                          /\ bits' \subseteq {"RADIO_IRQ", "TX_READY", "PAUSE", "RESUME"}
                          /\ pending' \in BOOLEAN
<1> USE DEF chip, line, config, software, others, history, idle
<1>0. /\ mode \in {"standby", "tx", "cad", "rx", "dutyRx", "cadRx"}
      /\ irq \subseteq CadFlags \union {"RX_DONE", "TX_DONE", "CRC_ERR", "TIMEOUT"}
      /\ bits \subseteq {"RADIO_IRQ", "TX_READY", "PAUSE", "RESUME"} /\ pending \in BOOLEAN
      /\ exit \in {"standby", "cadRx"}
  BY DEF Typed, TypeOK, Seats
<1>1. CASE UNCHANGED bvars
  BY <1>0, <1>1 DEF bvars, rvars
<1>r. ASSUME NEW fl, Raises(fl), fl \subseteq CadFlags \union {"RX_DONE", "TX_DONE", "CRC_ERR", "TIMEOUT"}
      PROVE  /\ irq' \subseteq CadFlags \union {"RX_DONE", "TX_DONE", "CRC_ERR", "TIMEOUT"}
             /\ bits' \subseteq {"RADIO_IRQ", "TX_READY", "PAUSE", "RESUME"} /\ pending' \in BOOLEAN
  <2>1. irq' = irq \union fl
    BY <1>r DEF Raises
  <2>2. UNCHANGED <<bits, pending>> \/ (bits' = bits \union {"RADIO_IRQ"} /\ pending' = TRUE)
    BY <1>r DEF Raises, Seats
  <2> QED
    BY <1>0, <1>r, <2>1, <2>2
<1>2. CASE Arrive
  <2>1. PICK f : Receives(f)
    BY <1>2 DEF Arrive
  <2>2. /\ Raises({"RX_DONE", "CRC_ERR"}) \/ Raises({"RX_DONE"})
        /\ mode' \in {"rx", "standby"}
    BY <2>1 DEF Receives
  <2> QED
    BY <1>r, <2>2
<1>3. CASE ChipStep
  <2>1. /\ \/ Raises({"TX_DONE"}) \/ Raises({"CAD_DONE"}) \/ Raises(CadFlags) \/ Raises({"TIMEOUT"})
        /\ mode' \in {"standby", exit}
    BY <1>3 DEF ChipStep, Transmitted, Scanned, HearsNothing
  <2> QED
    BY <1>0, <1>r, <2>1 DEF CadFlags
<1>4. CASE Enqueue \/ Pause \/ Resume
  BY <1>0, <1>4 DEF Enqueue, Pause, Resume, Notify
<1>5. CASE Transceiver
  <2>1. CASE Loop
    <3>1. CASE Rearm
      BY <1>0, <3>1, ReceiveModes DEF Rearm, StartReceive, Standby
    <3>2. CASE Wait \/ GetIrqFlags \/ Forward
      BY <1>0, <3>2 DEF Wait, GetIrqFlags, Forward
    <3>3. CASE ClearFlags \/ Read
      BY <1>0, <3>3 DEF ClearFlags, Read, ClearIrqFlags, ReadRxData
    <3> QED
      BY <2>1, <3>1, <3>2, <3>3 DEF Loop
  <2>2. CASE Transmission
    <3>1. CASE DiscardStale \/ Start \/ TxWait \/ TxClear
      BY <1>0, <3>1 DEF DiscardStale, Start, TxWait, TxClear, Standby, StartTransmit, ClearIrqFlags
    <3>2. CASE Relisten
      BY <1>0, <3>2, ReceiveModes DEF Relisten, StartReceive
    <3> QED
      BY <2>2, <3>1, <3>2 DEF Transmission
  <2>3. CASE Draining
    BY <1>0, <2>3 DEF Draining, DrainNext, ScanChannel, ScanResult, Listen, ListenTimeout, StartScan
  <2> QED
    BY <1>5, <2>1, <2>2, <2>3 DEF Transceiver
<1>6. CASE Blocking
  <2>1. UNCHANGED <<bits, pending>>
    BY <1>6 DEF Blocking, DutyCall, DutyArm, DutyWait, DutyStop, DutyCheck, CadCall, CadScan, CadWait,
       CadFlagsTaken, CadClear, CadListen, CadStop, CadCheck, AttachDutyCycle, DetachInterrupt
  <2>2. irq' \subseteq irq
    BY <1>6, ReceiveModes DEF Blocking, DutyCall, DutyArm, DutyWait, DutyStop, DutyCheck, CadCall, CadScan, CadWait,
       CadFlagsTaken, CadClear, CadListen, CadStop, CadCheck, ClearIrqFlags, ReadAndReturn, ReadRxData, StartReceive,
       Standby, StartScan
  <2>3. mode' \in {mode, "standby", "cad", "rx", "dutyRx"}
    BY <1>6, ReceiveModes DEF Blocking, DutyCall, DutyArm, DutyWait, DutyStop, DutyCheck, CadCall, CadScan, CadWait,
       CadFlagsTaken, CadClear, CadListen, CadStop, CadCheck, ClearIrqFlags, ReadAndReturn, ReadRxData, StartReceive,
       Standby, StartScan
  <2> QED
    BY <1>0, <2>1, <2>2, <2>3
<1> QED
  BY <1>1, <1>2, <1>3, <1>4, <1>5, <1>6 DEF BNext, Next

\* The queue of frames holds what was queued, and no more than it has room for.
LEMMA TypedQueue == ASSUME Typed, [BNext]_bvars
                    PROVE  txq' \in Seq(Frames) /\ queued' \in Nat /\ Len(txq') <= QueueLength
<1>0. txq \in Seq(Frames) /\ queued \in Nat /\ Len(txq) <= QueueLength
  BY DEF Typed, TypeOK
<1>1. CASE Enqueue
  <2>1. Frame(queued + 1) \in Frames
    BY <1>0 DEF Frames
  <2>2. txq' = Append(txq, Frame(queued + 1)) /\ queued' = queued + 1 /\ Len(txq) < QueueLength
    BY <1>1 DEF Enqueue
  <2> HIDE DEF Frames
  <2> QED
    BY <1>0, <2>1, <2>2 DEF QueueLength
<1>2. CASE DrainNext
  <2>1. queued' = queued /\ (UNCHANGED txq \/ (txq # <<>> /\ txq' = Tail(txq)))
    BY <1>2 DEF DrainNext
  <2> QED
    BY <1>0, <2>1 DEF QueueLength
<1>3. CASE UNCHANGED <<txq, queued>>
  BY <1>0, <1>3
<1>4. Enqueue \/ DrainNext \/ UNCHANGED <<txq, queued>>
  <2> USE DEF others, idle
  <2>1. CASE Transceiver
    BY <2>1 DEF Transceiver, Loop, Transmission, Draining, Wait, GetIrqFlags, ClearFlags, Read,
       Forward, Rearm, DiscardStale, Start, TxWait, TxClear, Relisten, ScanChannel, ScanResult,
       Listen, ListenTimeout
  <2>2. CASE Blocking
    BY <2>2 DEF Blocking, DutyCall, DutyArm, DutyWait, DutyStop, DutyCheck, CadCall, CadScan, CadWait,
       CadFlagsTaken, CadClear, CadListen, CadStop, CadCheck
  <2>3. CASE Arrive \/ ChipStep \/ Pause \/ Resume
    BY <2>3 DEF Arrive, ChipStep, Pause, Resume
  <2>4. CASE UNCHANGED bvars
    BY <2>4 DEF bvars, rvars
  <2> QED
    BY <2>1, <2>2, <2>3, <2>4 DEF BNext, Next
<1> QED
  BY <1>1, <1>2, <1>3, <1>4

\* Where TRANSCEIVER is in an exchange, and what it counts.
LEMMA TypedCount == ASSUME Seats, Typed, [BNext]_bvars
                    PROVE  /\ tries' \in 0..CadMaxAttempts
                           /\ pc' \in {"cad", "scan"} => tries' < CadMaxAttempts
                           /\ exchange' => pc' \notin {"wait", "drain", "rearm", "arm", "cad", "scan", "forward", "again"}
<1> USE DEF chip, line, config, software, others, history, idle
<1>0. /\ tries \in 0..CadMaxAttempts /\ (pc \in {"cad", "scan"} => tries < CadMaxAttempts)
      /\ exchange => pc \notin {"wait", "drain", "rearm", "arm", "cad", "scan", "forward", "again"}
      /\ exchange => then = "relisten"
      /\ CadMaxAttempts = 4 /\ SawMaxRetx = 3
  BY DEF Typed, TypeOK, Seats, CadMaxAttempts, SawMaxRetx
<1>1. CASE UNCHANGED <<tries, pc, exchange>>
  BY <1>0, <1>1
<1>2. CASE Arrive \/ ChipStep \/ Enqueue \/ Pause \/ Resume \/ UNCHANGED bvars
  BY <1>1, <1>2 DEF Arrive, ChipStep, Enqueue, Pause, Resume, Notify, bvars, rvars
<1>3. CASE Transceives /\ Loop
  <2>1. CASE Wait \/ GetIrqFlags \/ Forward
    BY <1>0, <2>1 DEF Wait, GetIrqFlags, Forward, AfterReceive
  <2>2. CASE ClearFlags
    BY <1>0, <2>2 DEF ClearFlags, AfterReceive
  <2>3. CASE Rearm
    <3>1. ~exchange /\ exchange' = exchange /\ tries' = tries /\ pc' \in {"wait", "arm"}
      BY <1>0, <2>3 DEF Rearm
    <3> QED
      BY <3>1, <1>0
  <2>4. CASE Read
    BY <1>0, <2>4 DEF Read, Drops, ExchangeTakes, LoopTakes, Kinds, AfterReceive
  <2> QED
    BY <1>3, <2>1, <2>2, <2>3, <2>4 DEF Loop
<1>4. CASE Transceives /\ Transmission
  BY <1>0, <1>4 DEF Transmission, DiscardStale, Start, TxWait, TxClear, Relisten, AfterReceive, Seats
<1>5. CASE Transceives /\ Draining
  <2>1. CASE DrainNext
    BY <1>0, <2>1 DEF DrainNext
  <2>2. CASE ScanChannel \/ Listen
    BY <1>0, <2>2 DEF ScanChannel, Listen
  <2>3. CASE ScanResult
    BY <1>0, <2>3 DEF ScanResult
  <2>4. CASE ListenTimeout
    BY <1>0, <2>4 DEF ListenTimeout
  <2> QED
    BY <1>5, <2>1, <2>2, <2>3, <2>4 DEF Draining
<1>6. CASE ~Transceives /\ Blocking
  <2>1. UNCHANGED <<tries, exchange>>
    BY <1>6 DEF Blocking, DutyCall, DutyArm, DutyWait, DutyStop, DutyCheck, CadCall, CadScan, CadWait,
       CadFlagsTaken, CadClear, CadListen, CadStop, CadCheck
  <2>2. pc' \in CallerPlaces
    BY <1>6 DEF Blocking, DutyCall, DutyArm, DutyWait, DutyStop, DutyCheck, CadCall, CadScan, CadWait,
       CadFlagsTaken, CadClear, CadListen, CadStop, CadCheck, ReadAndReturn, Returns, CallerPlaces, Armed
  <2> QED
    BY <1>0, <2>1, <2>2 DEF CallerPlaces, Armed
<1> QED
  BY <1>2, <1>3, <1>4, <1>5, <1>6 DEF BNext, Next, Transceiver

\* No step leaves the types.
LEMMA TypedNext == Seats /\ Typed /\ [BNext]_bvars => Typed'
BY TypedLine, TypedQueue, TypedCount DEF Typed, TypeOK

\* Each variable keeps to its type; TRANSCEIVER gives a scan and an exchange no more attempts
\* than it may, queues no more frames than there is room for, and is in saw_send only where
\* saw_send is (transceiver.c, saw.c, cad.c).
THEOREM TypeOKHolds == BSpec => []TypeOK
<1>1. BInit \/ CallerInit => Typed
  BY TypedInit
<1>2. Seats /\ Typed /\ [BNext]_bvars => Typed'
  BY TypedNext
<1>3. Typed => TypeOK
  BY DEF Typed
<1>4. IInv => Seats
  BY DEF IInv
<1>5. QED
  BY <1>1, <1>2, <1>3, <1>4, IInvHolds, PTL DEF BSpec

=============================================================================
