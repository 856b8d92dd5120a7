------------------------------- MODULE Sx1262 -------------------------------
(***************************************************************************)
(* The radio chip as its driver uses it (radiolib_wrapper.cpp), its line   *)
(* DIO1, and what an edge of that line does: the interrupt of the line     *)
(* runs the callback that is attached to it (stm32_radiolib_hal.cpp), which*)
(* notifies TRANSCEIVER or gives the semaphore of a blocking reception.    *)
(***************************************************************************)
EXTENDS Timing

VARIABLES
    mode,      \* "standby", "tx", "cad", "rx", "dutyRx" or "cadRx"
    exit,      \* the mode that a channel scan leaves for when it detects something
    irq, mask, \* the flags that are set, and those DIO1 is high for
    buffer,    \* the frame received
    air,       \* the frame it transmits
    link,      \* the configuration it is set to
    callback,  \* what is attached to DIO1: "none", "radioIrq", "dutyCycle" or "detached"
    latched,   \* an edge came while the interrupt was disabled
    bits, pending,  \* the notification of TRANSCEIVER: its value, and whether it is new
    semaphore  \* s_dutyCycleSem

chip == <<mode, exit, irq, mask, buffer, air>>
line == <<latched, bits, pending, semaphore>>

NoFrame == [number |-> 0]

CadFlags == {"CAD_DONE", "CAD_DETECTED"}

-----------------------------------------------------------------------------
(* What the link makes of a command *)

TxDoneTimeoutMs == 5000    \* TX_DONE_TIMEOUT_MS
FrameMax == 255            \* AIR_FRAME_MAX

\* The frame of this length is still on the air when the wait for TX_DONE is over.
Slow(bytes) == AirtimeUs(link, bytes) > TxDoneTimeoutMs * 1000

\* startReceiveDutyCycleAuto, with eight symbols to recognise a preamble: a short preamble
\* is listened for all the time, and for a very long one the period overflows its register.
SleepUs == SymbolUs(link) * (link.preamble - 16)
ReceiveMode == CASE SleepUs < 1016 -> "rx"
                 [] SleepUs \in 1016..(1000 + 125 * 2^21 - 1) -> "dutyRx"
                 [] OTHER -> "fails"

-----------------------------------------------------------------------------
(* Commands.  Each first puts the chip into standby, which ends what it was doing. *)

Standby == mode' = "standby" /\ air' = NoFrame /\ UNCHANGED <<exit, irq, mask, buffer>>

\* Wrong variant: the flags are left as they are.
StartReceiveKeepsFlags ==
    IF ReceiveMode = "fails" THEN UNCHANGED chip
    ELSE /\ mode' = ReceiveMode /\ irq' = irq /\ mask' = {"RX_DONE"} /\ air' = NoFrame
         /\ UNCHANGED <<exit, buffer>>

\* RadioLib_StartReceive, whose result nobody looks at.
StartReceive ==
    IF ReceiveMode = "fails" THEN UNCHANGED chip
    ELSE /\ mode' = ReceiveMode /\ irq' = {} /\ mask' = {"RX_DONE"} /\ air' = NoFrame
         /\ UNCHANGED <<exit, buffer>>

\* The frame overwrites what was received.
StartTransmit(f) ==
    /\ mode' = "tx" /\ irq' = {} /\ mask' = {"TX_DONE"} /\ air' = f /\ buffer' = NoFrame
    /\ UNCHANGED exit

\* startChannelScan, of RadioLib_ScanChannel and of RadioLib_CadReceive
StartScan(leave, flags) ==
    /\ mode' = "cad" /\ exit' = leave /\ irq' = {} /\ mask' = flags /\ air' = NoFrame
    /\ UNCHANGED buffer

\* RadioLib_ClearIrqFlags
ClearIrqFlags(flags) == irq' = irq \ flags /\ UNCHANGED <<mode, exit, mask, buffer, air>>

\* readData looks at the flags for a bad checksum, and clears them.
ReadRxData == irq' = {} /\ UNCHANGED <<mode, exit, mask, buffer, air>>
ChecksumFails == "CRC_ERR" \in irq

Dio1 == irq \cap mask # {}

-----------------------------------------------------------------------------
(* Interrupts *)

\* The chip sets flags; when DIO1 rises the callback runs, if one is attached.
Raises(flags) ==
    /\ irq' = irq \union flags
    /\ IF Dio1 \/ flags \cap mask = {} THEN UNCHANGED line
       ELSE CASE callback = "radioIrq" ->
                     /\ bits' = bits \union {"RADIO_IRQ"} /\ pending' = TRUE
                     /\ UNCHANGED <<latched, semaphore>>
              [] callback = "dutyCycle" ->
                     semaphore' = TRUE /\ UNCHANGED <<latched, bits, pending>>
              [] callback = "detached" -> latched' = TRUE /\ UNCHANGED <<bits, pending, semaphore>>
              [] callback = "none" -> UNCHANGED line

\* attachInterrupt with the callback that gives the semaphore: an interrupt that is latched
\* comes at once.
AttachDutyCycle ==
    /\ callback' = "dutyCycle" /\ semaphore' = latched /\ latched' = FALSE
    /\ UNCHANGED <<bits, pending>>

DetachInterrupt == callback' = "detached" /\ latched' = FALSE /\ UNCHANGED <<bits, pending, semaphore>>

-----------------------------------------------------------------------------
(* What the chip does by itself *)

\* A frame ends.  Only a chip that listens all the time goes on listening.
Receives(f) ==
    /\ mode \in {"rx", "dutyRx", "cadRx"} /\ buffer' = f
    /\ mode' = IF mode = "rx" THEN "rx" ELSE "standby"
    /\ Raises(IF f.damaged THEN {"RX_DONE", "CRC_ERR"} ELSE {"RX_DONE"})
    /\ UNCHANGED <<exit, mask, air>>

Transmitted == mode = "tx" /\ mode' = "standby" /\ Raises({"TX_DONE"})
               /\ UNCHANGED <<exit, mask, buffer, air>>

Scanned ==
    /\ mode = "cad"
    /\ \/ Raises({"CAD_DONE"}) /\ mode' = "standby"
       \/ Raises(CadFlags) /\ mode' = exit
    /\ UNCHANGED <<exit, mask, buffer, air>>

\* What was detected turns out to be nothing.
HearsNothing == mode = "cadRx" /\ mode' = "standby" /\ Raises({"TIMEOUT"})
                /\ UNCHANGED <<exit, mask, buffer, air>>

=============================================================================
