-------------------------- MODULE BlockingReceive ---------------------------
(***************************************************************************)
(* The other users of the radio: RadioLib_DutyCycleReceive, which waits    *)
(* for a semaphore that the interrupt of DIO1 gives, and                   *)
(* RadioLib_CadReceive, which polls DIO1 through scan and reception        *)
(* (radiolib_wrapper.cpp).  A task calls them over and over, in any order. *)
(* The flight build has no caller: its radio is used by Radio alone, and   *)
(* so a behaviour has one user of the radio or the other.                  *)
(***************************************************************************)
EXTENDS Radio

VARIABLES since,    \* the frames that had arrived when the call began
          woken,    \* the wait ended with the semaphore, or with DIO1, and not with its time
          result    \* what the last call returned

bvars == <<rvars, since, woken, result>>

\* The variables of TRANSCEIVER that these calls do not use.
idle == <<then, exchange, hand, out, drain, tries, paused, others, disturbed, readyLost>>

BInit ==
    /\ Init /\ since = 0 /\ woken = FALSE /\ result = "none"

\* A task that has not called RadioLib_SetIrqTask.
CallerInit ==
    /\ link \in LinksUsed /\ mode = "standby" /\ exit = "standby" /\ irq = {} /\ mask = {}
    /\ buffer = NoFrame /\ air = NoFrame
    /\ callback = "none" /\ latched = FALSE /\ bits = {} /\ pending = FALSE /\ semaphore = FALSE
    /\ pc = "idle" /\ then = "rearm" /\ exchange = FALSE /\ taken = {} /\ hand = NoFrame
    /\ out = NoFrame /\ drain = FALSE /\ tries = 0 /\ paused = FALSE
    /\ txq = <<>> /\ arrivals = 0 /\ queued = 0 /\ pauses = 0
    /\ disturbed = FALSE /\ readyLost = FALSE /\ delivered = <<>>
    /\ since = 0 /\ woken = FALSE /\ result = "none"

Returns(r) == pc' = "idle" /\ result' = r

\* The end of both: the frame is read, and returned when its checksum is right.
ReadAndReturn ==
    /\ ReadRxData
    /\ IF ChecksumFails THEN Returns("CRC_MISMATCH") /\ UNCHANGED delivered
       ELSE Returns("OK") /\ Deliver(buffer)

-----------------------------------------------------------------------------
(* RadioLib_DutyCycleReceive *)

\* The semaphore is drained, and the callback attached.
DutyCall ==
    /\ pc = "idle" /\ pc' = "dutyArm" /\ since' = arrivals /\ AttachDutyCycle
    /\ UNCHANGED <<chip, link, taken, delivered, woken, result, idle>>

DutyArm ==
    /\ pc = "dutyArm" /\ StartReceive
    /\ IF ReceiveMode = "fails"
       THEN Returns("INVALID_RX_PERIOD") /\ DetachInterrupt
       ELSE pc' = "dutyWait" /\ UNCHANGED <<result, callback, line>>
    /\ UNCHANGED <<link, taken, delivered, since, woken, idle>>

\* The semaphore, or the end of the window.
DutyWait ==
    /\ pc = "dutyWait" /\ pc' = "dutyStop" /\ woken' = semaphore /\ semaphore' = FALSE
    /\ UNCHANGED <<chip, latched, bits, pending, link, callback, taken, delivered, since, result, idle>>

DutyStop ==
    /\ pc = "dutyStop" /\ pc' = "dutyCheck" /\ Standby
    /\ UNCHANGED <<line, link, callback, taken, delivered, since, woken, result, idle>>

\* Wrong variant: whatever the semaphore was given for, there is a frame.
DutyCheckTrusts ==
    /\ pc = "dutyCheck" /\ DetachInterrupt
    /\ IF woken THEN ReadAndReturn
       ELSE ClearIrqFlags(irq) /\ Returns("RX_TIMEOUT") /\ UNCHANGED delivered
    /\ UNCHANGED <<link, taken, since, woken, idle>>

DutyCheck ==
    /\ pc = "dutyCheck" /\ DetachInterrupt
    /\ IF woken /\ "RX_DONE" \in irq THEN ReadAndReturn
       ELSE ClearIrqFlags(irq) /\ Returns("RX_TIMEOUT") /\ UNCHANGED delivered
    /\ UNCHANGED <<link, taken, since, woken, idle>>

-----------------------------------------------------------------------------
(* RadioLib_CadReceive *)

CadCall ==
    /\ pc = "idle" /\ pc' = "cadScan" /\ since' = arrivals
    /\ UNCHANGED <<chip, line, link, callback, taken, delivered, woken, result, idle>>

\* The next scan, unless the time is over.
CadScan ==
    /\ pc = "cadScan"
    /\ \/ Returns("CHANNEL_FREE") /\ UNCHANGED chip
       \/ /\ StartScan("cadRx", CadFlags \union {"RX_DONE", "TIMEOUT"})
          /\ pc' = "cadWait" /\ UNCHANGED result
    /\ UNCHANGED <<line, link, callback, taken, delivered, since, woken, idle>>

CadWait ==
    /\ pc = "cadWait"
    /\ \/ Dio1 /\ pc' = "cadFlags" /\ UNCHANGED <<chip, result>>
       \/ ~Dio1 /\ Standby /\ Returns("CHANNEL_FREE")
    /\ UNCHANGED <<line, link, callback, taken, delivered, since, woken, idle>>

CadFlagsTaken ==
    /\ pc = "cadFlags" /\ taken' = irq
    /\ pc' = IF "CAD_DETECTED" \in irq THEN "cadClear" ELSE "cadScan"
    /\ UNCHANGED <<chip, line, link, callback, delivered, since, woken, result, idle>>

\* Only the flags of the scan: a frame that has arrived keeps DIO1 high.
CadClear ==
    /\ pc = "cadClear" /\ pc' = "cadListen" /\ ClearIrqFlags(CadFlags)
    /\ UNCHANGED <<line, link, callback, taken, delivered, since, woken, result, idle>>

CadListen ==
    /\ pc = "cadListen" /\ woken' = Dio1 /\ pc' = "cadStop"
    /\ UNCHANGED <<chip, line, link, callback, taken, delivered, since, result, idle>>

CadStop ==
    /\ pc = "cadStop" /\ pc' = "cadCheck" /\ Standby
    /\ UNCHANGED <<line, link, callback, taken, delivered, since, woken, result, idle>>

CadCheck ==
    /\ pc = "cadCheck"
    /\ IF ~woken \/ "TIMEOUT" \in irq
       THEN ClearIrqFlags(irq) /\ pc' = "cadScan" /\ UNCHANGED <<result, delivered>>
       ELSE ReadAndReturn
    /\ UNCHANGED <<line, link, callback, taken, since, woken, idle>>

-----------------------------------------------------------------------------

Blocking == \/ DutyCall \/ DutyArm \/ DutyWait \/ DutyStop \/ DutyCheck
            \/ CadCall \/ CadScan \/ CadWait \/ CadFlagsTaken \/ CadClear
            \/ CadListen \/ CadStop \/ CadCheck

\* The user that is there from the start.
Transceives == callback = "radioIrq"

BNext == \/ Transceives /\ Next /\ UNCHANGED <<since, woken, result>>
         \/ ~Transceives /\ Blocking
         \/ ~Transceives /\ (Arrive \/ ChipStep) /\ UNCHANGED <<since, woken, result>>

BSpec == (BInit \/ CallerInit) /\ [][BNext]_bvars

BFairSpec == BSpec /\ WF_bvars(Transceives /\ Transceiver /\ UNCHANGED <<since, woken, result>>)
                   /\ WF_bvars(ChipStep /\ UNCHANGED <<since, woken, result>>)
                   /\ WF_bvars(Resume /\ UNCHANGED <<since, woken, result>>)

\* A blocking reception that returns a frame returns one that arrived since it was called, and
\* whose checksum is right, although an interrupt can be left from an earlier call
\* (RadioLib_DutyCycleReceive and RadioLib_CadReceive, radiolib_wrapper.cpp).
BlockingReadsAreFresh ==
    ~Transceives /\ pc = "idle" /\ result = "OK" =>
        LET f == delivered[Len(delivered)]
        IN  f.number > since /\ ~f.damaged

=============================================================================
