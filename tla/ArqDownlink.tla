----------------------------- MODULE ArqDownlink -----------------------------
(***************************************************************************)
(* The sender of file downloads (arq.c, DL sessions): begun by COMMS on a  *)
(* telecommand (arq_begin_dl), announced by a notification bit, and run by *)
(* TRANSCEIVER (arq_run_dl), which sends DATA_BEGIN, windows of blocks     *)
(* read from flash one at a time, and DATA_END with a CRC for which it     *)
(* reads the blocks from flash again.  Meanwhile other tasks write flash.  *)
(*                                                                         *)
(* The receiver is on the ground and not part of the repository.  It keeps *)
(* the blocks it gets, reports them truthfully in DATA_ACKs, and accepts a *)
(* file that is complete and has the CRC of DATA_END.  Frames may be lost, *)
(* and a DATA_ACK may be late.                                             *)
(*                                                                         *)
(* The content of a block is a version, 1 at the start and one more at     *)
(* each write, and a CRC is the function from blocks to the versions it    *)
(* was computed over: two different files never have the same one.         *)
(***************************************************************************)
EXTENDS Naturals, Sequences, FiniteSetsExt

CONSTANTS Requests,    \* the download telecommands, in their order: [sid, total]
          Area,        \* blocks of the source area in flash
          Window,      \* ARQ_WINDOW_SIZE
          BitmapBits,  \* blocks a DATA_ACK reports beyond its base
          MaxWrites,   \* bound: writes to flash
          MaxLosses,   \* bound: frames lost on the air, blocks skipped after CAD
          MaxFailures  \* bound: exchanges given up by CAD, late DATA_ACKs, interruptions

Download == [sid : Nat, total : Nat \ {0}]

ASSUME RequestsAssumption ==
    Area \in Nat /\ Requests \in Seq(Download)
    /\ \A r \in DOMAIN Requests : Requests[r].total <= Area
ASSUME WindowAssumption == Window \in Nat \ {0} /\ BitmapBits \in Nat
ASSUME DownlinkBoundsAssumption == MaxWrites \in Nat /\ MaxLosses \in Nat /\ MaxFailures \in Nat

VARIABLES
    sess,      \* g_sess: its state and the request it is for
    request,   \* the next telecommand
    bit,       \* N_TRANSCEIVER_ARQ_DL_BIT of TRANSCEIVER
    pc,        \* where arq_run_dl is; "loop" outside it
    attempt,   \* attempt of arq_saw_frame
    listening, \* arq_saw_frame has transmitted and waits
    txBase, txNext, retx,  \* tx_base, tx_next, retx_attempts
    gaps,      \* the blocks the last DATA_ACK asks for that are still to be sent
    flash,     \* the source area, block by block
    crc,       \* the versions of the blocks in the CRC so far
    taken,     \* history: the file in flash when the last window was acknowledged
    air,       \* frames from the ground station on their way
    ground,    \* the session the ground station is in, and what it holds of it
    asked,     \* a window has ended and the ground station has not answered yet
    file,      \* the last file it accepted, and of which session
    contact,   \* the ground station is in sight
    writes, losses, failures   \* counters of the bounds

run == <<pc, attempt, listening, txBase, txNext, retx, gaps, crc, taken>>
comms == <<sess, request, bit>>
station == <<air, ground, asked, file>>
bounds == <<writes, losses, failures>>
dlvars == <<run, comms, station, contact, flash, bounds>>

-----------------------------------------------------------------------------
(* Blocks and sessions *)

\* Wrong variant: one attempt fewer.
MaxRetxTwo == 2

MaxRetx == 3       \* ARQ_MAX_RETX

SawMaxRetx == 3    \* SAW_MAX_RETX

Blocks == 0..Area - 1

Sid(r) == Requests[r].sid
Total(r) == Requests[r].total
File(r) == 0..Total(r) - 1
Nothing == [b \in Blocks |-> 0]

Min2(a, b) == IF a <= b THEN a ELSE b
Max2(a, b) == IF a >= b THEN a ELSE b

DlInit ==
    /\ sess = [state |-> "IDLE", of |-> 1] /\ request = 1 /\ bit = FALSE
    /\ pc = "loop" /\ attempt = 0 /\ listening = FALSE
    /\ txBase = 0 /\ txNext = 0 /\ retx = 0 /\ gaps = {}
    /\ flash = [b \in Blocks |-> 1] /\ crc = Nothing /\ taken = <<>>
    /\ air = <<>> /\ asked = FALSE
    /\ ground = [open |-> FALSE, sid |-> 0, total |-> 0, held |-> Nothing]
    /\ file = [of |-> 0, blocks |-> <<>>]
    /\ contact = TRUE /\ writes = 0 /\ losses = 0 /\ failures = 0

-----------------------------------------------------------------------------
(* Flash, written by other tasks through OBDH between any two reads *)

WriteFlash ==
    /\ writes < MaxWrites /\ writes' = writes + 1
    /\ \E b \in Blocks : flash' = [flash EXCEPT ![b] = @ + 1]
    /\ UNCHANGED <<run, comms, station, losses, failures, contact>>

-----------------------------------------------------------------------------
(* COMMS *)

\* arq_begin_dl, whose refusal the telecommand handler does not look at.
CommsBegin ==
    /\ request <= Len(Requests) /\ request' = request + 1
    /\ IF sess.state = "IDLE"
       THEN sess' = [state |-> "DL_ACTIVE", of |-> request] /\ bit' = TRUE
       ELSE UNCHANGED <<sess, bit>>
    /\ UNCHANGED <<run, station, flash, bounds, contact>>

-----------------------------------------------------------------------------
(* The ground station *)

\* The satellite sets: from now on no frame arrives in either direction.
LoseContact ==
    /\ contact /\ contact' = FALSE
    /\ UNCHANGED <<run, comms, station, flash, bounds>>

Arrives == contact /\ UNCHANGED losses
Vanishes == IF contact THEN losses < MaxLosses /\ losses' = losses + 1 ELSE UNCHANGED losses

\* A frame for the satellite.
Reply(f) ==
    \/ Arrives /\ air' = Append(air, f)
    \/ Vanishes /\ UNCHANGED air

Ack(kind) == [kind |-> "ACK", type |-> kind, of |-> sess.of]

Accepts == ground.open /\ ground.sid = Sid(sess.of)
           /\ \A b \in File(sess.of) : ground.held[b] # 0 /\ ground.held[b] = crc[b]

\* What it does with a DATA_BEGIN or DATA_END of the running session.
Deliver(kind) ==
    /\ ground' = CASE kind = "BEGIN" -> [open |-> TRUE, sid |-> Sid(sess.of),
                                         total |-> Total(sess.of), held |-> Nothing]
                   [] kind # "BEGIN" -> IF ground.sid = Sid(sess.of)
                                        THEN [ground EXCEPT !.open = FALSE] ELSE ground
    /\ file' = IF kind = "COMPLETE" /\ Accepts
               THEN [of |-> sess.of, blocks |-> [b \in File(sess.of) |-> ground.held[b]]]
               ELSE file

Missing == {b \in 0..ground.total - 1 : ground.held[b] = 0}

\* A DATA_ACK: the lowest missing block, and which of the next ones it holds.
Report ==
    LET base == IF Missing = {} THEN ground.total ELSE Min(Missing)
    IN  [kind |-> "DATA_ACK", sid |-> ground.sid, base |-> base,
         bits |-> {k \in 0..BitmapBits - 1 :
                       base + 1 + k < ground.total /\ base + 1 + k \notin Missing}]

\* It answers a window, sooner or later.
GroundAnswer ==
    /\ asked /\ asked' = FALSE
    /\ Reply(Report)
    /\ UNCHANGED <<run, comms, flash, ground, file, writes, failures, contact>>

\* A frame that arrives while the radio transmits, or outside the session, is not heard
\* by it.
AirDrop ==
    /\ air # <<>> /\ pc # "wait" /\ ~listening
    /\ air' = Tail(air)
    /\ UNCHANGED <<run, comms, ground, asked, file, flash, bounds, contact>>

-----------------------------------------------------------------------------
(* arq_saw_frame: DATA_BEGIN and DATA_END until acknowledged, or four times *)

Exchanges == {"BEGIN", "COMPLETE", "ABORT"}

Finish == /\ pc' = "loop" /\ sess' = [sess EXCEPT !.state = "IDLE"]
          /\ UNCHANGED <<txBase, txNext, retx>>

\* What follows the exchange of kind: the result of DATA_END is not looked at.
After(kind, ok) ==
    IF kind = "BEGIN" /\ ok
    THEN pc' = "window" /\ txBase' = 0 /\ txNext' = 0 /\ retx' = 0 /\ UNCHANGED sess
    ELSE Finish

\* CAD finds the channel busy four times, or the frame is transmitted, and
\* TRANSCEIVER listens.
SawTransmit ==
    /\ pc \in Exchanges /\ ~listening
    /\ \/ /\ failures < MaxFailures /\ failures' = failures + 1
          /\ After(pc, FALSE) /\ attempt' = 0
          /\ UNCHANGED <<station, listening, losses, contact>>
       \/ /\ listening' = TRUE
          /\ \/ contact /\ Deliver(pc) /\ Reply(Ack(pc))
             \/ Vanishes /\ UNCHANGED <<air, ground, file>>
          /\ UNCHANGED <<sess, pc, attempt, txBase, txNext, retx, asked, failures, contact>>
    /\ UNCHANGED <<gaps, crc, taken, request, bit, flash, writes, contact>>

\* A frame arrives in time: the ACK of this one ends the exchange, any other frame is
\* passed on to COMMS, which has no use for an ACK.
SawHear ==
    /\ listening /\ air # <<>> /\ air' = Tail(air)
    /\ IF Head(air) = Ack(pc)
       THEN listening' = FALSE /\ attempt' = 0 /\ After(pc, TRUE)
       ELSE UNCHANGED <<listening, attempt, pc, sess, txBase, txNext, retx>>
    /\ UNCHANGED <<gaps, crc, taken, request, bit, flash, ground, asked, file, bounds, contact>>

SawTimeout ==
    /\ listening /\ air = <<>> /\ listening' = FALSE
    /\ IF attempt < SawMaxRetx
       THEN attempt' = attempt + 1 /\ UNCHANGED <<pc, sess, txBase, txNext, retx>>
       ELSE attempt' = 0 /\ After(pc, FALSE)
    /\ UNCHANGED <<gaps, crc, taken, request, bit, flash, station, bounds, contact>>

-----------------------------------------------------------------------------
(* arq_run_dl *)

\* TRANSCEIVER takes the bit: with a pause in the same notification value it only
\* pauses, and the bit is gone.
TakeBit ==
    /\ pc = "loop" /\ bit /\ bit' = FALSE
    /\ \/ /\ pc' = IF sess.state = "DL_ACTIVE" THEN "BEGIN" ELSE "loop"
          /\ UNCHANGED failures
       \/ failures < MaxFailures /\ failures' = failures + 1 /\ UNCHANGED pc
    /\ UNCHANGED <<attempt, listening, txBase, txNext, retx, gaps, crc, taken, sess, request,
                   station, flash, writes, losses, contact>>

\* The health monitor resets TRANSCEIVER (tm_reset_task): the task starts over and
\* g_sess is left as it is.
Reset ==
    /\ pc # "loop" /\ failures < MaxFailures /\ failures' = failures + 1
    /\ pc' = "loop" /\ bit' = FALSE /\ attempt' = 0 /\ listening' = FALSE
    /\ UNCHANGED <<txBase, txNext, retx, gaps, crc, taken, sess, request, station, flash,
                   writes, losses, contact>>

\* Block b is read from flash and sent, or skipped after CAD, or lost on the air.
SendBlock(b) ==
    \/ /\ ground' = IF ground.open /\ ground.sid = Sid(sess.of)
                    THEN [ground EXCEPT !.held[b] = flash[b]] ELSE ground
       /\ Arrives
    \/ Vanishes /\ UNCHANGED ground

WindowEnd == Min2(txBase + Window, Total(sess.of))

SendWindow ==
    /\ pc = "window" /\ txNext < WindowEnd
    /\ SendBlock(txNext) /\ txNext' = txNext + 1
    /\ UNCHANGED <<pc, attempt, listening, txBase, retx, gaps, crc, taken, comms, air, asked,
                   file, flash, writes, failures, contact>>

\* The receiver is armed, and the ground station sees the end of the window.
EndWindow ==
    /\ pc = "window" /\ txNext >= WindowEnd
    /\ pc' = "wait" /\ asked' = TRUE
    /\ UNCHANGED <<attempt, listening, txBase, txNext, retx, gaps, crc, taken, comms, air,
                   ground, file, flash, bounds, contact>>

\* A DATA_ACK of the session moves the window to its base.  Below the end, that block
\* and all it does not report received are next, the ones never sent included.
TakeReport(a) ==
    /\ retx' = 0 /\ txBase' = a.base
    /\ IF a.base >= Total(sess.of)
       THEN /\ pc' = "crc" /\ txNext' = 0 /\ crc' = Nothing
            /\ taken' = [b \in File(sess.of) |-> flash[b]]
            /\ UNCHANGED gaps
       ELSE /\ pc' = "gaps" /\ UNCHANGED <<crc, taken>>
            /\ LET covered == Min2(a.base + 1 + BitmapBits, Total(sess.of))
               IN  /\ gaps' = {b \in a.base..covered - 1 : b - a.base - 1 \notin a.bits}
                   /\ txNext' = Min2(Max2(txNext, covered), Total(sess.of))

\* arq_wait_data_ack: any other frame is passed on to COMMS.
HearReport ==
    /\ pc = "wait" /\ air # <<>> /\ air' = Tail(air)
    /\ IF Head(air).kind = "DATA_ACK" /\ Head(air).sid = Sid(sess.of)
       THEN TakeReport(Head(air))
       ELSE UNCHANGED <<pc, txBase, txNext, retx, gaps, crc, taken>>
    /\ UNCHANGED <<attempt, listening, comms, ground, asked, file, flash, bounds, contact>>

\* Wrong variant: timeouts are not counted.
WindowTimeoutUncounted ==
    /\ pc = "wait" /\ air = <<>>
    /\ \/ (asked => ~contact) /\ UNCHANGED failures
       \/ asked /\ contact /\ failures < MaxFailures /\ failures' = failures + 1
    /\ retx' = 0
    /\ IF retx' > MaxRetx
       THEN pc' = "ABORT" /\ UNCHANGED txNext
       ELSE pc' = "window" /\ txNext' = txBase
    /\ UNCHANGED <<attempt, listening, txBase, gaps, crc, taken, comms, station, flash, writes,
                   losses, contact>>

\* The window timeout: the DATA_ACK is lost, or it is late.
WindowTimeout ==
    /\ pc = "wait" /\ air = <<>>
    /\ \/ (asked => ~contact) /\ UNCHANGED failures
       \/ asked /\ contact /\ failures < MaxFailures /\ failures' = failures + 1
    /\ retx' = retx + 1
    /\ IF retx' > MaxRetx
       THEN pc' = "ABORT" /\ UNCHANGED txNext
       ELSE pc' = "window" /\ txNext' = txBase
    /\ UNCHANGED <<attempt, listening, txBase, gaps, crc, taken, comms, station, flash, writes,
                   losses, contact>>

SendGap ==
    /\ pc = "gaps" /\ gaps # {}
    /\ SendBlock(Min(gaps)) /\ gaps' = gaps \ {Min(gaps)}
    /\ pc' = IF gaps' = {} THEN "window" ELSE "gaps"
    /\ UNCHANGED <<attempt, listening, txBase, txNext, retx, crc, taken, comms, air, asked, file,
                   flash, writes, failures, contact>>

\* Wrong variant: the CRC is kept up over the blocks as they were sent.
ReadForCrcAsSent ==
    /\ pc = "crc" /\ txNext < Total(sess.of)
    /\ crc' = [crc EXCEPT ![txNext] = ground.held[txNext]] /\ txNext' = txNext + 1
    /\ pc' = IF txNext' = Total(sess.of) THEN "COMPLETE" ELSE "crc"
    /\ UNCHANGED <<attempt, listening, txBase, retx, gaps, taken, comms, station, flash, bounds, contact>>

\* The CRC is computed over the blocks as they are in flash now.
ReadForCrc ==
    /\ pc = "crc" /\ txNext < Total(sess.of)
    /\ crc' = [crc EXCEPT ![txNext] = flash[txNext]] /\ txNext' = txNext + 1
    /\ pc' = IF txNext' = Total(sess.of) THEN "COMPLETE" ELSE "crc"
    /\ UNCHANGED <<attempt, listening, txBase, retx, gaps, taken, comms, station, flash, bounds, contact>>

-----------------------------------------------------------------------------

RunDl == \/ TakeBit \/ SawTransmit \/ SawHear \/ SawTimeout
         \/ SendWindow \/ EndWindow \/ HearReport \/ WindowTimeout \/ SendGap
         \/ ReadForCrc

\* No telecommand is left and no session is served.
DlFinished == /\ request > Len(Requests) /\ pc = "loop" /\ ~bit /\ ~asked /\ air = <<>>
              /\ UNCHANGED dlvars

DlNext == \/ RunDl \/ Reset \/ CommsBegin \/ GroundAnswer \/ AirDrop \/ LoseContact
          \/ WriteFlash \/ DlFinished

DlSpec == DlInit /\ [][DlNext]_dlvars

\* TRANSCEIVER and COMMS are scheduled, telecommands come, frames arrive or vanish,
\* and the ground station answers.
DlFairSpec == DlSpec /\ WF_dlvars(RunDl) /\ WF_dlvars(CommsBegin)
                     /\ WF_dlvars(GroundAnswer) /\ WF_dlvars(AirDrop)

-----------------------------------------------------------------------------
(* Properties *)

\* Type invariant.
DlTypeOK ==
    /\ sess \in [state : {"IDLE", "DL_ACTIVE"}, of : Nat]
    /\ request \in 1..Len(Requests) + 1 /\ bit \in BOOLEAN
    /\ pc \in Exchanges \union {"loop", "window", "wait", "gaps", "crc"}
    /\ attempt \in 0..SawMaxRetx /\ listening \in BOOLEAN
    /\ txBase \in Nat /\ txNext \in Nat /\ retx \in 0..MaxRetx + 1 /\ gaps \subseteq Blocks
    /\ flash \in [Blocks -> Nat] /\ crc \in [Blocks -> Nat]
    /\ ground \in [open : BOOLEAN, sid : Nat, total : Nat, held : [Blocks -> Nat]]
    /\ asked \in BOOLEAN /\ contact \in BOOLEAN
    /\ writes \in 0..MaxWrites /\ losses \in 0..MaxLosses /\ failures \in 0..MaxFailures

\* The promise of a download.
Promise == INSTANCE SnapshotFile WITH
    Cells <- Blocks, Contents <- Nat, store <- flash, taken <- taken, file <- file.blocks

\* A file that the ground station accepts is what flash held at one moment, however
\* flash is written while its blocks are read: the CRC is computed from a second
\* reading after the last window (step 3 of arq_run_dl, arq.c).
AcceptedIsASnapshot == Promise!Spec

\* A session that is not interrupted ends, even when the ground station is never heard
\* again: attempts and retransmissions of a window are counted (arq_run_dl, arq.c).
SessionsEnd == sess.state = "DL_ACTIVE" ~> sess.state = "IDLE" \/ failures > 0

\* If at most three frames are lost in all, and flash is not written, every session
\* ends with its file accepted: no phase gives up earlier (ARQ_MAX_RETX, SAW_MAX_RETX).
DownloadsArrive ==
    \A r \in DOMAIN Requests :
        sess.state = "DL_ACTIVE" /\ sess.of = r
            ~> file.of = r \/ ~contact \/ writes > 0 \/ failures > 0 \/ losses > 3

=============================================================================
