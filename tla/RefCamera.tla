----------------------------- MODULE RefCamera -----------------------------
(***************************************************************************)
(* The camera of the reference firmware (reference/VGA/camerav2.c): a      *)
(* photo is a sequence of commands over a UART, each repeated by errP when *)
(* its answer is refused, and a transfer by DMA whose interrupts store the *)
(* image by halves of the buffer while getData polls what they have done.  *)
(***************************************************************************)
EXTENDS Integers, Sequences

CONSTANTS Half,      \* half of rxdataIM (2048 in the code)
          Lengths,   \* bound: what the camera answers to getDataLength, plus 8
          MaxPhotos  \* bound: calls of initCam and getPhoto

ASSUME HalfAssumption == Half \in Nat \ {0} /\ Lengths \subseteq Nat \ {0} /\ MaxPhotos \in Nat

VARIABLES
    step,                \* the command in progress, by its place in Photograph; 0 before initCam
    calling,             \* where its function is
    attempts,            \* the local of each errP in progress, innermost last
    anErrorHappened,
    imagelength, indxVGA, HTC, FTC, isSizeRxed,
    circular,            \* how the DMA channel is set up, which camerav2.c does not say
    halves,              \* halves of the buffer it has filled
    stored,              \* bytes written at the photo's place in flash, from its beginning
    rest,                \* the bytes after the last half have arrived in the buffer
    taken,               \* the half the last part was read from
    complete,            \* and whether it had arrived by then
    delivered,           \* history: no photo so far was one the DMA did not deliver
    photos               \* counter of the bound

tail == <<taken, complete, delivered>>
dma == <<imagelength, indxVGA, HTC, FTC, isSizeRxed, halves, stored, rest, tail>>
control == <<step, calling, attempts, anErrorHappened, photos>>
camvars == <<control, dma, circular>>

\* initCam, then getPhoto; a refused command ends both.
Photograph == <<"reset", "getVersion", "setResolution", "setCompressibility",
              "startCapture", "getDataLength", "getData", "stopCapture">>
REP_NUM == 3

CameraInit ==
    /\ step = 0 /\ calling = "idle" /\ attempts = <<>> /\ anErrorHappened = FALSE
    /\ imagelength = 0 /\ indxVGA = 0 /\ HTC = FALSE /\ FTC = FALSE /\ isSizeRxed = FALSE
    /\ circular \in BOOLEAN /\ halves = 0 /\ stored = 0 /\ photos = 0
    /\ rest = FALSE /\ taken = "nothing" /\ complete = FALSE /\ delivered = TRUE

-----------------------------------------------------------------------------
(* Commands, checkACK and errP *)

initCam ==
    /\ step = 0 /\ photos < MaxPhotos /\ photos' = photos + 1
    /\ step' = 1 /\ calling' = "send"
    /\ UNCHANGED <<attempts, anErrorHappened, dma, circular>>

\* The command goes out, an answer comes in or the UART gives up.
Exchange ==
    /\ calling = "send" /\ Photograph[step] # "getData"
    /\ calling' \in {"accepted", "refused"}
    /\ UNCHANGED <<step, attempts, anErrorHappened, photos, dma, circular>>

\* checkACK refuses: within errP the function returns 0, otherwise errP begins.
checkACK ==
    /\ calling = "refused"
    /\ IF anErrorHappened THEN calling' = "failed" /\ UNCHANGED <<attempts, anErrorHappened>>
       ELSE attempts' = Append(attempts, 0) /\ anErrorHappened' = TRUE /\ calling' = "send"
    /\ UNCHANGED <<step, photos, dma, circular>>

\* errP after a repetition that failed: another one, or it gives up.
errP ==
    /\ calling = "failed" /\ attempts # <<>>
    /\ LET inner == Len(attempts)
           n == attempts[inner] + 1
       IN  IF n <= REP_NUM
           THEN /\ attempts' = [attempts EXCEPT ![inner] = n] /\ calling' = "send"
                /\ UNCHANGED anErrorHappened
           ELSE /\ attempts' = SubSeq(attempts, 1, inner - 1) /\ anErrorHappened' = FALSE
                /\ UNCHANGED calling
    /\ UNCHANGED <<step, photos, dma, circular>>

\* What errP begins ends with it: the command is done, and the next one begins.
Accepted ==
    /\ calling = "accepted" /\ attempts' = <<>> /\ anErrorHappened' = FALSE
    /\ IF step = Len(Photograph) THEN step' = 0 /\ calling' = "idle" ELSE step' = step + 1 /\ calling' = "send"
    /\ UNCHANGED <<photos, dma, circular>>

\* initCam or getPhoto returns 0.
Failed ==
    /\ calling = "failed" /\ attempts = <<>> /\ step' = 0 /\ calling' = "idle"
    /\ UNCHANGED <<attempts, anErrorHappened, photos, dma, circular>>

-----------------------------------------------------------------------------
(* getData *)

\* The camera sends what it has announced less 8 bytes, between two headers of 5.
Arriving == imagelength + 2

\* The DMA fills the halves that the image fills, and no more.
Delivered == /\ Arriving \div Half = imagelength \div Half
             /\ imagelength \div Half <= 2 \/ circular

\* The DMA goes on: 4096 bytes in all, or more if it is circular.
Receiving == calling \in {"transfer", "second", "first", "whole"} /\ (halves < 2 \/ circular)

\* HTC and FTC are as the photo before left them.
StartTransfer ==
    /\ calling = "send" /\ Photograph[step] = "getData" /\ calling' = "transfer"
    /\ imagelength' \in Lengths /\ indxVGA' = 0 /\ halves' = 0 /\ stored' = 0
    /\ rest' = FALSE /\ taken' = "nothing" /\ complete' = FALSE
    /\ UNCHANGED <<step, attempts, anErrorHappened, photos, HTC, FTC, isSizeRxed, delivered, circular>>

\* The DMA has filled a half of the buffer.
Filled(n) ==
    /\ Receiving /\ halves % 2 = n /\ (halves + 1) * Half <= Arriving /\ halves' = halves + 1
    /\ UNCHANGED <<control, imagelength, rest, tail, circular>>

\* What is left, less than a half, has arrived: no interrupt.
RestArrives ==
    /\ Receiving /\ (halves + 1) * Half > Arriving /\ ~rest /\ rest' = TRUE
    /\ UNCHANGED <<control, imagelength, indxVGA, HTC, FTC, isSizeRxed, halves, stored, tail, circular>>

\* What is written in order, without a gap.
\* A size below zero is a size of 2^32 and less.
Store(at, size) == stored' = IF at = stored /\ size >= 0 THEN at + size ELSE stored

HAL_UART_RxHalfCpltCallback ==
    /\ Filled(0)
    /\ IF isSizeRxed THEN Store(indxVGA, Half) /\ indxVGA' = indxVGA + Half
       ELSE Store(0, Half) /\ indxVGA' = Half
    /\ isSizeRxed' = TRUE /\ HTC' = TRUE /\ FTC' = FALSE

HAL_UART_RxCpltCallback ==
    /\ Filled(1) /\ Store(indxVGA, Half) /\ indxVGA' = indxVGA + Half
    /\ HTC' = FALSE /\ FTC' = TRUE /\ UNCHANGED isSizeRxed

Remaining == imagelength - indxVGA

\* The poll finds that what is left is in the second half, or the first, or that the image is
\* less than a half: it copies the second half at once, then waits 200 ms.
LastPart ==
    /\ calling = "transfer" /\ Remaining \in 1..(Half - 1)
    /\ calling' = (CASE HTC -> "second" [] ~HTC /\ FTC -> "first"
                     [] ~HTC /\ ~FTC /\ imagelength < Half -> "whole" [] OTHER -> "transfer")
    /\ IF HTC THEN taken' = "second" /\ complete' = rest ELSE UNCHANGED <<taken, complete>>
    /\ UNCHANGED <<step, attempts, anErrorHappened, photos, imagelength, indxVGA, HTC, FTC,
                   isSizeRxed, halves, stored, rest, delivered, circular>>

\* Wrong variant: the flag of the half it has stored stays set.
FlagStays ==
    /\ calling \in {"second", "first", "whole"} /\ calling' = "accepted"
    /\ Delivered /\ Receiving => rest
    /\ IF calling = "whole" THEN Store(0, imagelength) ELSE Store(indxVGA, Remaining)
    /\ IF calling = "second" THEN UNCHANGED <<taken, complete>>
       ELSE taken' = "first" /\ complete' = rest
    /\ indxVGA' = imagelength /\ isSizeRxed' = FALSE /\ delivered' = (delivered /\ Delivered)
    /\ UNCHANGED <<step, attempts, anErrorHappened, photos, imagelength, HTC, FTC, halves, rest, circular>>

\* The 200 ms are enough for what is left of a photo that the DMA delivers.  The first half
\* is read where it is, after the wait.
StoreLastPart ==
    /\ calling \in {"second", "first", "whole"} /\ calling' = "accepted"
    /\ Delivered /\ Receiving => rest
    /\ IF calling = "whole" THEN Store(0, imagelength) ELSE Store(indxVGA, Remaining)
    /\ IF calling = "second" THEN UNCHANGED <<taken, complete>>
       ELSE taken' = "first" /\ complete' = rest
    /\ indxVGA' = imagelength /\ isSizeRxed' = FALSE /\ delivered' = (delivered /\ Delivered)
    /\ HTC' = (HTC /\ calling # "second") /\ FTC' = (FTC /\ calling # "first")
    /\ UNCHANGED <<step, attempts, anErrorHappened, photos, imagelength, halves, rest, circular>>

\* The image ends with a half of the buffer.
NothingLeft ==
    /\ calling = "transfer" /\ indxVGA = imagelength /\ (HTC \/ FTC)
    /\ calling' = "accepted" /\ isSizeRxed' = FALSE /\ HTC' = FALSE /\ FTC' = FALSE
    /\ delivered' = (delivered /\ Delivered)
    /\ UNCHANGED <<step, attempts, anErrorHappened, photos, imagelength, indxVGA, halves,
                   stored, rest, taken, complete, circular>>

-----------------------------------------------------------------------------

Poll == LastPart \/ StoreLastPart \/ NothingLeft
Dma == HAL_UART_RxHalfCpltCallback \/ HAL_UART_RxCpltCallback \/ RestArrives
CameraStep == initCam \/ Exchange \/ checkACK \/ errP \/ Accepted \/ Failed \/ StartTransfer \/ Poll
CameraNext == CameraStep \/ Dma

\* The half of the buffer where what is left of the image begins.
LastHalf == CASE imagelength % Half = 0 -> "nothing"
              [] imagelength % Half # 0 /\ (imagelength \div Half) % 2 = 0 -> "first"
              [] OTHER -> "second"

Stored == calling = "accepted" /\ Photograph[step] = "getData"

\* Whatever interrupts come between two polls of getData: for a photo that it has accepted, as
\* many bytes were written as the image has, each part at the place after the one before, if
\* the DMA delivered it; and if it delivered those before too, so that no flag is stale, the
\* last part was read from the half it is in.  Not said: whether it had arrived there.
PhotoIsPlaced ==
    Stored => (Delivered => stored = imagelength) /\ (delivered => taken = LastHalf)

\* Not so: the last part of a photo that the DMA delivered was in the buffer when it was read.
\* The second half is copied before the wait for it (getData).
LastPartHadArrived == Stored /\ Delivered /\ taken # "nothing" => complete

\* Not so either: it was read from its half, whatever photo came before.  HTC stays set after a
\* photo one or two bytes short of a half, and the next one may then be read from the wrong half.
LastPartIsFound == Stored /\ Delivered => taken = LastHalf

\* An attempt at a photo ends, however often commands are refused within errP and repeated by
\* it, unless the transfer waits for a half that never fills (initCam, getPhoto, errP).  A
\* transfer ends when the DMA delivers the halves the image fills, and no more: then getData has
\* counted and placed as many bytes as the image has, and read the last of them from the half
\* they are in, if no flag is left from a photo that was not delivered.
PhotosEnd ==
    /\ step > 0 ~> step = 0 \/ (calling = "transfer" /\ ~Delivered)
    /\ calling = "transfer" /\ Delivered
           ~> calling = "accepted" /\ stored = imagelength /\ (delivered => taken = LastHalf)
=============================================================================
