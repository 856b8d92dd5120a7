------------------------------ MODULE ArqUplink ------------------------------
(***************************************************************************)
(* The receiver of file uploads (arq.c, UL sessions), run by COMMS: armed  *)
(* by a telecommand, opened by DATA_BEGIN, filled by DATA, closed by       *)
(* DATA_END, which writes the file to flash if its CRC agrees.             *)
(*                                                                         *)
(* The sender is on the ground and not part of the repository.  arq.h says *)
(* that both directions run the same selective-repeat ARQ, so the sender   *)
(* here is the counterpart of arq_run_dl: a window, then a wait for        *)
(* DATA_ACK, then the blocks it reports missing, and so on to DATA_END.    *)
(*                                                                         *)
(* The content of a block is the upload it belongs to (0 in the cleared    *)
(* buffer), and a CRC is the sequence of blocks it was computed over: two  *)
(* different files never have the same one.                                *)
(***************************************************************************)
EXTENDS Naturals, Sequences, FiniteSets, FiniteSetsExt

CONSTANTS Uploads,     \* the uploads of the ground station, in their order
          Capacity,    \* blocks of the reassembly buffer
          TleRoom,     \* blocks from TLE_ADDR to CALIBRATION_ADDR
          MaxLosses,   \* bound: DATA and DATA_ACK frames lost on the air
          MaxFailures  \* bound: exchanges lost with all their retransmissions

Types == {"TLE", "CALIBRATION"}

Descriptor == [type : Types, sid : Nat, total : Nat \ {0}, window : Nat \ {0}]

ASSUME UploadsAssumption == Uploads \in Seq(Descriptor)
ASSUME CapacityAssumption == Capacity \in Nat \ {0}
ASSUME TleRoomAssumption == TleRoom \in Nat \ {0}
ASSUME BoundsAssumption == MaxLosses \in Nat /\ MaxFailures \in Nat

VARIABLES
    sess,      \* g_sess without the buffer
    buf,       \* g_sess.ul_buf
    rxq,       \* rx_queue of COMMS
    acks,      \* the DATA_ACKs in tx_queue
    flash,     \* the blocks that lie in flash from TLE_ADDR on
    upload,    \* the upload the ground station is at
    phase,     \* what it does
    todo,      \* the blocks it has yet to send before it waits
    txBase,    \* tx_base of its sender
    tries,     \* retx_attempts of its sender
    got,       \* history: the blocks received in the session
    skewed,    \* history: in the session, the lowest missing block came while another
               \*   was missing below a received one
    losses, failures  \* counters of the bounds

receiver == <<sess, buf, acks, flash, got, skewed>>
ground == <<upload, phase, todo, txBase, tries>>
vars == <<receiver, rxq, ground, losses, failures>>

-----------------------------------------------------------------------------
(* Frames and sessions *)

QueueLength == 2        \* COMMS_QUEUE_LEN
MaxRetx == 3            \* ARQ_MAX_RETX
BitmapBits == 64        \* ul_bitmap

Blocks(u) == 0..Uploads[u].total - 1
Whole(u) == [i \in Blocks(u) |-> u]

Frame(kind) == [kind |-> kind, of |-> upload, block |-> 0]
Data(i) == [kind |-> "DATA", of |-> upload, block |-> i]

NoSession == [state |-> "IDLE", type |-> "TLE", sid |-> 0, total |-> 0, window |-> 1,
              base |-> 0, bits |-> {}, received |-> 0]
Cleared == [i \in 0..Capacity - 1 |-> 0]

\* The two files lie one behind the other, and what is beyond them is not modelled.
Cells == 0..TleRoom + Capacity - 1
Start(type) == IF type = "TLE" THEN 0 ELSE TleRoom

Cell(u, i) == [of |-> u, block |-> i]
Blank == Cell(0, 0)

Init ==
    /\ sess = NoSession /\ buf = Cleared /\ rxq = <<>> /\ acks = <<>>
    /\ flash = [c \in Cells |-> Blank]
    /\ upload = 1 /\ phase = "arm" /\ todo = {} /\ txBase = 0 /\ tries = 0
    /\ got = {} /\ skewed = FALSE /\ losses = 0 /\ failures = 0

-----------------------------------------------------------------------------
(* COMMS, on the frame at the head of its queue *)

Receive(kind) ==
    /\ rxq # <<>> /\ Head(rxq).kind = kind
    /\ rxq' = Tail(rxq)
    /\ UNCHANGED <<ground, losses, failures>>

Sent == Uploads[Head(rxq).of]

\* ul_send_data_ack of session s: dropped if the queue is full.
SendAck(s) ==
    acks' = IF Len(acks) < QueueLength
            THEN Append(acks, [sid |-> s.sid, base |-> s.base, bits |-> s.bits]) ELSE acks

\* arq_arm_ul
RxArm ==
    /\ Receive("ARM")
    /\ IF sess.state = "IDLE"
       THEN /\ sess' = [NoSession EXCEPT !.state = "UL_ARMED", !.type = Sent.type]
            /\ buf' = Cleared /\ got' = {} /\ skewed' = FALSE
       ELSE UNCHANGED <<sess, buf, got, skewed>>
    /\ UNCHANGED <<acks, flash>>

\* DATA_BEGIN: the type it carries is compared with the armed one, and not used.
RxBegin ==
    /\ Receive("BEGIN")
    /\ IF sess.state = "UL_ARMED"
       THEN /\ sess' = [sess EXCEPT !.state = "UL_ACTIVE", !.sid = Sent.sid,
                                    !.total = Sent.total, !.window = Sent.window]
            /\ SendAck(sess')
       ELSE UNCHANGED <<sess, acks>>
    /\ UNCHANGED <<buf, flash, got, skewed>>

\* Wrong variant: the bitmap is not shifted when base moves over reported blocks.
AdvanceNoShift(s) ==
    LET room == s.total - (s.base + 1)
        run == CHOOSE n \in 0..room : /\ \A b \in 0..n - 1 : b \in s.bits
                                      /\ n = room \/ n \notin s.bits
    IN  [s EXCEPT !.base = @ + 1 + run]

\* The missing block base arrived: the code moves base past it and past every
\* block that the low bits then report, and shifts the bitmap once for each of them.
Advance(s) ==
    LET room == s.total - (s.base + 1)
        run == CHOOSE n \in 0..room : /\ \A b \in 0..n - 1 : b \in s.bits
                                      /\ n = room \/ n \notin s.bits
    IN  [s EXCEPT !.base = @ + 1 + run,
                  !.bits = {b - run : b \in {x \in @ : x >= run}}]

\* Where DATA goes that is not a duplicate.
Accept(s, i) ==
    LET offset == i - s.base
        marked == IF offset = 0 THEN Advance(s)
                  ELSE IF offset <= BitmapBits THEN [s EXCEPT !.bits = @ \union {offset - 1}]
                  ELSE s
    IN  [marked EXCEPT !.received = @ + 1]

IsNew(s, i) == i >= s.base /\ (i = s.base \/ i - s.base - 1 \notin s.bits)

\* History: block i, the lowest missing, comes while one above it is missing that is
\* not above all the received ones.
TwoGaps(i) == /\ i \notin got /\ \A j \in 0..i - 1 : j \in got
              /\ \E k \in got : \E j \in i + 1..k : j \notin got

\* Wrong variant: a DATA_ACK only for a new block, so a repeated window has no answer.
RxDataAckNewOnly ==
    /\ Receive("DATA")
    /\ LET i == Head(rxq).block
           new == IsNew(sess, i)
       IN  IF sess.state = "UL_ACTIVE" /\ Sent.sid = sess.sid /\ i < sess.total
           THEN /\ sess' = IF new THEN Accept(sess, i) ELSE sess
                /\ buf' = IF new /\ i < Capacity THEN [buf EXCEPT ![i] = Head(rxq).of] ELSE buf
                /\ got' = got \union {i} /\ skewed' = (skewed \/ TwoGaps(i))
                /\ IF new /\ sess'.received % sess.window = 0
                   THEN SendAck(sess') ELSE UNCHANGED acks
           ELSE UNCHANGED <<sess, buf, acks, got, skewed>>
    /\ UNCHANGED flash

\* DATA: a new block is stored if the buffer has room for it and marked received
\* either way; whenever the count stands at a whole number of windows, a DATA_ACK.
RxData ==
    /\ Receive("DATA")
    /\ LET i == Head(rxq).block
           new == IsNew(sess, i)
       IN  IF sess.state = "UL_ACTIVE" /\ Sent.sid = sess.sid /\ i < sess.total
           THEN /\ sess' = IF new THEN Accept(sess, i) ELSE sess
                /\ buf' = IF new /\ i < Capacity THEN [buf EXCEPT ![i] = Head(rxq).of] ELSE buf
                /\ got' = got \union {i} /\ skewed' = (skewed \/ TwoGaps(i))
                /\ IF sess'.received > 0 /\ sess'.received % sess.window = 0
                   THEN SendAck(sess') ELSE UNCHANGED acks
           ELSE UNCHANGED <<sess, buf, acks, got, skewed>>
    /\ UNCHANGED flash

Min2(a, b) == IF a <= b THEN a ELSE b

Assembled == [i \in 0..Min2(sess.total, Capacity) - 1 |-> buf[i]]

\* ul_write_flash: the blocks of the buffer go to flash from the address of the type
\* on, whatever lies there.
Written(type) ==
    [c \in Cells |-> IF c - Start(type) \in DOMAIN Assembled
                     THEN Cell(Assembled[c - Start(type)], c - Start(type)) ELSE flash[c]]

\* Wrong variant: the file is written whatever its CRC.
RxEndNoCrc ==
    /\ Receive("END")
    /\ IF sess.state = "UL_ACTIVE" /\ Sent.sid = sess.sid
       THEN /\ SendAck(sess)
            /\ flash' = Written(sess.type)
            /\ sess' = [sess EXCEPT !.state = "IDLE"]
       ELSE UNCHANGED <<acks, flash, sess>>
    /\ UNCHANGED <<buf, got, skewed>>

\* DATA_END: a last DATA_ACK, and the file is written to the address of the armed
\* type if the CRC over the buffer is the one of the frame.
RxEnd ==
    /\ Receive("END")
    /\ IF sess.state = "UL_ACTIVE" /\ Sent.sid = sess.sid
       THEN /\ SendAck(sess)
            /\ flash' = IF Assembled = Whole(Head(rxq).of) THEN Written(sess.type) ELSE flash
            /\ sess' = [sess EXCEPT !.state = "IDLE"]
       ELSE UNCHANGED <<acks, flash, sess>>
    /\ UNCHANGED <<buf, got, skewed>>

RxAbort ==
    /\ Receive("ABORT")
    /\ sess' = IF sess.state = "UL_ACTIVE" /\ Sent.sid = sess.sid
               THEN [sess EXCEPT !.state = "IDLE"] ELSE sess
    /\ UNCHANGED <<buf, acks, flash, got, skewed>>

-----------------------------------------------------------------------------
(* The ground station *)

\* It goes on with its next upload.
GoOn == upload' = upload + 1 /\ phase' = "arm" /\ todo' = {} /\ txBase' = 0 /\ tries' = 0

Window(base) == base..Min2(base + Uploads[upload].window, Uploads[upload].total) - 1

\* A frame that requires an ACK, and is repeated until one comes.  If none ever
\* comes the ground station gives the upload up, whether the frame was received or
\* not; and a frame for a full queue is acknowledged and dropped.
Exchange(kind, Then) ==
    /\ \/ Len(rxq) < QueueLength /\ rxq' = Append(rxq, Frame(kind)) /\ Then /\ UNCHANGED failures
       \/ /\ failures < MaxFailures /\ failures' = failures + 1
          /\ \/ Len(rxq) < QueueLength /\ rxq' = Append(rxq, Frame(kind)) /\ GoOn
             \/ UNCHANGED rxq /\ GoOn
             \/ Len(rxq) = QueueLength /\ UNCHANGED rxq /\ Then
    /\ UNCHANGED <<receiver, losses>>

GroundArm ==
    /\ upload <= Len(Uploads) /\ phase = "arm"
    /\ Exchange("ARM", phase' = "begin" /\ UNCHANGED <<upload, todo, txBase, tries>>)

GroundBegin ==
    /\ phase = "begin"
    /\ Exchange("BEGIN",
           phase' = "send" /\ todo' = Window(0) /\ UNCHANGED <<upload, txBase, tries>>)

GroundEnd ==
    /\ phase = "end"
    /\ Exchange("END", GoOn)

GroundAbort ==
    /\ phase = "abort"
    /\ Exchange("ABORT", GoOn)

\* One block: received, or lost on the air or to a full queue.  After the last one
\* the ground station listens.
GroundSend ==
    /\ phase = "send"
    /\ LET i == Min(todo)
       IN  /\ todo' = todo \ {i}
           /\ phase' = IF todo' = {} THEN "wait" ELSE "send"
           /\ \/ Len(rxq) < QueueLength /\ rxq' = Append(rxq, Data(i)) /\ UNCHANGED losses
              \/ losses < MaxLosses /\ losses' = losses + 1 /\ UNCHANGED rxq
    /\ UNCHANGED <<receiver, upload, txBase, tries, failures>>

\* The satellite transmits a DATA_ACK: lost if the ground station does not listen.
TransmitAck ==
    /\ acks # <<>> /\ acks' = Tail(acks)
    /\ LET a == Head(acks)
           total == Uploads[upload].total
       IN  \/ /\ phase = "wait" /\ a.sid = Uploads[upload].sid
              /\ txBase' = a.base /\ tries' = 0
              /\ IF a.base >= total
                 THEN phase' = "end" /\ UNCHANGED todo
                 ELSE /\ phase' = "send"
                      /\ todo' = {i \in a.base..total - 1 : i - a.base - 1 \notin a.bits}
              /\ UNCHANGED losses
           \/ /\ phase = "wait" /\ losses < MaxLosses /\ losses' = losses + 1
              /\ UNCHANGED <<phase, todo, txBase, tries>>
           \/ /\ phase = "wait" => a.sid # Uploads[upload].sid
              /\ UNCHANGED <<phase, todo, txBase, tries, losses>>
    /\ UNCHANGED <<sess, buf, flash, got, skewed, rxq, upload, failures>>

\* The window timeout, longer than COMMS and the DATA_ACK take: nothing is on the way.
GroundTimeout ==
    /\ phase = "wait" /\ rxq = <<>> /\ acks = <<>>
    /\ tries' = tries + 1
    /\ IF tries' > MaxRetx
       THEN phase' = "abort" /\ UNCHANGED todo
       ELSE phase' = "send" /\ todo' = Window(txBase)
    /\ UNCHANGED <<receiver, rxq, upload, txBase, losses, failures>>

-----------------------------------------------------------------------------

Comms == RxArm \/ RxBegin \/ RxData \/ RxEnd \/ RxAbort

Ground == \/ GroundArm \/ GroundBegin \/ GroundSend \/ GroundTimeout
          \/ GroundEnd \/ GroundAbort

\* All uploads are done.
Finished == upload > Len(Uploads) /\ rxq = <<>> /\ acks = <<>> /\ UNCHANGED vars

Next == Comms \/ Ground \/ TransmitAck \/ Finished

Spec == Init /\ [][Next]_vars

\* COMMS and TRANSCEIVER are scheduled, and the ground station goes on.
FairSpec == Spec /\ WF_vars(Comms) /\ WF_vars(TransmitAck) /\ WF_vars(Ground)

-----------------------------------------------------------------------------
(* Properties *)

\* Type invariant.
TypeOK ==
    /\ sess.state \in {"IDLE", "UL_ARMED", "UL_ACTIVE"} /\ sess.type \in Types
    /\ sess.sid \in Nat /\ sess.total \in Nat /\ sess.window \in Nat \ {0}
    /\ sess.base \in 0..sess.total /\ sess.bits \subseteq 0..BitmapBits - 1
    /\ sess.received \in Nat
    /\ buf \in [0..Capacity - 1 -> 0..Len(Uploads)]
    /\ flash \in [Cells -> [of : 0..Len(Uploads), block : 0..Capacity - 1]]
    /\ got \subseteq Nat /\ skewed \in BOOLEAN
    /\ Len(rxq) <= QueueLength /\ Len(acks) <= QueueLength
    /\ phase \in {"arm", "begin", "send", "wait", "end", "abort"}
    /\ upload \in 1..Len(Uploads) + 1 /\ todo \subseteq Nat /\ txBase \in Nat
    /\ tries \in 0..MaxRetx + 1 /\ losses \in 0..MaxLosses /\ failures \in 0..MaxFailures

\* Not a file: those have their blocks at 0 and up.
Damaged == <<0>>

\* What a reader of flash finds at the address of a type.
FileAt(type) ==
    LET first == flash[Start(type)]
    IN  IF first = Blank THEN <<>>
        ELSE IF first.block = 0 /\ \A i \in Blocks(first.of) :
                                      flash[Start(type) + i] = Cell(first.of, i)
        THEN Whole(first.of)
        ELSE Damaged

Files == {Whole(u) : u \in DOMAIN Uploads}

\* Only behind the TLE lies the file of another type.
Fitting == {<<"CALIBRATION", f>> : f \in Files}
           \union {<<"TLE", Whole(u)>> : u \in {v \in DOMAIN Uploads : Uploads[v].total <= TleRoom}}

\* The promise of an upload.
Promise == INSTANCE FileStore WITH
    Places <- Types, Nothing <- <<>>, store <- [t \in Types |-> FileAt(t)]

\* Whatever is lost, given up or mixed up, a session puts all of one file at an address
\* or leaves flash alone, and the only file of the other type it spoils is one that it
\* reaches because a file is longer than its place (DATA_END in arq_rx, ul_write_flash).
WritesWholeFiles == Promise!Spec

\* A DATA_ACK reports the blocks that came and no others, unless the lowest missing block
\* came while another was missing below a received one (Advance, arq_rx).
AcksAreExact ==
    skewed \/ \A i \in 0..sess.total - 1 : IsNew(sess, i) <=> i \notin got

\* A file that fits the buffer and is sent in one window reaches flash if at most one
\* DATA or DATA_ACK is lost: the answer to the repeated window repairs it (arq_rx).
UploadsComplete ==
    \A u \in DOMAIN Uploads :
        Uploads[u].total <= Capacity =>
            <>(losses > 1 \/ failures > 0 \/ \E t \in Types : FileAt(t) = Whole(u))

\* What arq.c:65-66 says of the session: base is the lowest block not yet received,
\* and the bitmap holds received blocks above it.  The code does not keep this.
AcksReportReceived ==
    sess.state = "UL_ACTIVE" =>
        \A i \in 0..sess.total - 1 : ~IsNew(sess, i) => i \in got

\* What arq.c:452 says of DATA_BEGIN: its type is the armed one, so a file is written
\* to the place of its own type.  The code does not keep this.
WrittenInItsPlace ==
    \A t \in Types, u \in DOMAIN Uploads : FileAt(t) = Whole(u) => Uploads[u].type = t

\* What flash.h:62 says of TLE_ADDR: a TLE has 138 bytes, so the calibration behind it is
\* left alone.  The code does not bound what it writes there.
PlacesAreKept == \A t \in Types : FileAt(t) # Damaged

=============================================================================
