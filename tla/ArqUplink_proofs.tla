--------------------------- MODULE ArqUplink_proofs ---------------------------
(***************************************************************************)
(* Uploads implement the file store: for every list of uploads, size of    *)
(* the buffer, room in flash and number of losses, a session puts a whole  *)
(* file at an address or leaves flash alone.  And DATA_ACKs are exact      *)
(* unless two blocks were missing at once below a received one.            *)
(*                                                                         *)
(* The step that matters is DATA_END, where the CRC makes the buffer equal *)
(* to the file of the frame.  That this is a file of the ground station    *)
(* needs that every frame in rx_queue belongs to an upload, which needs in *)
(* turn that the ground station sends only while it has an upload.         *)
(***************************************************************************)
EXTENDS ArqUplink, SequenceTheorems, WellFoundedInduction, TLAPS

\* The ground station is at an upload whenever it has left the phase "arm".
AtUpload ==
    /\ upload \in Nat \ {0}
    /\ phase # "arm" => upload \in DOMAIN Uploads

\* Every frame queued for COMMS belongs to an upload.
Queued == {rxq[i] : i \in DOMAIN rxq}
FramesHaveUploads == rxq \in Seq(Queued) /\ \A f \in Queued : f.of \in DOMAIN Uploads

\* The types that select a place in flash.
TypesKnown == "type" \in DOMAIN sess /\ sess.type \in Types

IInv == AtUpload /\ FramesHaveUploads /\ TypesKnown

-----------------------------------------------------------------------------
(* The queue *)

\* A sequence over frames of uploads is a queue whose frames have uploads.
LEMMA QueueOver ==
    ASSUME NEW S, rxq' \in Seq(S), \A f \in S : f.of \in DOMAIN Uploads
    PROVE  FramesHaveUploads'
<1>1. \A i \in DOMAIN rxq' : rxq'[i] \in S
  BY ElementOfSeq, LenProperties
<1>2. rxq' \in Seq({rxq'[i] : i \in DOMAIN rxq'})
  BY IsASeq, LenProperties
<1>3. QED
  BY <1>1, <1>2 DEF FramesHaveUploads, Queued

\* The head of the queue belongs to an upload, and so do the frames behind it.
LEMMA HeadAndTail ==
    ASSUME FramesHaveUploads, rxq # <<>>
    PROVE  Head(rxq).of \in DOMAIN Uploads /\ (rxq' = Tail(rxq) => FramesHaveUploads')
<1>1. Head(rxq) \in Queued /\ Tail(rxq) \in Seq(Queued)
  BY HeadTailProperties DEF FramesHaveUploads
<1>2. QED
  BY <1>1, QueueOver DEF FramesHaveUploads

\* A frame of an upload may be appended.
LEMMA AppendFrame ==
    ASSUME FramesHaveUploads, NEW f, f.of \in DOMAIN Uploads,
           rxq' = Append(rxq, f) \/ UNCHANGED rxq
    PROVE  FramesHaveUploads'
<1>1. Append(rxq, f) \in Seq(Queued \union {f}) /\ rxq \in Seq(Queued \union {f})
  BY AppendProperties DEF FramesHaveUploads
<1>2. \A g \in Queued \union {f} : g.of \in DOMAIN Uploads
  BY DEF FramesHaveUploads
<1>3. QED
  BY <1>1, <1>2, QueueOver

-----------------------------------------------------------------------------
(* COMMS *)

\* A step of COMMS leaves the ground station alone and takes one frame.
LEMMA ReceiveKeeps ==
    ASSUME IInv, NEW kind, Receive(kind)
    PROVE  AtUpload' /\ FramesHaveUploads' /\ Head(rxq).of \in DOMAIN Uploads
<1>1. AtUpload'
  BY DEF Receive, IInv, AtUpload, ground
<1>2. FramesHaveUploads' /\ Head(rxq).of \in DOMAIN Uploads
  BY HeadAndTail DEF Receive, IInv
<1>3. QED
  BY <1>1, <1>2

\* DATA moves the window of the session and none of its other fields.
LEMMA AcceptKeepsType ==
    ASSUME TypesKnown, NEW i
    PROVE  "type" \in DOMAIN Accept(sess, i) /\ Accept(sess, i).type = sess.type
<1>1. "type" \in DOMAIN Advance(sess) /\ Advance(sess).type = sess.type
  BY DEF Advance, TypesKnown
<1>2. QED
  BY <1>1 DEF Accept, TypesKnown

LEMMA CommsKeepsIInv ==
    ASSUME IInv, Comms
    PROVE  IInv'
<1>t. TypesKnown
  BY DEF IInv
<1>r. ASSUME NEW kind, Receive(kind), TypesKnown'
      PROVE  IInv'
  BY ONLY <1>r, IInv, ReceiveKeeps DEF IInv
<1>1. CASE RxArm
  <2>1. Receive("ARM")
    BY <1>1 DEF RxArm
  <2>2. Sent.type \in Types
    <3>1. Head(rxq).of \in DOMAIN Uploads
      BY <2>1, ReceiveKeeps
    <3>2. Uploads[Head(rxq).of] \in Descriptor
      BY <3>1, UploadsAssumption, ElementOfSeq, LenProperties
    <3>3. QED
      BY <3>2 DEF Sent, Descriptor
  <2>3. CASE sess.state = "IDLE"
    <3>1. sess' = [NoSession EXCEPT !.state = "UL_ARMED", !.type = Sent.type]
      BY <1>1, <2>3 DEF RxArm
    <3>2. TypesKnown'
      BY <2>2, <3>1 DEF NoSession, TypesKnown
    <3>3. QED
      BY <1>r, <2>1, <3>2
  <2>4. CASE sess.state # "IDLE"
    <3>1. TypesKnown'
      BY <1>1, <1>t, <2>4 DEF RxArm, TypesKnown
    <3>2. QED
      BY <1>r, <2>1, <3>1
  <2>5. QED
    BY <2>3, <2>4
<1>2. CASE RxBegin
  <2>1. Receive("BEGIN")
    BY <1>2 DEF RxBegin
  <2>2. \/ UNCHANGED sess
        \/ sess' = [sess EXCEPT !.state = "UL_ACTIVE", !.sid = Sent.sid,
                                !.total = Sent.total, !.window = Sent.window]
    BY <1>2 DEF RxBegin
  <2>3. TypesKnown'
    BY <1>t, <2>2 DEF TypesKnown
  <2>4. QED
    BY <1>r, <2>1, <2>3
<1>3. CASE RxData
  <2>1. Receive("DATA")
    BY <1>3 DEF RxData
  <2>2. UNCHANGED sess \/ \E i : sess' = Accept(sess, i)
    BY <1>3 DEF RxData
  <2>3. TypesKnown'
    BY <1>t, <2>2, AcceptKeepsType DEF TypesKnown
  <2>4. QED
    BY <1>r, <2>1, <2>3
<1>4. CASE RxEnd
  <2>1. Receive("END")
    BY <1>4 DEF RxEnd
  <2>2. UNCHANGED sess \/ sess' = [sess EXCEPT !.state = "IDLE"]
    BY <1>4 DEF RxEnd
  <2>3. TypesKnown'
    BY <1>t, <2>2 DEF TypesKnown
  <2>4. QED
    BY <1>r, <2>1, <2>3
<1>5. CASE RxAbort
  <2>1. Receive("ABORT")
    BY <1>5 DEF RxAbort
  <2>2. UNCHANGED sess \/ sess' = [sess EXCEPT !.state = "IDLE"]
    BY <1>5 DEF RxAbort
  <2>3. TypesKnown'
    BY <1>t, <2>2 DEF TypesKnown
  <2>4. QED
    BY <1>r, <2>1, <2>3
<1>6. QED
  BY <1>1, <1>2, <1>3, <1>4, <1>5 DEF Comms

-----------------------------------------------------------------------------
(* The ground station *)

\* The ground station queues frames of the upload it is at, and leaves the session alone.
LEMMA GroundKeepsIInv ==
    ASSUME IInv, Ground \/ TransmitAck
    PROVE  IInv'
<1>0. phase # "arm" => upload \in DOMAIN Uploads
  BY DEF IInv, AtUpload
<1> DEFINE Sends(kind) == /\ rxq' = Append(rxq, Frame(kind)) \/ UNCHANGED rxq
                          /\ UNCHANGED receiver
<1>r. ASSUME NEW kind, upload \in DOMAIN Uploads, Sends(kind), AtUpload'
      PROVE  IInv'
  <2>1. Frame(kind).of \in DOMAIN Uploads
    BY <1>r DEF Frame
  <2>2. FramesHaveUploads'
    BY <1>r, <2>1, AppendFrame DEF Sends, IInv
  <2>3. TypesKnown'
    BY <1>r DEF Sends, receiver, IInv, TypesKnown
  <2>4. QED
    BY <1>r, <2>2, <2>3 DEF IInv
<1> HIDE DEF Sends
<1>1. CASE GroundArm
  <2>1. upload \in DOMAIN Uploads
    BY <1>1, UploadsAssumption, LenProperties DEF GroundArm, IInv, AtUpload
  <2>2. Sends("ARM") /\ AtUpload'
    BY <1>1, <2>1 DEF GroundArm, Exchange, GoOn, Sends, IInv, AtUpload
  <2>3. QED
    BY <1>r, <2>1, <2>2
<1>2. CASE GroundBegin
  <2>1. upload \in DOMAIN Uploads
    BY <1>0, <1>2 DEF GroundBegin
  <2>2. Sends("BEGIN") /\ AtUpload'
    BY <1>2, <2>1 DEF GroundBegin, Exchange, GoOn, Sends, IInv, AtUpload
  <2>3. QED
    BY <1>r, <2>1, <2>2
<1>3. CASE GroundEnd
  <2>1. upload \in DOMAIN Uploads
    BY <1>0, <1>3 DEF GroundEnd
  <2>2. Sends("END") /\ AtUpload'
    BY <1>3, <2>1 DEF GroundEnd, Exchange, GoOn, Sends, IInv, AtUpload
  <2>3. QED
    BY <1>r, <2>1, <2>2
<1>4. CASE GroundAbort
  <2>1. upload \in DOMAIN Uploads
    BY <1>0, <1>4 DEF GroundAbort
  <2>2. Sends("ABORT") /\ AtUpload'
    BY <1>4, <2>1 DEF GroundAbort, Exchange, GoOn, Sends, IInv, AtUpload
  <2>3. QED
    BY <1>r, <2>1, <2>2
<1>5. CASE GroundSend
  <2>1. upload \in DOMAIN Uploads
    BY <1>0, <1>5 DEF GroundSend
  <2>2. rxq' = Append(rxq, Data(Min(todo))) \/ UNCHANGED rxq
    BY <1>5 DEF GroundSend
  <2>3. Data(Min(todo)).of \in DOMAIN Uploads
    BY <2>1 DEF Data
  <2>4. FramesHaveUploads'
    BY <2>2, <2>3, AppendFrame DEF IInv
  <2>5. QED
    BY <2>1, <2>4, <1>5 DEF GroundSend, receiver, IInv, AtUpload, TypesKnown
<1>6. CASE GroundTimeout
  BY <1>0, <1>6 DEF GroundTimeout, receiver, IInv, AtUpload, FramesHaveUploads, Queued, TypesKnown
<1>7. CASE TransmitAck
  BY <1>0, <1>7 DEF TransmitAck, IInv, AtUpload, FramesHaveUploads, Queued, TypesKnown
<1>8. QED
  BY <1>1, <1>2, <1>3, <1>4, <1>5, <1>6, <1>7 DEF Ground

-----------------------------------------------------------------------------
(* The theorems *)

LEMMA InitIInv == Init => IInv
<1>1. Init => AtUpload /\ TypesKnown
  BY DEF Init, AtUpload, TypesKnown, NoSession, Types
<1>2. Init => FramesHaveUploads
  BY EmptySeq DEF Init, FramesHaveUploads, Queued
<1>3. QED
  BY <1>1, <1>2 DEF IInv

LEMMA NextIInv == IInv /\ [Next]_vars => IInv'
<1> SUFFICES ASSUME IInv, [Next]_vars PROVE IInv'
  OBVIOUS
<1>1. CASE Comms
  BY <1>1, CommsKeepsIInv
<1>2. CASE Ground \/ TransmitAck
  BY <1>2, GroundKeepsIInv
<1>3. CASE UNCHANGED vars
  BY <1>3 DEF vars, receiver, ground, IInv, AtUpload, FramesHaveUploads, Queued, TypesKnown
<1>4. QED
  BY <1>1, <1>2, <1>3 DEF Next, Finished

THEOREM Invariance == Spec => []IInv
BY InitIInv, NextIInv, PTL DEF Spec

-----------------------------------------------------------------------------
(* What a session, the queues and the ground station hold *)

AnySession == [state : {"IDLE", "UL_ARMED", "UL_ACTIVE"}, type : Types, sid : Nat,
               total : Nat, window : Nat \ {0}, base : Nat,
               bits : SUBSET (0..BitmapBits - 1), received : Nat]

\* Base stays in the file; an armed session, that a DATA_BEGIN gives its length, has base 0.
SessionTyped ==
    /\ sess \in AnySession /\ sess.base <= sess.total
    /\ sess.state = "UL_ARMED" => sess.base = 0

\* What is on the way names blocks by numbers.
FrameTypes == [kind : {"ARM", "BEGIN", "DATA", "END", "ABORT"}, of : Nat, block : Nat]
AckTypes == [sid : Nat, base : Nat, bits : SUBSET Nat]
OnTheWay == rxq \in Seq(FrameTypes) /\ acks \in Seq(AckTypes)

\* The ground station has a block to send while it sends, and one it was not told of while it
\* sends or waits.
Plan ==
    /\ todo \subseteq Nat /\ txBase \in Nat
    /\ phase = "arm" => txBase = 0
    /\ phase = "send" => todo # {}
    /\ phase \in {"send", "wait"} => txBase < Uploads[upload].total
    /\ phase = "begin" => txBase = 0

Held == SessionTyped /\ OnTheWay /\ Plan

LEMMA Smallest ==
    ASSUME NEW S, S \subseteq Nat, S # {}
    PROVE  \E m \in S : \A k \in S : m <= k
<1>1. PICK m \in S : \A k \in S : <<k, m>> \notin OpToRel(<, Nat)
  BY WFMin, NatLessThanWellFounded, Zenon
<1>2. \A k \in S : ~(k < m)
  BY <1>1, Zenon DEF OpToRel
<1>3. QED
  BY <1>2

LEMMA UploadKnown ==
    ASSUME NEW u \in DOMAIN Uploads
    PROVE  /\ u \in Nat \ {0} /\ Uploads[u].type \in Types /\ Uploads[u].sid \in Nat
           /\ Uploads[u].total \in Nat \ {0} /\ Uploads[u].window \in Nat \ {0}
<1>1. Uploads[u] \in Descriptor /\ u \in 1..Len(Uploads) /\ Len(Uploads) \in Nat
  BY UploadsAssumption, ElementOfSeq, LenProperties
<1>2. QED
  BY <1>1 DEF Descriptor

\* Session s with base moved past the missing block and the run of blocks behind it.
Moved(s, run) == [s EXCEPT !.base = s.base + 1 + run,
                           !.bits = {b - run : b \in {x \in s.bits : x >= run}}]

\* Base moves past the missing block and over the blocks that the low bits report.
LEMMA AdvanceMoves ==
    ASSUME NEW s \in AnySession, s.base < s.total
    PROVE  \E run \in Nat :
               /\ run <= s.total - (s.base + 1)
               /\ \A b \in 0..run - 1 : b \in s.bits
               /\ run = s.total - (s.base + 1) \/ run \notin s.bits
               /\ Advance(s) = Moved(s, run)
<1> DEFINE room == s.total - (s.base + 1)
           Ends(n) == (\A b \in 0..n - 1 : b \in s.bits) /\ (n = room \/ n \notin s.bits)
           run == CHOOSE n \in 0..room : Ends(n)
<1>1. room \in Nat /\ s.base \in Nat /\ s.total \in Nat
  BY DEF AnySession
<1>2. \E n \in 0..room : Ends(n)
  <2> DEFINE S == {n \in 0..room : n = room \/ n \notin s.bits}
  <2>1. S \subseteq Nat /\ room \in S
    BY <1>1
  <2>2. PICK n \in S : \A k \in S : n <= k
    BY <2>1, Smallest
  <2>3. \A b \in 0..n - 1 : b \in s.bits
    BY <1>1, <2>1, <2>2
  <2>4. QED
    BY <2>2, <2>3
<1>3. run \in 0..room /\ Ends(run)
  BY <1>2
<1>4. Advance(s) = Moved(s, run)
  BY DEF Advance, Moved
<1> HIDE DEF run
<1>5. /\ run \in Nat /\ run <= room /\ \A b \in 0..run - 1 : b \in s.bits
      /\ run = room \/ run \notin s.bits
  BY <1>1, <1>3
<1>6. QED
  BY <1>4, <1>5

\* A new block moves base inside the file, or sets a bit of the bitmap.
LEMMA AcceptTypes ==
    ASSUME NEW s \in AnySession, NEW i \in Nat, i < s.total, IsNew(s, i), s.base <= s.total
    PROVE  LET t == Accept(s, i)
           IN  /\ t \in AnySession /\ t.base <= t.total
               /\ t.total = s.total /\ t.state = s.state
<1>1. /\ s.base \in Nat /\ s.total \in Nat /\ s.received \in Nat
      /\ s.bits \in SUBSET (0..63) /\ s.base < s.total /\ i >= s.base
  BY DEF AnySession, BitmapBits, IsNew
<1>2. PICK m \in AnySession :
          /\ m.base <= m.total /\ m.total = s.total /\ m.state = s.state
          /\ Accept(s, i) = [m EXCEPT !.received = @ + 1]
  <2>1. CASE i = s.base
    <3>1. PICK run \in Nat : run <= s.total - (s.base + 1) /\ Advance(s) = Moved(s, run)
      BY <1>1, AdvanceMoves
    <3> DEFINE shifted == {b - run : b \in {x \in s.bits : x >= run}}
    <3>2. shifted \in SUBSET (0..BitmapBits - 1) /\ s.base + 1 + run \in Nat
      BY <1>1 DEF BitmapBits
    <3>3. s.base + 1 + run <= s.total
      BY <1>1, <3>1
    <3>4. Advance(s) = [s EXCEPT !.base = s.base + 1 + run, !.bits = shifted]
      BY <3>1 DEF Moved
    <3> HIDE DEF shifted
    <3>5. /\ Advance(s) \in AnySession /\ Advance(s).base = s.base + 1 + run
          /\ Advance(s).total = s.total /\ Advance(s).state = s.state
      BY <3>2, <3>4 DEF AnySession
    <3>6. Accept(s, i) = [Advance(s) EXCEPT !.received = @ + 1]
      BY <1>1, <2>1 DEF Accept
    <3>7. QED
      BY <3>3, <3>5, <3>6
  <2>2. CASE i # s.base /\ i - s.base <= BitmapBits
    <3> DEFINE bits == s.bits \union {i - s.base - 1}
               m == [s EXCEPT !.bits = bits]
    <3>1. bits \in SUBSET (0..BitmapBits - 1)
      BY <1>1, <2>2 DEF BitmapBits
    <3>2. Accept(s, i) = [m EXCEPT !.received = @ + 1]
      <4>1. i - s.base # 0 /\ i - s.base <= BitmapBits
        BY <1>1, <2>2
      <4>2. QED
        BY <1>1, <4>1 DEF Accept, AnySession
    <3> HIDE DEF bits
    <3>3. m \in AnySession /\ m.base = s.base /\ m.total = s.total /\ m.state = s.state
      BY <3>1 DEF AnySession
    <3>4. QED
      BY <3>2, <3>3
  <2>3. CASE i # s.base /\ ~(i - s.base <= BitmapBits)
    <3>1. Accept(s, i) = [s EXCEPT !.received = @ + 1]
      BY <1>1, <2>3 DEF Accept
    <3>2. QED
      BY <3>1
  <2>4. QED
    BY <2>1, <2>2, <2>3
<1>3. QED
  BY <1>2 DEF AnySession

\* A frame names its block by a number.
LEMMA HeadBlock ==
    ASSUME OnTheWay, NEW kind, Receive(kind)
    PROVE  Head(rxq).block \in Nat
<1>1. Head(rxq) \in FrameTypes
  BY DEF OnTheWay, Receive
<1>2. QED
  BY <1>1 DEF FrameTypes

\* A step of COMMS takes one frame, may queue a DATA_ACK, and leaves the plan alone.
LEMMA ReceiveKeepsPlan ==
    ASSUME OnTheWay, Plan, NEW kind, Receive(kind),
           UNCHANGED acks \/ (sess' \in AnySession /\ SendAck(sess'))
               \/ (sess \in AnySession /\ SendAck(sess))
    PROVE  OnTheWay' /\ Plan'
<1>1. Head(rxq) \in FrameTypes /\ rxq' \in Seq(FrameTypes)
  BY DEF OnTheWay, Receive
<1>2. ASSUME NEW s \in AnySession
      PROVE  [sid |-> s.sid, base |-> s.base, bits |-> s.bits] \in AckTypes
  <2>1. s.sid \in Nat /\ s.base \in Nat /\ s.bits \subseteq Nat
    BY DEF AnySession
  <2>2. QED
    BY <2>1 DEF AckTypes
<1>3. ASSUME NEW s \in AnySession, SendAck(s)
      PROVE  acks' \in Seq(AckTypes)
  BY <1>2, <1>3 DEF SendAck, OnTheWay
<1>4. acks' \in Seq(AckTypes)
  BY <1>3 DEF OnTheWay
<1>5. QED
  BY <1>1, <1>4 DEF OnTheWay, Plan, Receive, ground, FrameTypes

LEMMA CommsHolds ==
    ASSUME IInv, Held, Comms
    PROVE  Held'
<1>t. sess \in AnySession /\ sess.base <= sess.total /\ OnTheWay /\ Plan
  BY DEF Held, SessionTyped
<1>s. ASSUME NEW kind, Receive(kind)
      PROVE  /\ Sent.type \in Types /\ Sent.sid \in Nat /\ Sent.total \in Nat
             /\ Sent.window \in Nat \ {0} /\ Head(rxq).block \in Nat
  <2>1. Head(rxq).of \in DOMAIN Uploads
    BY <1>s, ReceiveKeeps
  <2>2. Head(rxq).block \in Nat
    BY <1>s, <1>t, HeadBlock
  <2>3. QED
    BY <2>1, <2>2, UploadKnown DEF Sent
<1>r. ASSUME NEW kind, Receive(kind), SessionTyped',
             UNCHANGED acks \/ SendAck(sess') \/ SendAck(sess)
      PROVE  Held'
  BY <1>t, <1>r, ReceiveKeepsPlan DEF Held, SessionTyped
<1>u. UNCHANGED sess => SessionTyped'
  BY DEF Held, SessionTyped
<1>1. CASE RxArm
  <2>1. Receive("ARM") /\ UNCHANGED acks
    BY <1>1 DEF RxArm
  <2>2. UNCHANGED sess \/ sess' = [NoSession EXCEPT !.state = "UL_ARMED", !.type = Sent.type]
    BY <1>1 DEF RxArm
  <2>3. Sent.type \in Types
    BY <1>s, <2>1
  <2>4. ASSUME sess' = [NoSession EXCEPT !.state = "UL_ARMED", !.type = Sent.type]
        PROVE  SessionTyped'
    <3>1. sess' \in AnySession
      <4>1. {} \in SUBSET (0..BitmapBits - 1) /\ 1 \in Nat \ {0} /\ 0 \in Nat
        OBVIOUS
      <4>2. sess' = [state |-> "UL_ARMED", type |-> Sent.type, sid |-> 0, total |-> 0, window |-> 1,
                     base |-> 0, bits |-> {}, received |-> 0]
        BY <2>4 DEF NoSession
      <4>3. QED
        BY <2>3, <4>1, <4>2 DEF AnySession
    <3>2. sess'.base = 0 /\ sess'.total = 0
      BY <2>4 DEF NoSession
    <3>3. QED
      BY <3>1, <3>2 DEF SessionTyped
  <2>5. QED
    BY <1>r, <1>u, <2>1, <2>2, <2>4
<1>2. CASE RxBegin
  <2>1. Receive("BEGIN")
    BY <1>2 DEF RxBegin
  <2>2. CASE sess.state = "UL_ARMED"
    <3>1. sess' = [sess EXCEPT !.state = "UL_ACTIVE", !.sid = Sent.sid,
                               !.total = Sent.total, !.window = Sent.window] /\ SendAck(sess')
      BY <1>2, <2>2 DEF RxBegin
    <3>2. sess.base = 0
      BY <2>2 DEF Held, SessionTyped
    <3>3. Sent.sid \in Nat /\ Sent.total \in Nat /\ Sent.window \in Nat \ {0}
      BY <1>s, <2>1
    <3>4. sess' \in AnySession /\ sess'.base = 0 /\ sess'.total = Sent.total /\ sess'.state = "UL_ACTIVE"
      BY <1>t, <3>1, <3>2, <3>3 DEF AnySession
    <3>5. SessionTyped'
      BY <3>3, <3>4 DEF SessionTyped
    <3>6. QED
      BY <1>r, <2>1, <3>1, <3>5
  <2>3. CASE sess.state # "UL_ARMED"
    BY <1>2, <1>r, <1>u, <2>1, <2>3 DEF RxBegin
  <2>4. QED
    BY <2>2, <2>3
<1>3. CASE RxData
  <2> DEFINE i == Head(rxq).block
  <2>1. Receive("DATA") /\ (UNCHANGED acks \/ SendAck(sess'))
    BY <1>3 DEF RxData
  <2>2. \/ UNCHANGED sess
        \/ sess.state = "UL_ACTIVE" /\ i < sess.total /\ IsNew(sess, i) /\ sess' = Accept(sess, i)
    BY <1>3 DEF RxData
  <2>3. i \in Nat
    BY <1>s, <2>1
  <2> HIDE DEF i
  <2>4. SessionTyped'
    BY <1>t, <1>u, <2>2, <2>3, AcceptTypes DEF SessionTyped
  <2>5. QED
    BY <1>r, <2>1, <2>4
<1>4. ASSUME NEW kind, Receive(kind), UNCHANGED acks \/ SendAck(sess),
             UNCHANGED sess \/ sess' = [sess EXCEPT !.state = "IDLE"]
      PROVE  Held'
  <2>1. SessionTyped'
    BY <1>t, <1>u, <1>4 DEF AnySession, SessionTyped
  <2>2. QED
    BY <1>r, <1>4, <2>1
<1>5. CASE RxEnd
  BY <1>4, <1>5 DEF RxEnd
<1>6. CASE RxAbort
  BY <1>4, <1>6 DEF RxAbort
<1>7. QED
  BY <1>1, <1>2, <1>3, <1>5, <1>6 DEF Comms

\* The window from a block of the file is not empty.
LEMMA WindowFrom ==
    ASSUME AtUpload, upload \in DOMAIN Uploads, NEW b \in Nat, b < Uploads[upload].total
    PROVE  Window(b) \subseteq Nat /\ Window(b) # {}
<1>1. Uploads[upload].total \in Nat /\ Uploads[upload].window \in Nat \ {0}
  BY UploadKnown
<1>2. Min2(b + Uploads[upload].window, Uploads[upload].total) \in Nat
      /\ b < Min2(b + Uploads[upload].window, Uploads[upload].total)
  BY <1>1 DEF Min2
<1>3. b \in Window(b) /\ Window(b) \subseteq Nat
  BY <1>2 DEF Window
<1>4. QED
  BY <1>3

LEMMA GroundHolds ==
    ASSUME IInv, Held, Ground \/ TransmitAck
    PROVE  Held'
<1>t. OnTheWay /\ Plan /\ AtUpload
  BY DEF Held, IInv
<1>u. ASSUME upload \in DOMAIN Uploads
      PROVE  Uploads[upload].total \in Nat \ {0} /\ Uploads[upload].window \in Nat \ {0} /\ upload \in Nat
  BY <1>u, UploadKnown
<1>p. phase # "arm" => upload \in DOMAIN Uploads
  BY <1>t DEF AtUpload
<1>c. ASSUME UNCHANGED sess, OnTheWay', Plan'
      PROVE  Held'
  BY <1>c DEF Held, SessionTyped
<1>f. ASSUME NEW f \in FrameTypes, rxq' = Append(rxq, f) \/ UNCHANGED rxq, UNCHANGED acks
      PROVE  OnTheWay'
  BY <1>t, <1>f DEF OnTheWay
<1>g. GoOn => Plan'
  BY DEF GoOn, Plan
<1>1. ASSUME upload \in DOMAIN Uploads, NEW kind \in {"ARM", "BEGIN", "END", "ABORT"}, Plan',
             UNCHANGED receiver, rxq' = Append(rxq, Frame(kind)) \/ UNCHANGED rxq
      PROVE  Held'
  <2>1. Frame(kind) \in FrameTypes
    BY <1>1, <1>u DEF Frame, FrameTypes
  <2>2. QED
    BY <1>1, <1>c, <1>f, <2>1 DEF receiver
<1>2. CASE GroundArm
  <2>1. upload \in DOMAIN Uploads
    BY <1>2, <1>t, UploadsAssumption, LenProperties DEF GroundArm, AtUpload
  <2>2. /\ UNCHANGED receiver /\ (rxq' = Append(rxq, Frame("ARM")) \/ UNCHANGED rxq)
        /\ GoOn \/ (phase = "arm" /\ phase' = "begin" /\ UNCHANGED <<upload, todo, txBase, tries>>)
    BY <1>2 DEF GroundArm, Exchange
  <2>3. Plan'
    BY <1>g, <1>t, <2>2 DEF Plan
  <2>4. QED
    BY <1>1, <2>1, <2>2, <2>3
<1>3. CASE GroundBegin
  <2>1. upload \in DOMAIN Uploads /\ phase = "begin"
    BY <1>3, <1>p DEF GroundBegin
  <2>2. /\ UNCHANGED receiver /\ (rxq' = Append(rxq, Frame("BEGIN")) \/ UNCHANGED rxq)
        /\ \/ GoOn
           \/ phase' = "send" /\ todo' = Window(0) /\ UNCHANGED <<upload, txBase, tries>>
    BY <1>3 DEF GroundBegin, Exchange
  <2>3. Window(0) \subseteq Nat /\ Window(0) # {}
    BY <1>t, <1>u, <2>1, WindowFrom
  <2>4. Plan'
    BY <1>g, <1>t, <1>u, <2>1, <2>2, <2>3 DEF Plan
  <2>5. QED
    BY <1>1, <2>1, <2>2, <2>4
<1>4. CASE GroundEnd \/ GroundAbort
  <2>1. /\ upload \in DOMAIN Uploads /\ UNCHANGED receiver
        /\ \E kind \in {"END", "ABORT"} : rxq' = Append(rxq, Frame(kind)) \/ UNCHANGED rxq
        /\ GoOn
    BY <1>4, <1>p DEF GroundEnd, GroundAbort, Exchange
  <2>2. QED
    BY <1>1, <1>g, <2>1
<1>5. CASE GroundSend
  <2> DEFINE i == Min(todo)
  <2>1. upload \in DOMAIN Uploads /\ phase = "send"
    BY <1>5, <1>p DEF GroundSend
  <2>2. i \in Nat
    <3>1. todo \subseteq Nat /\ todo # {}
      BY <1>t, <2>1 DEF Plan
    <3>2. \E m \in todo : \A k \in todo : m <= k
      BY <3>1, Smallest
    <3>3. QED
      BY <3>1, <3>2 DEF Min
  <2>3. Data(i) \in FrameTypes
    BY <1>u, <2>1, <2>2 DEF Data, FrameTypes
  <2>4. /\ UNCHANGED <<receiver, upload, txBase>>
        /\ rxq' = Append(rxq, Data(i)) \/ UNCHANGED rxq
        /\ todo' = todo \ {i} /\ phase' = IF todo' = {} THEN "wait" ELSE "send"
    BY <1>5 DEF GroundSend
  <2>5. Plan'
    BY <1>t, <2>1, <2>4 DEF Plan
  <2>6. QED
    BY <1>c, <1>f, <2>3, <2>4, <2>5 DEF receiver
<1>6. CASE GroundTimeout
  <2>1. upload \in DOMAIN Uploads /\ phase = "wait" /\ UNCHANGED <<receiver, rxq, upload, txBase>>
    BY <1>6, <1>p DEF GroundTimeout
  <2>2. txBase \in Nat /\ txBase < Uploads[upload].total
    BY <1>t, <2>1 DEF Plan
  <2>3. Window(txBase) \subseteq Nat /\ Window(txBase) # {}
    BY <1>t, <2>1, <2>2, WindowFrom
  <2>4. (phase' = "abort" /\ UNCHANGED todo) \/ (phase' = "send" /\ todo' = Window(txBase))
    BY <1>6 DEF GroundTimeout
  <2>5. Plan'
    BY <1>t, <2>1, <2>2, <2>3, <2>4 DEF Plan
  <2>6. OnTheWay'
    BY <1>t, <2>1 DEF OnTheWay, receiver
  <2>7. QED
    BY <1>c, <2>1, <2>5, <2>6 DEF receiver
<1>7. CASE TransmitAck
  <2> DEFINE a == Head(acks)
             total == Uploads[upload].total
             rest == {i \in a.base..total - 1 : i - a.base - 1 \notin a.bits}
  <2>1. a \in AckTypes /\ OnTheWay' /\ UNCHANGED <<sess, upload>>
    BY <1>7, <1>t DEF TransmitAck, OnTheWay
  <2>2. a.base \in Nat /\ a.bits \subseteq Nat
    BY <2>1 DEF AckTypes
  <2>3. \/ UNCHANGED <<phase, todo, txBase>>
        \/ /\ phase = "wait" /\ txBase' = a.base
           /\ IF a.base >= total THEN phase' = "end" /\ UNCHANGED todo
              ELSE phase' = "send" /\ todo' = rest
    BY <1>7 DEF TransmitAck
  <2> HIDE DEF a
  <2>4. CASE UNCHANGED <<phase, todo, txBase>>
    BY <1>c, <1>t, <2>1, <2>4 DEF Plan
  <2>5. CASE /\ phase = "wait" /\ txBase' = a.base
             /\ IF a.base >= total THEN phase' = "end" /\ UNCHANGED todo
                ELSE phase' = "send" /\ todo' = rest
    <3>1. total \in Nat
      BY <1>p, <1>u, <2>5
    <3> HIDE DEF total
    <3>2. a.base < total => a.base \in rest
      BY <2>2, <3>1
    <3>3. rest \subseteq Nat
      BY <2>2, <3>1
    <3> HIDE DEF rest
    <3>4. Plan'
      <4>1. CASE a.base >= total
        BY <1>t, <2>2, <2>5, <4>1 DEF Plan
      <4>2. CASE ~(a.base >= total)
        <5>1. a.base < total /\ total' = total
          BY <2>1, <2>2, <3>1, <4>2 DEF total
        <5>2. phase' = "send" /\ todo' = rest /\ txBase' = a.base
          BY <2>5, <4>2
        <5>3. rest # {} /\ txBase' < Uploads'[upload'].total
          BY <3>2, <5>1, <5>2 DEF total
        <5>4. QED
          BY <2>2, <3>3, <5>2, <5>3 DEF Plan
      <4>3. QED
        BY <4>1, <4>2
    <3>5. QED
      BY <1>c, <2>1, <3>4
  <2>6. QED
    BY <2>3, <2>4, <2>5
<1>8. QED
  BY <1>2, <1>3, <1>4, <1>5, <1>6, <1>7 DEF Ground

LEMMA InitHeld == Init => Held
<1>1. Init => SessionTyped
  BY DEF Init, NoSession, AnySession, SessionTyped, BitmapBits, Types
<1>2. Init => OnTheWay /\ Plan
  BY EmptySeq DEF Init, OnTheWay, Plan
<1>3. QED
  BY <1>1, <1>2 DEF Held

LEMMA NextHeld == IInv /\ Held /\ [Next]_vars => Held'
<1> SUFFICES ASSUME IInv, Held, [Next]_vars PROVE Held'
  OBVIOUS
<1>1. CASE Comms
  BY <1>1, CommsHolds
<1>2. CASE Ground \/ TransmitAck
  BY <1>2, GroundHolds
<1>3. CASE UNCHANGED vars
  BY <1>3 DEF vars, receiver, ground, Held, SessionTyped, OnTheWay, Plan
<1>4. QED
  BY <1>1, <1>2, <1>3 DEF Next, Finished

-----------------------------------------------------------------------------
(* Flash *)

\* What lies in a cell of flash: nothing, or a block of a file that the buffer took.
Block(cell) ==
    \/ cell = Blank
    \/ \E u \in DOMAIN Uploads, i \in Nat :
           i < Uploads[u].total /\ Uploads[u].total <= Capacity /\ cell = Cell(u, i)

FlashKnown == flash = [c \in Cells |-> flash[c]] /\ \A c \in Cells : Block(flash[c])

LEMMA CellIsBlock ==
    ASSUME NEW u, NEW i, NEW v, NEW j
    PROVE  /\ Cell(u, i) = Cell(v, j) <=> (u = v /\ i = j)
           /\ Cell(u, i).of = u /\ Cell(u, i).block = i
<1>1. Cell(u, i).of = u /\ Cell(u, i).block = i /\ Cell(v, j).of = v /\ Cell(v, j).block = j
  BY DEF Cell
<1>2. QED
  BY <1>1

LEMMA Places ==
    /\ Start("TLE") = 0 /\ Start("CALIBRATION") = TleRoom
    /\ TleRoom \in Nat \ {0} /\ Capacity \in Nat \ {0}
    /\ \A t \in Types, i \in Nat : i < Capacity => Start(t) + i \in Cells
    /\ \A c \in Cells : c \in Nat
BY TleRoomAssumption, CapacityAssumption DEF Start, Types, Cells

\* File f lies at the address of type t, and the other cells are as they were.
Stored(t, f) ==
    /\ Uploads[f].total <= Capacity
    /\ flash' = [c \in Cells |-> flash'[c]]
    /\ \A c \in Cells : flash'[c] = IF c - Start(t) \in 0..Uploads[f].total - 1
                                    THEN Cell(f, c - Start(t)) ELSE flash[c]

\* If the CRC agrees, the file of the frame is stored.
LEMMA EndStores ==
    ASSUME NEW f \in DOMAIN Uploads, NEW t \in Types, sess.total \in Nat,
           Assembled = Whole(f), flash' = Written(t)
    PROVE  Stored(t, f)
<1>1. Uploads[f].total \in Nat \ {0} /\ Capacity \in Nat
  BY UploadKnown, Places
<1>2. DOMAIN Assembled = 0..Uploads[f].total - 1
      /\ \A i \in 0..Uploads[f].total - 1 : Assembled[i] = f
  BY DEF Whole, Blocks
<1>3. Uploads[f].total <= Capacity
  <2>1. DOMAIN Assembled = 0..Min2(sess.total, Capacity) - 1
    BY DEF Assembled
  <2> DEFINE m == Min2(sess.total, Capacity)
  <2>m. m \in Nat
    BY <1>1 DEF Min2
  <2>2. Uploads[f].total - 1 \in 0..m - 1
    BY <1>1, <1>2, <2>1, <2>m
  <2>3. CASE sess.total <= Capacity
    <3>1. m = sess.total
      BY <2>3 DEF Min2
    <3>2. Uploads[f].total <= sess.total
      BY <1>1, <2>2, <3>1
    <3>3. QED
      BY <1>1, <2>3, <3>2
  <2>4. CASE ~(sess.total <= Capacity)
    <3>1. m = Capacity
      BY <2>4 DEF Min2
    <3>2. QED
      BY <1>1, <2>2, <3>1
  <2>5. QED
    BY <2>3, <2>4
<1>4. QED
  BY <1>2, <1>3 DEF Stored, Written

\* Only a DATA_END changes flash, and what it stores is the file of its frame.
LEMMA StepWrites ==
    ASSUME IInv, Held, [Next]_vars
    PROVE  UNCHANGED flash \/ \E t \in Types, f \in DOMAIN Uploads : Stored(t, f)
<1>1. CASE RxEnd
  <2>1. Receive("END")
    BY <1>1 DEF RxEnd
  <2>2. Head(rxq).of \in DOMAIN Uploads /\ sess.type \in Types /\ sess.total \in Nat
    BY <2>1, ReceiveKeeps DEF Held, SessionTyped, AnySession
  <2>3. UNCHANGED flash \/ (Assembled = Whole(Head(rxq).of) /\ flash' = Written(sess.type))
    BY <1>1 DEF RxEnd
  <2>4. QED
    BY <2>2, <2>3, EndStores
<1>2. CASE RxArm \/ RxBegin \/ RxData \/ RxAbort
  BY <1>2 DEF RxArm, RxBegin, RxData, RxAbort
<1>3. CASE Ground \/ TransmitAck
  BY <1>3 DEF Ground, GroundArm, GroundBegin, GroundSend, GroundTimeout, GroundEnd,
              GroundAbort, Exchange, TransmitAck, receiver
<1>4. CASE UNCHANGED vars
  BY <1>4 DEF vars, receiver
<1>5. QED
  BY <1>1, <1>2, <1>3, <1>4 DEF Next, Comms, Finished

LEMMA InitFlash == Init => FlashKnown
BY DEF Init, FlashKnown, Block

LEMMA NextFlash == IInv /\ Held /\ FlashKnown /\ [Next]_vars => FlashKnown'
<1> SUFFICES ASSUME IInv, Held, FlashKnown, [Next]_vars PROVE FlashKnown'
  OBVIOUS
<1>1. CASE UNCHANGED flash
  BY <1>1 DEF FlashKnown
<1>2. ASSUME NEW t \in Types, NEW f \in DOMAIN Uploads, Stored(t, f) PROVE FlashKnown'
  <2>1. Uploads[f].total \in Nat \ {0} /\ Uploads[f].total <= Capacity
    BY <1>2, UploadKnown DEF Stored
  <2>2. ASSUME NEW c \in Cells PROVE Block(flash'[c])
    <3>1. CASE c - Start(t) \in 0..Uploads[f].total - 1
      <4>1. c - Start(t) \in Nat /\ c - Start(t) < Uploads[f].total
        BY <2>1, <3>1
      <4>2. flash'[c] = Cell(f, c - Start(t))
        BY <1>2, <3>1 DEF Stored
      <4>3. QED
        BY <2>1, <4>1, <4>2 DEF Block
    <3>2. CASE c - Start(t) \notin 0..Uploads[f].total - 1
      <4>1. flash'[c] = flash[c]
        BY <1>2, <3>2 DEF Stored
      <4>2. QED
        BY <4>1 DEF FlashKnown
    <3>3. QED
      BY <3>1, <3>2
  <2>3. flash' = [c \in Cells |-> flash'[c]]
    BY <1>2 DEF Stored
  <2>4. QED
    BY <2>2, <2>3 DEF FlashKnown, Block
<1>3. QED
  BY <1>1, <1>2, StepWrites

-----------------------------------------------------------------------------
(* What a reader finds *)

\* File u lies whole at the address of type q, in the flash fl.
WholeAt(fl, q, u) == \A i \in 0..Uploads[u].total - 1 : fl[Start(q) + i] = Cell(u, i)

\* The reader by the content of the first cell.
LEMMA Readings ==
    ASSUME NEW q
    PROVE  /\ flash[Start(q)] = Blank => FileAt(q) = <<>>
           /\ \A u \in DOMAIN Uploads : flash[Start(q)] = Cell(u, 0) =>
                  /\ WholeAt(flash, q, u) => FileAt(q) = Whole(u)
                  /\ ~WholeAt(flash, q, u) => FileAt(q) = Damaged
           /\ \A u \in DOMAIN Uploads, i \in Nat \ {0} :
                  flash[Start(q)] = Cell(u, i) => FileAt(q) = Damaged
<1>1. ASSUME NEW u \in DOMAIN Uploads, NEW i
      PROVE  Cell(u, i) # Blank /\ Cell(u, i).of = u /\ Cell(u, i).block = i
  BY UploadKnown, CellIsBlock DEF Blank
<1>2. QED
  BY <1>1 DEF FileAt, WholeAt, Blocks

LEMMA ReadingsAfter ==
    ASSUME NEW q
    PROVE  /\ flash'[Start(q)] = Blank => FileAt(q)' = <<>>
           /\ \A u \in DOMAIN Uploads : flash'[Start(q)] = Cell(u, 0) =>
                  /\ WholeAt(flash', q, u) => FileAt(q)' = Whole(u)
                  /\ ~WholeAt(flash', q, u) => FileAt(q)' = Damaged
           /\ \A u \in DOMAIN Uploads, i \in Nat \ {0} :
                  flash'[Start(q)] = Cell(u, i) => FileAt(q)' = Damaged
<1>1. ASSUME NEW u \in DOMAIN Uploads, NEW i
      PROVE  Cell(u, i) # Blank /\ Cell(u, i).of = u /\ Cell(u, i).block = i
  BY UploadKnown, CellIsBlock DEF Blank
<1>2. QED
  BY <1>1 DEF FileAt, WholeAt, Blocks

\* A pair of TLE and a file that does not keep below the calibration is not fitting.
LEMMA LongIsNotFitting ==
    ASSUME NEW u \in DOMAIN Uploads, Uploads[u].total > TleRoom
    PROVE  <<"TLE", Whole(u)>> \notin Fitting
<1>1. Uploads[u].total \in Nat \ {0} /\ TleRoom \in Nat
  BY UploadKnown, Places
<1>2. ASSUME NEW v \in DOMAIN Uploads, Uploads[v].total <= TleRoom PROVE Whole(u) # Whole(v)
  <2>1. Uploads[v].total \in Nat \ {0}
    BY UploadKnown
  <2>2. DOMAIN Whole(u) = 0..Uploads[u].total - 1 /\ DOMAIN Whole(v) = 0..Uploads[v].total - 1
    BY DEF Whole, Blocks
  <2>3. Uploads[u].total - 1 \in DOMAIN Whole(u) /\ Uploads[u].total - 1 \notin DOMAIN Whole(v)
    BY <1>1, <1>2, <2>1, <2>2
  <2>4. QED
    BY <2>3
<1>3. "TLE" # "CALIBRATION"
  OBVIOUS
<1>4. QED
  BY <1>2, <1>3 DEF Fitting

\* The file stored is found at its place.
LEMMA FoundAtItsPlace ==
    ASSUME NEW t \in Types, NEW f \in DOMAIN Uploads, Stored(t, f)
    PROVE  FileAt(t)' = Whole(f)
<1>1. Uploads[f].total \in Nat \ {0} /\ Uploads[f].total <= Capacity
  BY UploadKnown DEF Stored
<1>2. ASSUME NEW i \in 0..Uploads[f].total - 1 PROVE flash'[Start(t) + i] = Cell(f, i)
  <2>1. Start(t) \in Nat /\ Start(t) + i \in Cells /\ (Start(t) + i) - Start(t) = i
    BY <1>1, Places DEF Types
  <2>2. QED
    BY <2>1 DEF Stored
<1>3. flash'[Start(t)] = Cell(f, 0)
  <2>1. flash'[Start(t) + 0] = Cell(f, 0) /\ Start(t) \in Nat
    BY <1>1, <1>2, Places DEF Types
  <2>2. QED
    BY <2>1
<1>4. QED
  BY <1>2, <1>3, ReadingsAfter DEF WholeAt

\* A file stored as TLE leaves the calibration alone if it is short enough, and spoils it otherwise.
LEMMA CalibrationAfterTle ==
    ASSUME FlashKnown, NEW f \in DOMAIN Uploads, Stored("TLE", f)
    PROVE  \/ FileAt("CALIBRATION")' = FileAt("CALIBRATION")
           \/ Uploads[f].total > TleRoom /\ FileAt("CALIBRATION")' = Damaged
<1>1. Uploads[f].total \in Nat \ {0} /\ Uploads[f].total <= Capacity
  BY UploadKnown DEF Stored
<1>2. CASE Uploads[f].total <= TleRoom
  <2>1. ASSUME NEW i \in Nat, i < Capacity
        PROVE  flash'[Start("CALIBRATION") + i] = flash[Start("CALIBRATION") + i]
    <3>1. Start("CALIBRATION") + i \in Cells
      BY <2>1, Places DEF Types
    <3>2. (Start("CALIBRATION") + i) - Start("TLE") \notin 0..Uploads[f].total - 1
      BY <1>1, <1>2, Places
    <3>3. QED
      BY <3>1, <3>2 DEF Stored
  <2>2. flash'[Start("CALIBRATION")] = flash[Start("CALIBRATION")] /\ Start("CALIBRATION") \in Cells
    <3>1. Start("CALIBRATION") + 0 = Start("CALIBRATION") /\ 0 < Capacity /\ 0 \in Nat
      BY <1>1, Places
    <3>2. QED
      BY <2>1, <3>1, Places DEF Types
  <2>3. Block(flash[Start("CALIBRATION")])
    BY <2>2 DEF FlashKnown
  <2>4. CASE flash[Start("CALIBRATION")] = Blank
    BY <2>2, <2>4, Readings, ReadingsAfter
  <2>5. ASSUME NEW u \in DOMAIN Uploads, NEW i \in Nat, i < Uploads[u].total,
               Uploads[u].total <= Capacity, flash[Start("CALIBRATION")] = Cell(u, i)
        PROVE  FileAt("CALIBRATION")' = FileAt("CALIBRATION")
    <3>1. CASE i = 0
      <4>1. Uploads[u].total \in Nat
        BY UploadKnown
      <4>2. WholeAt(flash', "CALIBRATION", u) <=> WholeAt(flash, "CALIBRATION", u)
        BY <2>1, <2>5, <4>1, Places DEF WholeAt
      <4>3. QED
        BY <2>2, <2>5, <3>1, <4>2, Readings, ReadingsAfter
    <3>2. CASE i # 0
      BY <2>2, <2>5, <3>2, Readings, ReadingsAfter
    <3>3. QED
      BY <3>1, <3>2
  <2>6. QED
    BY <2>3, <2>4, <2>5 DEF Block
<1>3. CASE Uploads[f].total > TleRoom
  <2>1. Start("CALIBRATION") \in Cells /\ Start("CALIBRATION") - Start("TLE") = TleRoom
        /\ TleRoom \in 0..Uploads[f].total - 1 /\ TleRoom \in Nat \ {0}
    BY <1>1, <1>3, Places DEF Cells
  <2>2. flash'[Start("CALIBRATION")] = Cell(f, TleRoom)
    BY <2>1 DEF Stored
  <2>3. QED
    BY <1>3, <2>1, <2>2, ReadingsAfter
<1>4. QED
  BY <1>1, <1>2, <1>3, Places

\* A file stored as calibration leaves the TLE alone, and spoils one that reaches this far.
LEMMA TleAfterCalibration ==
    ASSUME FlashKnown, NEW f \in DOMAIN Uploads, Stored("CALIBRATION", f)
    PROVE  \/ FileAt("TLE")' = FileAt("TLE")
           \/ /\ FileAt("TLE")' = Damaged
              /\ \E u \in DOMAIN Uploads : Uploads[u].total > TleRoom /\ FileAt("TLE") = Whole(u)
<1>1. Uploads[f].total \in Nat \ {0} /\ Uploads[f].total <= Capacity
  BY UploadKnown DEF Stored
<1>2. ASSUME NEW i \in Nat, i < TleRoom PROVE flash'[i] = flash[i] /\ i \in Cells
  <2>1. i \in Cells
    BY <1>2, Places DEF Cells
  <2>2. i - Start("CALIBRATION") \notin 0..Uploads[f].total - 1
    BY <1>2, Places
  <2>3. QED
    BY <2>1, <2>2 DEF Stored
<1>3. flash'[TleRoom] = Cell(f, 0)
  <2>1. TleRoom \in Cells /\ TleRoom - Start("CALIBRATION") = 0 /\ 0 \in 0..Uploads[f].total - 1
    BY <1>1, Places DEF Cells
  <2>2. QED
    BY <2>1 DEF Stored
<1>4. Start("TLE") = 0 /\ flash'[0] = flash[0] /\ 0 \in Cells /\ TleRoom \in Nat \ {0}
  BY <1>2, Places
<1>5. Block(flash[0])
  BY <1>4 DEF FlashKnown
<1>6. CASE flash[0] = Blank
  BY <1>4, <1>6, Readings, ReadingsAfter
<1>7. ASSUME NEW u \in DOMAIN Uploads, NEW i \in Nat \ {0}, flash[0] = Cell(u, i)
      PROVE  FileAt("TLE")' = FileAt("TLE")
  BY <1>4, <1>7, Readings, ReadingsAfter
<1>8. ASSUME NEW u \in DOMAIN Uploads, flash[0] = Cell(u, 0)
      PROVE  \/ FileAt("TLE")' = FileAt("TLE")
             \/ /\ FileAt("TLE")' = Damaged
                /\ Uploads[u].total > TleRoom /\ FileAt("TLE") = Whole(u)
  <2>1. Uploads[u].total \in Nat /\ TleRoom \in Nat
    BY UploadKnown, Places
  <2>2. \A i \in Nat : Start("TLE") + i = i
    BY <1>4
  <2>3. CASE Uploads[u].total <= TleRoom
    <3>1. WholeAt(flash', "TLE", u) <=> WholeAt(flash, "TLE", u)
      BY <1>2, <2>1, <2>2, <2>3 DEF WholeAt
    <3>2. QED
      BY <1>4, <1>8, <3>1, Readings, ReadingsAfter
  <2>4. CASE Uploads[u].total > TleRoom
    <3>1. flash'[TleRoom] # Cell(u, TleRoom)
      BY <1>3, <1>4, CellIsBlock
    <3>2. TleRoom \in 0..Uploads[u].total - 1 /\ Start("TLE") + TleRoom = TleRoom
      BY <2>1, <2>2, <2>4
    <3>3. ~WholeAt(flash', "TLE", u)
      BY <3>1, <3>2 DEF WholeAt
    <3>4. FileAt("TLE")' = Damaged
      BY <1>4, <1>8, <3>3, ReadingsAfter
    <3>5. FileAt("TLE") = Whole(u) \/ FileAt("TLE") = Damaged
      BY <1>4, <1>8, Readings
    <3>6. QED
      BY <2>4, <3>4, <3>5
  <2>5. QED
    BY <2>1, <2>3, <2>4
<1>9. QED
  BY <1>5, <1>6, <1>7, <1>8 DEF Block

\* A step stores one file, or leaves what a reader finds as it is.
Found == [t \in Types |-> FileAt(t)]

LEMMA StepStores == IInv /\ Held /\ FlashKnown /\ [Next]_vars => [Promise!Next]_Found
<1> SUFFICES ASSUME IInv, Held, FlashKnown, [Next]_vars PROVE [Promise!Next]_Found
  OBVIOUS
<1>1. CASE UNCHANGED flash
  BY <1>1 DEF Found, FileAt
<1>2. ASSUME NEW t \in Types, NEW f \in DOMAIN Uploads, Stored(t, f) PROVE Promise!Next
  <2>1. FileAt(t)' = Whole(f) /\ Whole(f) \in Files
    BY <1>2, FoundAtItsPlace DEF Files
  <2>2. ASSUME NEW q \in Types \ {t}
        PROVE  \/ FileAt(q)' = FileAt(q)
               \/ /\ FileAt(q)' = Damaged
                  /\ \/ <<t, Whole(f)>> \notin Fitting
                     \/ FileAt(q) \in Files /\ <<q, FileAt(q)>> \notin Fitting
    <3>1. CASE t = "TLE"
      <4>1. q = "CALIBRATION"
        BY <3>1 DEF Types
      <4>2. QED
        BY <1>2, <3>1, <4>1, CalibrationAfterTle, LongIsNotFitting
    <3>2. CASE t = "CALIBRATION"
      <4>1. q = "TLE"
        BY <3>2 DEF Types
      <4>2. \/ FileAt(q)' = FileAt(q)
            \/ /\ FileAt(q)' = Damaged
               /\ \E u \in DOMAIN Uploads : Uploads[u].total > TleRoom /\ FileAt(q) = Whole(u)
        BY <1>2, <3>2, <4>1, TleAfterCalibration
      <4>3. ASSUME NEW u \in DOMAIN Uploads, Uploads[u].total > TleRoom, FileAt(q) = Whole(u)
            PROVE  FileAt(q) \in Files /\ <<q, FileAt(q)>> \notin Fitting
        BY <4>1, <4>3, LongIsNotFitting DEF Files
      <4>4. QED
        BY <4>2, <4>3
    <3>3. QED
      BY <3>1, <3>2 DEF Types
  <2>3. Promise!Put(t, Whole(f))
    BY <2>1, <2>2 DEF Promise!Put, Promise!MayDamage, Files, Fitting
  <2>4. QED
    BY <2>1, <2>3 DEF Promise!Next, Files
<1>3. QED
  BY <1>1, <1>2, StepWrites

\* Uploads implement the file store: at any time a place in flash holds nothing, one whole
\* uploaded file, or what a file longer than its place has left of one, whatever is lost, given
\* up or mixed up (arq_rx, ul_write_flash).
THEOREM Implements == Spec => WritesWholeFiles
<1>1. Init => Promise!Init
  <2> SUFFICES ASSUME Init PROVE Promise!Init
    OBVIOUS
  <2>1. ASSUME NEW t \in Types PROVE FileAt(t) = <<>>
    <3>1. Start(t) \in Cells
      BY Places DEF Types, Cells
    <3>2. flash[Start(t)] = Blank
      BY <3>1 DEF Init
    <3>3. QED
      BY <3>2, Readings
  <2>2. QED
    BY <2>1 DEF Promise!Init
<1>2. IInv /\ Held /\ FlashKnown /\ [Next]_vars => [Promise!Next]_Found
  BY StepStores
<1>3. QED
  BY <1>1, <1>2, InitIInv, NextIInv, InitHeld, NextHeld, InitFlash, NextFlash, PTL
     DEF Spec, WritesWholeFiles, Promise!Spec, Found

-----------------------------------------------------------------------------
(* What a DATA_ACK reports *)

\* The bitmap has a bit for every block behind base: in a longer file a block can be received
\* that has none.  The buffer of 512 bytes takes files of three blocks.
FilesFitBitmap == \A u \in DOMAIN Uploads : Uploads[u].total <= BitmapBits + 1

\* Session s reports the blocks of S, and no others.
Reports(s, S) == \A i \in Nat : i \in S <=> ~IsNew(s, i)

Exact ==
    /\ sess.total <= BitmapBits + 1
    /\ sess.state = "UL_ARMED" => sess.total = 0
    /\ ~skewed => got \subseteq 0..sess.total - 1 /\ Reports(sess, got)

\* With no other block missing below a received one, base moves past all of them, and the
\* shift of the bitmap that is one short has nothing to move.
LEMMA AdvanceReports ==
    ASSUME NEW s \in AnySession, s.base < s.total,
           NEW S, S \subseteq 0..s.total - 1, Reports(s, S),
           \A k \in S : \A j \in s.base + 1..k : j \in S
    PROVE  LET t == [Advance(s) EXCEPT !.received = @ + 1] IN Reports(t, S \union {s.base})
<1>1. s.base \in Nat /\ s.total \in Nat /\ s.bits \subseteq 0..63 /\ s.received \in Nat
  BY DEF AnySession, BitmapBits
<1>2. PICK run \in Nat :
          /\ run <= s.total - (s.base + 1)
          /\ \A b \in 0..run - 1 : b \in s.bits
          /\ run = s.total - (s.base + 1) \/ run \notin s.bits
          /\ Advance(s) = Moved(s, run)
  BY AdvanceMoves
<1>3. \A i \in Nat : i \in S <=> ~IsNew(s, i)
  BY DEF Reports
<1>4. ASSUME NEW x \in s.bits, x >= run PROVE FALSE
  <2> DEFINE k == s.base + 1 + x
             j == s.base + 1 + run
  <2>1. k \in Nat /\ j \in Nat /\ k - s.base - 1 = x /\ j - s.base - 1 = run /\ k > s.base /\ j > s.base
    BY <1>1
  <2>2. k \in S
    BY <1>3, <1>4, <2>1 DEF IsNew
  <2>3. k < s.total
    BY <1>1, <2>2
  <2>4. run \notin s.bits
    BY <1>1, <1>2, <1>4, <2>1, <2>3
  <2>5. j \notin S
    BY <1>1, <1>3, <2>1, <2>4 DEF IsNew
  <2>6. j \in s.base + 1..k
    BY <1>1, <1>4, <2>1
  <2> HIDE DEF k, j
  <2>7. QED
    BY <2>2, <2>5, <2>6
<1> DEFINE t == [s EXCEPT !.base = s.base + 1 + run, !.bits = {}, !.received = s.received + 1]
<1>5. [Advance(s) EXCEPT !.received = @ + 1] = t
  <2>1. {b - run : b \in {x \in s.bits : x >= run}} = {}
    BY <1>4
  <2>2. Advance(s) = [s EXCEPT !.base = s.base + 1 + run, !.bits = {}]
    BY <1>2, <2>1 DEF Moved
  <2>3. QED
    BY <2>2 DEF AnySession
<1>6. t.base = s.base + 1 + run /\ t.bits = {}
  BY DEF AnySession
<1> HIDE DEF t
<1>7. ASSUME NEW i \in Nat PROVE i \in S \union {s.base} <=> ~IsNew(t, i)
  <2>1. IsNew(t, i) <=> i >= s.base + 1 + run
    BY <1>1, <1>6 DEF IsNew
  <2>2. CASE i < s.base
    <3>1. i \in S
      BY <1>1, <1>3, <2>2 DEF IsNew
    <3>2. QED
      BY <1>1, <2>1, <2>2, <3>1
  <2>3. CASE i = s.base
    BY <1>1, <2>1, <2>3
  <2>4. CASE i > s.base
    <3> DEFINE b == i - s.base - 1
    <3>1. b \in Nat /\ (i >= s.base + 1 + run <=> b >= run)
      BY <1>1, <2>4
    <3>2. i \in S <=> b \in s.bits
      BY <1>1, <1>3, <2>4 DEF IsNew
    <3> HIDE DEF b
    <3>3. b \in s.bits <=> b < run
      BY <1>2, <1>4, <3>1
    <3>4. QED
      BY <1>1, <2>1, <2>4, <3>1, <3>2, <3>3
  <2>5. QED
    BY <1>1, <2>2, <2>3, <2>4
<1>8. Reports(t, S \union {s.base})
  BY <1>7 DEF Reports
<1>9. QED
  BY <1>5, <1>8

\* A block beyond base gets its bit.
LEMMA MarkReports ==
    ASSUME NEW s \in AnySession, NEW i \in Nat, i > s.base, i - s.base <= BitmapBits,
           NEW S, Reports(s, S)
    PROVE  Reports(Accept(s, i), S \union {i})
<1>1. s.base \in Nat /\ s.received \in Nat /\ s.bits \subseteq 0..63
  BY DEF AnySession, BitmapBits
<1> DEFINE o == i - s.base - 1
           t == [s EXCEPT !.bits = s.bits \union {o}, !.received = s.received + 1]
<1>2. Accept(s, i) = t
  <2>1. i - s.base # 0
    BY <1>1
  <2>2. QED
    BY <1>1, <2>1 DEF Accept, AnySession
<1>3. t.base = s.base /\ t.bits = s.bits \union {o}
  BY DEF AnySession
<1> HIDE DEF t
<1>4. ASSUME NEW j \in Nat PROVE j \in S \union {i} <=> ~IsNew(t, j)
  <2>1. j \in S <=> ~IsNew(s, j)
    BY DEF Reports
  <2>2. j - s.base - 1 = o <=> j = i
    BY <1>1
  <2>3. QED
    BY <1>1, <1>3, <2>1, <2>2 DEF IsNew
<1>5. QED
  BY <1>2, <1>4 DEF Reports

LEMMA CommsExact ==
    ASSUME FilesFitBitmap, IInv, Held, Exact, Comms
    PROVE  Exact'
<1>t. SessionTyped /\ sess \in AnySession /\ sess.total <= BitmapBits + 1
  BY DEF Held, SessionTyped, Exact
<1>k. ASSUME sess'.total = sess.total, sess'.base = sess.base, sess'.bits = sess.bits,
             sess'.state = "UL_ARMED" => sess.state = "UL_ARMED", UNCHANGED <<got, skewed>>
      PROVE  Exact'
  BY <1>k DEF Exact, Reports, IsNew
<1>1. CASE RxArm
  <2>1. \/ UNCHANGED <<sess, got, skewed>>
        \/ /\ sess' = [NoSession EXCEPT !.state = "UL_ARMED", !.type = Sent.type]
           /\ got' = {}
    BY <1>1 DEF RxArm
  <2>2. CASE UNCHANGED <<sess, got, skewed>>
    BY <1>k, <2>2
  <2>3. CASE /\ sess' = [NoSession EXCEPT !.state = "UL_ARMED", !.type = Sent.type]
             /\ got' = {}
    <3>1. sess'.total = 0 /\ sess'.base = 0 /\ sess'.bits = {}
      BY <2>3 DEF NoSession
    <3>2. QED
      BY <2>3, <3>1 DEF Exact, Reports, IsNew, BitmapBits
  <2>4. QED
    BY <2>1, <2>2, <2>3
<1>2. CASE RxBegin
  <2>1. Sent.total \in Nat /\ Sent.total <= BitmapBits + 1
    <3>1. Head(rxq).of \in DOMAIN Uploads
      BY <1>2, ReceiveKeeps DEF RxBegin
    <3>2. QED
      BY <3>1, UploadKnown DEF Sent, FilesFitBitmap
  <2>2. /\ UNCHANGED <<got, skewed>>
        /\ \/ UNCHANGED sess
           \/ /\ sess.state = "UL_ARMED"
              /\ sess' = [sess EXCEPT !.state = "UL_ACTIVE", !.sid = Sent.sid,
                                      !.total = Sent.total, !.window = Sent.window]
    BY <1>2 DEF RxBegin
  <2>3. CASE UNCHANGED sess
    BY <1>k, <2>2, <2>3
  <2>4. CASE /\ sess.state = "UL_ARMED"
             /\ sess' = [sess EXCEPT !.state = "UL_ACTIVE", !.sid = Sent.sid,
                                     !.total = Sent.total, !.window = Sent.window]
    <3>1. /\ sess'.total = Sent.total /\ sess'.base = sess.base /\ sess'.bits = sess.bits
          /\ sess'.state = "UL_ACTIVE"
      BY <1>t, <2>4 DEF AnySession
    <3>2. ~skewed => got = {}
      BY <2>4 DEF Exact
    <3>3. ~skewed => Reports(sess', got)
      BY <3>1 DEF Exact, Reports, IsNew
    <3>4. QED
      BY <2>1, <2>2, <3>1, <3>2, <3>3 DEF Exact
  <2>5. QED
    BY <2>2, <2>3, <2>4
<1>3. CASE RxData
  <2> DEFINE i == Head(rxq).block
  <2>1. \/ UNCHANGED <<sess, got, skewed>>
        \/ /\ i < sess.total /\ got' = got \union {i} /\ skewed' = (skewed \/ TwoGaps(i))
           /\ sess' = IF IsNew(sess, i) THEN Accept(sess, i) ELSE sess
    BY <1>3 DEF RxData
  <2>2. i \in Nat
    BY <1>3, HeadBlock DEF RxData, Held
  <2> HIDE DEF i
  <2>3. CASE UNCHANGED <<sess, got, skewed>>
    BY <1>k, <2>3
  <2>4. CASE /\ i < sess.total /\ got' = got \union {i} /\ skewed' = (skewed \/ TwoGaps(i))
             /\ sess' = IF IsNew(sess, i) THEN Accept(sess, i) ELSE sess
    <3>1. sess'.total = sess.total /\ sess'.state = sess.state
      BY <1>t, <2>2, <2>4, AcceptTypes DEF SessionTyped
    <3>2. ASSUME ~skewed' PROVE got' \subseteq 0..sess'.total - 1 /\ Reports(sess', got')
      <4>1. ~skewed /\ ~TwoGaps(i)
        BY <2>4, <3>2
      <4>2. got \subseteq 0..sess.total - 1 /\ Reports(sess, got)
        BY <4>1 DEF Exact
      <4>3. sess.base \in Nat /\ sess.total \in Nat /\ sess.total <= 65
        BY <1>t DEF AnySession, BitmapBits
      <4>4. got' \subseteq 0..sess'.total - 1
        BY <2>2, <2>4, <3>1, <4>2, <4>3
      <4>5. CASE ~IsNew(sess, i)
        <5>1. i \in got
          BY <2>2, <4>2, <4>5 DEF Reports
        <5>2. got' = got /\ sess' = sess
          BY <2>4, <4>5, <5>1
        <5>3. QED
          BY <4>2, <4>4, <5>2
      <4>6. CASE IsNew(sess, i) /\ i = sess.base
        <5>1. i \notin got /\ \A j \in 0..i - 1 : j \in got
          BY <2>2, <4>2, <4>3, <4>6 DEF Reports, IsNew
        <5>2. \A k \in got : \A j \in sess.base + 1..k : j \in got
          BY <4>1, <4>6, <5>1 DEF TwoGaps
        <5>3. sess' = [Advance(sess) EXCEPT !.received = @ + 1]
          BY <2>4, <4>3, <4>6 DEF Accept
        <5>4. Reports(sess', got \union {sess.base})
          BY <1>t, <2>4, <4>2, <4>6, <5>2, <5>3, AdvanceReports
        <5>5. QED
          BY <2>4, <4>4, <4>6, <5>4
      <4>7. CASE IsNew(sess, i) /\ i # sess.base
        <5>1. i > sess.base /\ i - sess.base <= BitmapBits
          BY <2>2, <2>4, <4>3, <4>7 DEF IsNew, BitmapBits
        <5>2. Reports(Accept(sess, i), got \union {i})
          BY <1>t, <2>2, <4>2, <5>1, MarkReports
        <5>3. QED
          BY <2>4, <4>4, <4>7, <5>2
      <4>8. QED
        BY <4>5, <4>6, <4>7
    <3>3. QED
      BY <1>t, <3>1, <3>2 DEF Exact
  <2>5. QED
    BY <2>1, <2>3, <2>4
<1>4. CASE RxEnd \/ RxAbort
  <2>1. /\ UNCHANGED <<got, skewed>>
        /\ UNCHANGED sess \/ sess' = [sess EXCEPT !.state = "IDLE"]
    BY <1>4 DEF RxEnd, RxAbort
  <2>2. QED
    BY <1>k, <1>t, <2>1 DEF AnySession
<1>5. QED
  BY <1>1, <1>2, <1>3, <1>4 DEF Comms

\* Of files whose blocks the bitmap can tell, a DATA_ACK reports the blocks that came and no
\* others, whatever is lost, repeated or given up, unless the lowest missing block came while
\* another was missing below a received one (arq_rx).
THEOREM AcksAreExactHolds == FilesFitBitmap /\ Spec => []AcksAreExact
<1> SUFFICES ASSUME FilesFitBitmap PROVE Spec => []AcksAreExact
  OBVIOUS
<1>1. Init => Exact
  <2>1. Init => sess.total = 0 /\ sess.base = 0 /\ sess.bits = {} /\ got = {}
    BY DEF Init, NoSession
  <2>2. QED
    BY <2>1 DEF Exact, Reports, IsNew, BitmapBits
<1>2. IInv /\ Held /\ Exact /\ [Next]_vars => Exact'
  <2> SUFFICES ASSUME IInv, Held, Exact, [Next]_vars PROVE Exact'
    OBVIOUS
  <2>1. CASE Comms
    BY <2>1, CommsExact
  <2>2. CASE UNCHANGED <<sess, got, skewed>>
    BY <2>2 DEF Exact, Reports
  <2>3. Comms \/ UNCHANGED <<sess, got, skewed>>
    BY DEF Next, Ground, GroundArm, GroundBegin, GroundSend, GroundTimeout, GroundEnd, GroundAbort,
           Exchange, TransmitAck, Finished, vars, receiver
  <2>4. QED
    BY <2>1, <2>2, <2>3
<1>3. Held /\ Exact => AcksAreExact
  BY DEF Held, SessionTyped, AnySession, Exact, Reports, AcksAreExact
<1>4. QED
  BY <1>1, <1>2, <1>3, InitIInv, NextIInv, InitHeld, NextHeld, PTL DEF Spec

-----------------------------------------------------------------------------
(* Types *)

\* The ground station counts timeouts to one beyond the last repetition, where it aborts.
Bounded ==
    /\ buf \in [0..Capacity - 1 -> 0..Len(Uploads)]
    /\ Len(rxq) <= QueueLength /\ Len(acks) <= QueueLength
    /\ phase \in {"arm", "begin", "send", "wait", "end", "abort"}
    /\ upload \in 1..Len(Uploads) + 1
    /\ tries \in 0..MaxRetx + 1 /\ (phase # "abort" => tries <= MaxRetx)
    /\ losses \in 0..MaxLosses /\ failures \in 0..MaxFailures

\* The histories of a session.
Remembered == got \subseteq Nat /\ skewed \in BOOLEAN

LEMMA InitRemembered == Init => Remembered
BY DEF Init, Remembered

LEMMA NextRemembered == Held /\ Remembered /\ [Next]_vars => Remembered'
<1> SUFFICES ASSUME Held, Remembered, [Next]_vars PROVE Remembered'
  OBVIOUS
<1>1. CASE RxData
  <2>1. Head(rxq).block \in Nat
    BY <1>1, HeadBlock DEF RxData, Held
  <2>2. \/ UNCHANGED <<got, skewed>>
        \/ /\ got' = got \union {Head(rxq).block}
           /\ skewed' = (skewed \/ TwoGaps(Head(rxq).block))
    BY <1>1 DEF RxData
  <2>3. got' \subseteq Nat
    BY <2>1, <2>2 DEF Remembered
  <2>4. skewed' \in BOOLEAN
    BY <2>2, Zenon DEF Remembered
  <2>5. QED
    BY <2>3, <2>4 DEF Remembered
<1>2. CASE RxArm
  BY <1>2 DEF RxArm, Remembered
<1>3. CASE UNCHANGED <<got, skewed>>
  BY <1>3 DEF Remembered
<1>4. RxData \/ RxArm \/ UNCHANGED <<got, skewed>>
  BY DEF Next, Comms, RxBegin, RxEnd, RxAbort, Ground, GroundArm, GroundBegin, GroundSend,
         GroundTimeout, GroundEnd, GroundAbort, Exchange, TransmitAck, Finished, vars, receiver
<1>5. QED
  BY <1>1, <1>2, <1>3, <1>4

LEMMA FlashTyped ==
    ASSUME FlashKnown
    PROVE  flash \in [Cells -> [of : 0..Len(Uploads), block : 0..Capacity - 1]]
<1>1. Capacity \in Nat \ {0} /\ Len(Uploads) \in Nat
  BY Places, UploadsAssumption, LenProperties
<1>2. ASSUME NEW c \in Cells PROVE flash[c] \in [of : 0..Len(Uploads), block : 0..Capacity - 1]
  <2>1. CASE flash[c] = Blank
    BY <1>1, <2>1 DEF Blank, Cell
  <2>2. ASSUME NEW u \in DOMAIN Uploads, NEW i \in Nat, i < Uploads[u].total,
               Uploads[u].total <= Capacity, flash[c] = Cell(u, i)
        PROVE  flash[c] \in [of : 0..Len(Uploads), block : 0..Capacity - 1]
    <3>1. Uploads[u].total \in Nat /\ u \in 0..Len(Uploads)
      BY UploadKnown, UploadsAssumption, LenProperties
    <3>2. i \in 0..Capacity - 1
      BY <1>1, <2>2, <3>1
    <3>3. QED
      BY <2>2, <3>1, <3>2 DEF Cell
  <2>3. QED
    BY <2>1, <2>2 DEF FlashKnown, Block
<1>3. QED
  BY <1>2 DEF FlashKnown

LEMMA CommsBounded ==
    ASSUME IInv, Held, Bounded, Comms
    PROVE  Bounded'
<1>1. rxq \in Seq(FrameTypes) /\ acks \in Seq(AckTypes)
  BY DEF Held, OnTheWay
<1>2. PICK kind : Receive(kind)
  BY DEF Comms, RxArm, RxBegin, RxData, RxEnd, RxAbort
<1>3. Len(rxq') <= QueueLength
  BY <1>1, <1>2 DEF Receive, Bounded, QueueLength
<1>4. Len(acks') <= QueueLength
  <2>1. ASSUME NEW s, SendAck(s) PROVE Len(acks') <= QueueLength
    <3> DEFINE a == [sid |-> s.sid, base |-> s.base, bits |-> s.bits]
    <3>1. Len(Append(acks, a)) = Len(acks) + 1 /\ Len(acks) \in Nat
      BY <1>1, AppendProperties, LenProperties
    <3>2. QED
      BY <2>1, <3>1 DEF SendAck, Bounded, QueueLength
  <2>2. UNCHANGED acks \/ SendAck(sess) \/ SendAck(sess')
    BY DEF Comms, RxArm, RxBegin, RxData, RxEnd, RxAbort
  <2>3. QED
    BY <2>1, <2>2 DEF Bounded
<1>5. buf' \in [0..Capacity - 1 -> 0..Len(Uploads)]
  <2>1. Len(Uploads) \in Nat /\ Head(rxq).of \in 0..Len(Uploads)
    BY <1>2, ReceiveKeeps, UploadsAssumption, LenProperties
  <2>2. \/ UNCHANGED buf \/ buf' = Cleared
        \/ \E i : buf' = [buf EXCEPT ![i] = Head(rxq).of]
    BY DEF Comms, RxArm, RxBegin, RxData, RxEnd, RxAbort
  <2>3. Cleared \in [0..Capacity - 1 -> 0..Len(Uploads)]
    BY <2>1 DEF Cleared
  <2>4. QED
    BY <2>1, <2>2, <2>3 DEF Bounded
<1>6. QED
  BY <1>2, <1>3, <1>4, <1>5 DEF Bounded, Receive, ground

LEMMA GroundBounded ==
    ASSUME IInv, Held, Bounded, Ground \/ TransmitAck
    PROVE  Bounded'
<1>1. /\ rxq \in Seq(FrameTypes) /\ acks \in Seq(AckTypes)
      /\ Len(rxq) \in Nat /\ Len(acks) \in Nat
  BY LenProperties DEF Held, OnTheWay
<1>2. /\ Len(Uploads) \in Nat
      /\ upload \in 1..Len(Uploads) + 1 /\ (phase # "arm" => upload <= Len(Uploads))
  BY UploadsAssumption, LenProperties DEF IInv, AtUpload, Bounded
<1>3. UNCHANGED buf
  BY DEF Ground, GroundArm, GroundBegin, GroundSend, GroundTimeout, GroundEnd, GroundAbort,
         Exchange, TransmitAck, receiver
<1>4. Len(rxq') <= QueueLength
  <2>1. ASSUME NEW f PROVE Len(Append(rxq, f)) = Len(rxq) + 1
    BY <1>1, AppendProperties
  <2>2. UNCHANGED rxq \/ (Len(rxq) < QueueLength /\ \E f : rxq' = Append(rxq, f))
    BY DEF Ground, GroundArm, GroundBegin, GroundSend, GroundTimeout, GroundEnd, GroundAbort,
           Exchange, TransmitAck
  <2>3. QED
    BY <1>1, <2>1, <2>2 DEF Bounded, QueueLength
<1>5. Len(acks') <= QueueLength
  <2>1. UNCHANGED acks \/ (acks # <<>> /\ acks' = Tail(acks))
    BY DEF Ground, GroundArm, GroundBegin, GroundSend, GroundTimeout, GroundEnd, GroundAbort,
           Exchange, TransmitAck, receiver
  <2>2. QED
    BY <1>1, <2>1 DEF Bounded, QueueLength
<1>6. losses' \in 0..MaxLosses /\ failures' \in 0..MaxFailures
  <2>1. UNCHANGED losses \/ (losses < MaxLosses /\ losses' = losses + 1)
    BY DEF Ground, GroundArm, GroundBegin, GroundSend, GroundTimeout, GroundEnd, GroundAbort,
           Exchange, TransmitAck
  <2>2. UNCHANGED failures \/ (failures < MaxFailures /\ failures' = failures + 1)
    BY DEF Ground, GroundArm, GroundBegin, GroundSend, GroundTimeout, GroundEnd, GroundAbort,
           Exchange, TransmitAck
  <2>3. QED
    BY <2>1, <2>2, BoundsAssumption DEF Bounded
<1> DEFINE Counts == /\ phase' \in {"arm", "begin", "send", "wait", "end", "abort"}
                     /\ upload' \in 1..Len(Uploads) + 1
                     /\ tries' \in 0..MaxRetx + 1 /\ (phase' # "abort" => tries' <= MaxRetx)
<1>7. Counts
  <2>0. /\ phase \in {"arm", "begin", "send", "wait", "end", "abort"} /\ MaxRetx = 3
        /\ tries \in 0..MaxRetx + 1 /\ (phase # "abort" => tries <= MaxRetx)
    BY DEF Bounded, MaxRetx
  <2>1. ASSUME GoOn, upload <= Len(Uploads) PROVE Counts
    BY <1>2, <2>0, <2>1 DEF GoOn
  <2>2. CASE GroundArm
    <3>1. /\ upload <= Len(Uploads)
          /\ GoOn \/ (phase = "arm" /\ phase' = "begin" /\ UNCHANGED <<upload, tries>>)
      BY <2>2 DEF GroundArm, Exchange
    <3>2. QED
      BY <1>2, <2>0, <2>1, <3>1
  <2>3. CASE GroundBegin
    <3>1. phase = "begin" /\ (GoOn \/ (phase' = "send" /\ UNCHANGED <<upload, tries>>))
      BY <2>3 DEF GroundBegin, Exchange
    <3>2. QED
      BY <1>2, <2>0, <2>1, <3>1
  <2>4. CASE GroundEnd \/ GroundAbort
    <3>1. phase \in {"end", "abort"} /\ GoOn
      BY <2>4 DEF GroundEnd, GroundAbort, Exchange
    <3>2. QED
      BY <1>2, <2>1, <3>1
  <2>5. CASE GroundSend
    <3>1. phase = "send" /\ phase' \in {"send", "wait"} /\ UNCHANGED <<upload, tries>>
      BY <2>5 DEF GroundSend
    <3>2. QED
      BY <1>2, <2>0, <3>1
  <2>6. CASE GroundTimeout
    <3>1. /\ phase = "wait" /\ tries' = tries + 1 /\ UNCHANGED upload
          /\ IF tries' > MaxRetx THEN phase' = "abort" ELSE phase' = "send"
      BY <2>6 DEF GroundTimeout
    <3>2. QED
      BY <1>2, <2>0, <3>1
  <2>7. CASE TransmitAck
    <3>1. /\ UNCHANGED upload
          /\ UNCHANGED <<phase, tries>> \/ (phase' \in {"end", "send"} /\ tries' = 0)
      BY <2>7 DEF TransmitAck
    <3>2. QED
      BY <1>2, <2>0, <3>1
  <2>8. QED
    BY <2>2, <2>3, <2>4, <2>5, <2>6, <2>7 DEF Ground
<1>8. QED
  BY <1>3, <1>4, <1>5, <1>6, <1>7 DEF Bounded

\* Each variable keeps to its type: base never leaves the file, a block is stored only where the
\* buffer has room for it, the queues of COMMS keep to their length, and the sender repeats a
\* window no more often than it may (arq_rx, arq.c).
THEOREM TypeOKHolds == Spec => []TypeOK
<1>1. Init => Bounded
  BY UploadsAssumption, LenProperties, BoundsAssumption, EmptySeq
     DEF Init, Bounded, Cleared, QueueLength, MaxRetx
<1>2. IInv /\ Held /\ Bounded /\ [Next]_vars => Bounded'
  <2> SUFFICES ASSUME IInv, Held, Bounded, [Next]_vars PROVE Bounded'
    OBVIOUS
  <2>1. CASE Comms
    BY <2>1, CommsBounded
  <2>2. CASE Ground \/ TransmitAck
    BY <2>2, GroundBounded
  <2>3. CASE UNCHANGED vars
    BY <2>3 DEF vars, receiver, ground, Bounded
  <2>4. QED
    BY <2>1, <2>2, <2>3 DEF Next, Finished
<1>3. Held /\ FlashKnown /\ Remembered /\ Bounded => TypeOK
  BY FlashTyped DEF Remembered, Held, SessionTyped, AnySession, Plan, Bounded, TypeOK
<1>4. QED
  BY <1>1, <1>2, <1>3, InitIInv, NextIInv, InitHeld, NextHeld, InitFlash, NextFlash,
     InitRemembered, NextRemembered, PTL DEF Spec

=============================================================================
