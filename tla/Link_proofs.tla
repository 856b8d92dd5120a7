----------------------------- MODULE Link_proofs -----------------------------
(***************************************************************************)
(* The link layer, for every list of commands, size of the ring and number *)
(* of losses, late answers, breaks and beacons:                            *)
(*                                                                         *)
(*   a command runs at most once for being received by the loop;           *)
(*   a command that is acknowledged is not forgotten;                      *)
(*   an exchange that returns SAW_OK was for telemetry that was received,  *)
(*   unless a store has lowered the counter of the numbers.                *)
(*                                                                         *)
(* The ring may have one entry only, and still does its work: commands     *)
(* come in their order, so the newest entry is enough to know a repeated   *)
(* one (Ordered).  The second needs that whatever the ring or an ACK       *)
(* mentions is kept somewhere between the antenna and tc_process (Kept).   *)
(* The third needs that loads and stores of three tasks, in any order,     *)
(* give two frames of telemetry one number only if the counter goes back   *)
(* (NumbersTell).                                                          *)
(***************************************************************************)
EXTENDS Link, SequenceTheorems, TLAPS

-----------------------------------------------------------------------------
(* Frames *)

TcFrames == {Tc(k) : k \in DOMAIN Commands}
TcAcks == {AckOf("TC", k) : k \in DOMAIN Commands}
TmAcks == {AckOf("TM", n) : n \in Nat}
Uplink == TcFrames \union TmAcks

TmFrames == {Tm(n, w) : n \in Nat, w \in Nat}
Replies == TmFrames \union {Nack(n) : n \in Nat}
Beacons == {Beacon(n) : n \in Nat}
Queueable == TmFrames \union {[type |-> "NACK"], [type |-> "BEACON"]}  \* in tx_queue
Downlink == Queueable \union TcAcks

LEMMA CommandFrame ==
    \A f \in TcFrames : /\ f.type = "TC" /\ f.seq \in DOMAIN Commands /\ f = Tc(f.seq)
                        /\ f # NoFrame
BY DEF TcFrames, Tc, NoFrame

LEMMA CommandOf == \A k \in DOMAIN Commands : Tc(k) \in TcFrames /\ Tc(k).seq = k
BY DEF TcFrames, Tc

LEMMA AckFrame ==
    \A f \in TmAcks : f.type = "ACK" /\ f.refType = "TM" /\ f.ref \in Nat /\ f # NoFrame
BY DEF TmAcks, AckOf, NoFrame

LEMMA UplinkFrame ==
    \A f \in Uplink : /\ f.type = "TC" <=> f \in TcFrames
                      /\ f.type = "ACK" <=> f \in TmAcks
                      /\ f.type \in {"TC", "ACK"}
BY CommandFrame, AckFrame DEF Uplink

LEMMA CommandAck ==
    \A f \in TcAcks : /\ f.type = "ACK" /\ f.ref \in DOMAIN Commands
                      /\ f = AckOf("TC", f.ref) /\ f # NoFrame
BY DEF TcAcks, AckOf, NoFrame

LEMMA CommandAckOf ==
    \A k \in DOMAIN Commands : AckOf("TC", k) \in TcAcks /\ AckOf("TC", k).ref = k
BY DEF TcAcks, AckOf

LEMMA QueueableFrame ==
    \A f \in Queueable : /\ f.type \in {"TM", "NACK", "BEACON"}
                         /\ f.type = "TM" <=> f \in TmFrames
                         /\ f.type = "TM" => f.seq \in Nat /\ f.which \in Nat
                         /\ f # NoFrame
BY DEF Queueable, TmFrames, Tm, NoFrame

LEMMA NewFrames ==
    ASSUME NEW n \in Nat, NEW w \in Nat
    PROVE  /\ Tm(n, w) \in Replies /\ Nack(n) \in Replies /\ Beacon(n) \in Beacons
           /\ AckOf("TM", n) \in TmAcks /\ AckOf("TM", n).ref = n
BY DEF Replies, Beacons, TmFrames, TmAcks, AckOf

LEMMA TelemetryFrame ==
    /\ \A f \in TmFrames : f.type = "TM"
    /\ NoFrame \notin TmFrames /\ \A k : AckOf("TC", k) \notin TmFrames
    /\ \A n : Nack(n) \notin TmFrames /\ Beacon(n) \notin TmFrames
<1>1. \A f \in TmFrames : f.type = "TM"
  BY DEF TmFrames, Tm
<1>2. /\ NoFrame.type # "TM" /\ \A k : AckOf("TC", k).type # "TM"
      /\ \A n : Nack(n).type # "TM" /\ Beacon(n).type # "TM"
  BY DEF NoFrame, AckOf, Nack, Beacon
<1>3. QED
  BY <1>1, <1>2

LEMMA EncodedFrame ==
    \A f \in Replies \union Beacons :
        /\ f.seq \in Nat /\ f # NoFrame /\ Numbered(f) \in Queueable
        /\ f \in TmFrames => f.type = "TM" /\ Numbered(f) = f
        /\ f \notin TmFrames => f.type # "TM" /\ Numbered(f) \notin TmFrames
<1> SUFFICES ASSUME NEW f \in Replies \union Beacons
             PROVE  /\ f.seq \in Nat /\ f # NoFrame /\ Numbered(f) \in Queueable
                    /\ f \in TmFrames => f.type = "TM" /\ Numbered(f) = f
                    /\ f \notin TmFrames => f.type # "TM" /\ Numbered(f) \notin TmFrames
  OBVIOUS
<1>1. CASE f \in TmFrames
  <2>1. f.type = "TM" /\ f.seq \in Nat /\ f # NoFrame
    BY <1>1 DEF TmFrames, Tm, NoFrame
  <2>2. QED
    BY <1>1, <2>1 DEF Numbered, Queueable
<1>2. CASE f \notin TmFrames
  <2>1. f.type \in {"NACK", "BEACON"} /\ f.seq \in Nat /\ f # NoFrame
    BY <1>2 DEF Replies, Beacons, Nack, Beacon, NoFrame
  <2>2. Numbered(f) = [type |-> f.type]
    BY <2>1 DEF Numbered
  <2>3. Numbered(f) \in Queueable /\ Numbered(f).type # "TM"
    BY <2>1, <2>2 DEF Queueable
  <2>4. \A g \in TmFrames : g.type = "TM"
    BY DEF TmFrames, Tm
  <2>5. QED
    BY <1>2, <2>1, <2>3, <2>4
<1>3. QED
  BY <1>1, <1>2

-----------------------------------------------------------------------------
(* The bag of what was executed *)

IsBag(b) == b = [x \in DOMAIN b |-> b[x]] /\ \A x \in DOMAIN b : b[x] \in Nat
Copies(x, b) == IF BagIn(x, b) THEN b[x] ELSE 0

LEMMA OneMore ==
    ASSUME NEW b, NEW f, IsBag(b)
    PROVE  /\ IsBag(b (+) SetToBag({f}))
           /\ \A x : Copies(x, b (+) SetToBag({f})) = Copies(x, b) + (IF x = f THEN 1 ELSE 0)
<1> DEFINE c == b (+) SetToBag({f})
<1>1. c = [x \in DOMAIN b \union {f} |->
             (IF x \in DOMAIN b THEN b[x] ELSE 0) + (IF x \in {f} THEN 1 ELSE 0)]
  BY DEF (+), SetToBag
<1> HIDE DEF c
<1>2. IsBag(c)
  BY <1>1 DEF IsBag
<1>3. \A x : Copies(x, c) = Copies(x, b) + (IF x = f THEN 1 ELSE 0)
  BY <1>1 DEF Copies, BagIn, BagToSet, IsBag
<1>4. QED
  BY <1>2, <1>3 DEF c

-----------------------------------------------------------------------------
(* Types *)

\* What each queue holds, and what TRANSCEIVER has in its hands in each of its places.
Frames ==
    /\ up \in Seq(Uplink) /\ rxq \in Seq(Uplink)
    /\ txq \in Seq(Queueable) /\ down \in Seq(Downlink)
    /\ out \in Downlink \union {NoFrame} /\ (pc = "listen" => out \in TmFrames)
    /\ hand \in TcFrames \union {NoFrame} /\ (hand # NoFrame => pc \in {"encode", "tx"})
    /\ dedup \in Seq(DOMAIN Commands)
    /\ reply \in Replies \union {NoFrame} /\ beacon \in Beacons \union {NoFrame}

Counters ==
    /\ command \in Nat \ {0} /\ resets \in Nat
    /\ inExchange \in [DOMAIN Commands -> Nat] /\ IsBag(executed)

Typed == TypeOK /\ Frames /\ Counters

LEMMA TypedInit == Init => Typed
<1>1. ASSUME Init PROVE TypeOK
  <2>1. /\ pc \in {"loop", "encode", "tx", "drain", "listen"} /\ drain \in BOOLEAN
        /\ woken \in BOOLEAN /\ ready \in BOOLEAN /\ setBack \in BOOLEAN
        /\ pc \in {"encode", "tx", "listen"} <=> out # NoFrame
        /\ hand # NoFrame => out = AckOf("TC", hand.seq)
    BY <1>1 DEF Init
  <2>2. Len(<<>>) = 0
    OBVIOUS
  <2>3. /\ attempt \in 0..SawMaxRetx /\ seq \in Nat /\ number \in Nat /\ made \in Nat
        /\ Len(dedup) <= RingSize
        /\ Len(rxq) <= QueueLength /\ Len(txq) <= QueueLength
    BY <1>1, <2>2, RingAssumption DEF Init, SawMaxRetx, QueueLength
  <2>4. QED
    BY <2>1, <2>3 DEF TypeOK
<1>2. ASSUME Init PROVE Frames
  <2>1. /\ <<>> \in Seq(Uplink) /\ <<>> \in Seq(Queueable) /\ <<>> \in Seq(Downlink)
        /\ <<>> \in Seq(DOMAIN Commands)
    OBVIOUS
  <2>2. QED
    BY <1>2, <2>1 DEF Init, Frames
<1>3. ASSUME Init PROVE Counters
  BY <1>3 DEF Init, Counters, IsBag, EmptyBag, SetToBag
<1>4. QED
  BY <1>1, <1>2, <1>3 DEF Typed

\* What the store leaves in the counter.
LEMMA StoreTyped ==
    ASSUME Typed, NEW n \in Nat, StoreNumber(n)
    PROVE  seq' \in Nat /\ setBack' \in BOOLEAN
<1>1. seq' \in Nat
  BY DEF StoreNumber
<1>2. setBack' \in BOOLEAN
  BY Zenon DEF StoreNumber
<1>3. QED
  BY <1>1, <1>2

\* A frame of COMMS or BEACON enters tx_queue or is dropped.
LEMMA EnqueueTyped ==
    ASSUME Typed, NEW f \in Queueable, Enqueue(f), UNCHANGED pc
    PROVE  /\ txq' \in Seq(Queueable) /\ Len(txq') <= QueueLength
           /\ woken' \in BOOLEAN /\ ready' \in BOOLEAN
<1>1. /\ txq \in Seq(Queueable) /\ Len(txq) <= QueueLength
      /\ woken \in BOOLEAN /\ ready \in BOOLEAN
  BY DEF Typed, TypeOK, Frames
<1>2. \/ Len(txq) < QueueLength /\ txq' = Append(txq, f)
      \/ txq' = txq
  BY DEF Enqueue
<1>3. woken' \in BOOLEAN /\ ready' \in BOOLEAN
  BY <1>1 DEF Enqueue
<1>4. txq' \in Seq(Queueable) /\ Len(txq') <= QueueLength
  BY <1>1, <1>2 DEF QueueLength
<1>5. QED
  BY <1>3, <1>4

LEMMA ForwardTyped ==
    ASSUME Typed, NEW f \in Uplink, Forward(f)
    PROVE  rxq' \in Seq(Uplink) /\ Len(rxq') <= QueueLength
<1>1. rxq \in Seq(Uplink) /\ Len(rxq) <= QueueLength
  BY DEF Typed, TypeOK, Frames
<1>2. \/ Len(rxq) < QueueLength /\ rxq' = Append(rxq, f)
      \/ rxq' = rxq
  BY DEF Forward
<1>3. QED
  BY <1>1, <1>2 DEF QueueLength

\* The entry that enters the ring is the newest afterwards.
LEMMA Remembered ==
    ASSUME Typed, NEW k \in DOMAIN Commands
    PROVE  /\ Remember(k) \in Seq(DOMAIN Commands) /\ Len(Remember(k)) <= RingSize
           /\ Remember(k) # <<>> /\ Last(Remember(k)) = k
           /\ \A n : Contains(Remember(k), n) => n = k \/ Contains(dedup, n)
<1> DEFINE ring == Append(dedup, k)
<1>1. /\ ring \in Seq(DOMAIN Commands) /\ Len(ring) = Len(dedup) + 1 /\ Len(dedup) \in Nat
      /\ ring[Len(ring)] = k /\ \A i \in 1..Len(dedup) : ring[i] = dedup[i]
  BY DEF Typed, Frames
<1>2. Len(dedup) <= RingSize
  BY DEF Typed, TypeOK
<1>3. Remember(k) = IF Len(ring) > RingSize THEN Tail(ring) ELSE ring
  BY DEF Remember
<1> HIDE DEF ring
<1>4. CASE Len(ring) > RingSize
  <2>1. /\ Tail(ring) \in Seq(DOMAIN Commands) /\ Len(Tail(ring)) = Len(dedup)
        /\ \A i \in 1..Len(dedup) : Tail(ring)[i] = ring[i + 1]
    BY <1>1
  <2>2. Len(dedup) = RingSize /\ Len(dedup) >= 1
    BY <1>1, <1>2, <1>4, RingAssumption
  <2>3. Tail(ring) # <<>> /\ Last(Tail(ring)) = k
    BY <1>1, <2>1, <2>2 DEF Last
  <2>4. \A i \in 1..Len(dedup) : Tail(ring)[i] = k \/ \E j \in 1..Len(dedup) : dedup[j] = Tail(ring)[i]
    <3>1. TAKE i \in 1..Len(dedup)
    <3>2. CASE i = Len(dedup)
      BY <1>1, <2>1, <3>2
    <3>3. CASE i # Len(dedup)
      <4>1. i + 1 \in 1..Len(dedup)
        BY <1>1, <3>3
      <4>2. QED
        BY <1>1, <2>1, <4>1
    <3>4. QED
      BY <3>2, <3>3
  <2>5. QED
    <3>1. \A n : Contains(Tail(ring), n) => n = k \/ Contains(dedup, n)
      BY <2>1, <2>4 DEF Contains
    <3>2. Remember(k) = Tail(ring)
      BY <1>3, <1>4
    <3>3. QED
      BY <2>1, <2>2, <2>3, <3>1, <3>2
<1>5. CASE ~(Len(ring) > RingSize)
  <2>1. ring # <<>> /\ Last(ring) = k /\ Len(ring) <= RingSize
    BY <1>1, <1>5, RingAssumption DEF Last
  <2>2. \A n : Contains(ring, n) => n = k \/ Contains(dedup, n)
    BY <1>1 DEF Contains
  <2>3. QED
    BY <1>1, <1>3, <1>5, <2>1, <2>2
<1>6. QED
  BY <1>4, <1>5

\* What TRANSCEIVER holds when it is done with a transmission.
LEMMA AfterTransmitTyped ==
    ASSUME Typed, pc = "tx", AfterTransmit
    PROVE  /\ pc' \in {"loop", "drain", "listen"} /\ drain' = drain
           /\ pc' = "listen" <=> out' # NoFrame
           /\ out' \in Downlink \union {NoFrame} /\ (pc' = "listen" => out' \in TmFrames)
           /\ hand' = NoFrame
           /\ rxq' \in Seq(Uplink) /\ Len(rxq') <= QueueLength
<1>1. /\ out \in Downlink /\ drain \in BOOLEAN /\ hand \in TcFrames \union {NoFrame}
      /\ hand # NoFrame => out = AckOf("TC", hand.seq)
      /\ rxq \in Seq(Uplink) /\ Len(rxq) <= QueueLength
  BY DEF Typed, TypeOK, Frames
<1>2. /\ out.type = "TM" => out \in TmFrames /\ out # NoFrame
      /\ hand # NoFrame => out.type = "ACK"
  BY <1>1, QueueableFrame, CommandAck DEF Downlink, AckOf
<1>3. drain' = drain
  BY DEF AfterTransmit
<1>4. CASE /\ out.type = "ACK" /\ Drain(drain) /\ hand' = NoFrame /\ out' = NoFrame
           /\ IF hand = NoFrame THEN UNCHANGED <<rxq, overflow>> ELSE Forward(hand)
  <2>1. pc' \in {"loop", "drain"}
    BY <1>4 DEF Drain
  <2>2. rxq' \in Seq(Uplink) /\ Len(rxq') <= QueueLength
    BY <1>1, <1>4, ForwardTyped DEF Uplink
  <2>3. QED
    BY <1>3, <1>4, <2>1, <2>2
<1>5. CASE out.type = "TM" /\ pc' = "listen" /\ UNCHANGED <<hand, out, rxq, overflow>>
  BY <1>1, <1>2, <1>3, <1>5
<1>6. CASE /\ out.type \in {"NACK", "BEACON"} /\ pc' = "drain" /\ out' = NoFrame
           /\ UNCHANGED <<hand, rxq, overflow>>
  BY <1>1, <1>2, <1>3, <1>6
<1>7. QED
  BY <1>4, <1>5, <1>6 DEF AfterTransmit

LEMMA TypedNext == Typed /\ [Next]_vars => Typed'
<1> SUFFICES ASSUME Typed, [Next]_vars
             PROVE  Typed'
  OBVIOUS
<1> USE DEF Typed
<1>t. /\ pc \in {"loop", "encode", "tx", "drain", "listen"} /\ drain \in BOOLEAN
      /\ attempt \in 0..SawMaxRetx /\ woken \in BOOLEAN /\ ready \in BOOLEAN
      /\ pc \in {"encode", "tx", "listen"} <=> out # NoFrame
      /\ hand # NoFrame => out = AckOf("TC", hand.seq)
      /\ Len(dedup) <= RingSize /\ seq \in Nat /\ number \in Nat
      /\ made \in Nat /\ setBack \in BOOLEAN
      /\ Len(rxq) <= QueueLength /\ Len(txq) <= QueueLength
  BY DEF TypeOK
<1>f. /\ up \in Seq(Uplink) /\ rxq \in Seq(Uplink)
      /\ txq \in Seq(Queueable) /\ down \in Seq(Downlink)
      /\ out \in Downlink \union {NoFrame} /\ (pc = "listen" => out \in TmFrames)
      /\ hand \in TcFrames \union {NoFrame} /\ (hand # NoFrame => pc \in {"encode", "tx"})
      /\ dedup \in Seq(DOMAIN Commands)
      /\ reply \in Replies \union {NoFrame} /\ beacon \in Beacons \union {NoFrame}
  BY DEF Frames
<1>c. /\ command \in Nat \ {0} /\ resets \in Nat
      /\ inExchange \in [DOMAIN Commands -> Nat] /\ IsBag(executed)
  BY DEF Counters
<1>up. up # <<>> => Head(up) \in Uplink /\ Tail(up) \in Seq(Uplink)
  BY <1>f
<1>rxq. rxq # <<>> => Head(rxq) \in Uplink /\ Tail(rxq) \in Seq(Uplink) /\ Len(Tail(rxq)) <= QueueLength
  BY <1>f, <1>t DEF QueueLength
<1>1. CASE LoopReceive
  <2> DEFINE f == Head(up)
  <2>1. /\ pc = "loop" /\ up # <<>> /\ up' = Tail(up) /\ drain' = ready /\ ready' = FALSE
        /\ UNCHANGED <<attempt, rxq, txq, executed, inExchange, down, command, resets, seq,
                       setBack, reply, beacon, made>>
    BY <1>1 DEF LoopReceive, history, station, bounds, counter, encoders
  <2>2. f \in Uplink /\ (f.type = "TC" => f \in TcFrames)
    BY <2>1, <1>up, UplinkFrame
  <2>3. hand = NoFrame /\ out = NoFrame
    BY <2>1, <1>t, <1>f
  <2>4. Counters'
    BY <1>c, <2>1 DEF Counters
  <2>5. CASE /\ f.type = "TC" /\ Contains(dedup, f.seq)
             /\ Transmit(AckOf("TC", f.seq)) /\ hand' = NoFrame /\ UNCHANGED <<dedup, number>>
    <3>1. AckOf("TC", f.seq) \in TcAcks /\ AckOf("TC", f.seq) # NoFrame
      BY <2>2, <2>5, CommandFrame, CommandAckOf, CommandAck
    <3>2. pc' = "tx" /\ out' = AckOf("TC", f.seq) /\ woken' = FALSE
      BY <2>5 DEF Transmit
    <3>3. TypeOK'
      BY <1>t, <2>1, <2>5, <3>1, <3>2 DEF TypeOK
    <3>4. Frames'
      BY <1>f, <1>up, <2>1, <2>5, <3>1, <3>2 DEF Frames, Downlink
    <3>5. QED
      BY <2>4, <3>3, <3>4
  <2>6. CASE /\ f.type = "TC" /\ ~Contains(dedup, f.seq) /\ dedup' = Remember(f.seq)
             /\ pc' = "encode" /\ number' = seq /\ out' = AckOf("TC", f.seq) /\ hand' = f
             /\ UNCHANGED woken
    <3>1. AckOf("TC", f.seq) \in TcAcks /\ AckOf("TC", f.seq) # NoFrame
      BY <2>2, <2>6, CommandFrame, CommandAckOf, CommandAck
    <3>2. dedup' \in Seq(DOMAIN Commands) /\ Len(dedup') <= RingSize
      BY <2>2, <2>6, CommandFrame, Remembered
    <3>3. TypeOK'
      <4>1. /\ drain' \in BOOLEAN /\ ready' \in BOOLEAN /\ woken' \in BOOLEAN
            /\ setBack' \in BOOLEAN
        BY <1>t, <2>1, <2>6
      <4>2. seq' \in Nat /\ number' \in Nat /\ made' \in Nat
        BY <1>t, <2>1, <2>6
      <4>3. hand' # NoFrame => out' = AckOf("TC", hand'.seq)
        BY <2>6
      <4>4. /\ pc' \in {"loop", "encode", "tx", "drain", "listen"}
            /\ pc' \in {"encode", "tx", "listen"} <=> out' # NoFrame
        BY <2>6, <3>1
      <4>5. /\ attempt' \in 0..SawMaxRetx /\ Len(rxq') <= QueueLength /\ Len(txq') <= QueueLength
        BY <1>t, <2>1
      <4>6. QED
        BY <3>2, <4>1, <4>2, <4>3, <4>4, <4>5 DEF TypeOK
    <3>4. Frames'
      BY <1>f, <1>up, <2>1, <2>2, <2>6, <3>1, <3>2 DEF Frames, Downlink
    <3>5. QED
      BY <2>4, <3>3, <3>4
  <2>7. CASE f.type = "ACK" /\ Drain(ready) /\ UNCHANGED <<out, number, hand, woken, dedup>>
    <3>1. pc' \in {"loop", "drain"}
      BY <2>7 DEF Drain
    <3>2. TypeOK'
      BY <1>t, <2>1, <2>3, <2>7, <3>1 DEF TypeOK
    <3>3. Frames'
      BY <1>f, <1>up, <2>1, <2>3, <2>7, <3>1 DEF Frames
    <3>4. QED
      BY <2>4, <3>2, <3>3
  <2>8. QED
    BY <1>1, <2>5, <2>6, <2>7 DEF LoopReceive
<1>18. CASE LoopAck
  <2>1. /\ pc = "encode" /\ StoreNumber(number) /\ number' = 0
        /\ pc' = "tx" /\ out' = out /\ woken' = FALSE
        /\ UNCHANGED <<hand, drain, attempt, dedup, ready, rxq, txq, executed, inExchange, up,
                       down, command, resets, reply, beacon, made>>
    BY <1>18 DEF LoopAck, Transmit, history, station, bounds, encoders
  <2>2. number' \in Nat /\ seq' \in Nat /\ setBack' \in BOOLEAN
    BY <1>t, <2>1, StoreTyped
  <2>3. TypeOK'
    BY <1>t, <2>1, <2>2 DEF TypeOK
  <2>4. Frames'
    BY <1>f, <2>1 DEF Frames
  <2>5. Counters'
    BY <1>c, <2>1 DEF Counters
  <2>6. QED
    BY <2>3, <2>4, <2>5
<1>2. CASE LoopReady
  <2>1. TypeOK'
    BY <1>t, <1>2 DEF LoopReady, TypeOK, counter, encoders
  <2>2. Frames'
    BY <1>f, <1>2 DEF LoopReady, Frames, encoders
  <2>3. Counters'
    BY <1>c, <1>2 DEF LoopReady, Counters, history, station, bounds
  <2>4. QED
    BY <2>1, <2>2, <2>3
<1>3. CASE TxDone \/ TxCut
  <2>1. /\ pc = "tx" /\ AfterTransmit
        /\ down' = Append(down, out) \/ down' = down
    BY <1>3 DEF TxDone, TxCut
  <2>2. /\ woken' = FALSE
        /\ UNCHANGED <<number, attempt, dedup, ready, seq, setBack, reply, beacon, made, txq,
                       executed, inExchange, up, command, resets>>
    BY <2>1 DEF AfterTransmit, station, counter, encoders
  <2>3. down' \in Seq(Downlink)
    <3>1. out \in Downlink
      BY <1>f, <1>t, <2>1
    <3>2. Append(down, out) \in Seq(Downlink)
      BY <1>f, <3>1
    <3>3. QED
      BY <1>f, <2>1, <3>2
  <2>4. TypeOK'
    BY <1>t, <2>1, <2>2, AfterTransmitTyped DEF TypeOK
  <2>5. Frames'
    BY <1>f, <2>1, <2>2, <2>3, AfterTransmitTyped DEF Frames
  <2>6. Counters'
    BY <1>c, <2>2 DEF Counters
  <2>7. QED
    BY <2>4, <2>5, <2>6
<1>4. CASE DrainNext
  <2>1. /\ pc = "drain" /\ hand = NoFrame /\ out = NoFrame
        /\ UNCHANGED <<hand, number, dedup, ready, seq, setBack, reply, beacon, made, rxq,
                       executed, inExchange, up, down, command, resets>>
    BY <1>t, <1>f, <1>4 DEF DrainNext, history, station, counter, encoders
  <2>2. \/ /\ txq' = txq /\ pc' = "loop" /\ drain' = FALSE /\ UNCHANGED <<out, attempt, woken>>
        \/ /\ txq # <<>> /\ txq' = Tail(txq) /\ attempt' = 0 /\ UNCHANGED drain
           /\ \/ pc' = "tx" /\ out' = Head(txq) /\ woken' = FALSE
              \/ UNCHANGED <<pc, out, woken>>
    BY <1>4 DEF DrainNext, Transmit
  <2>3. txq # <<>> => /\ Head(txq) \in Queueable /\ Head(txq) # NoFrame
                      /\ Tail(txq) \in Seq(Queueable) /\ Len(Tail(txq)) <= QueueLength
    BY <1>f, <1>t, QueueableFrame DEF QueueLength
  <2>4. TypeOK'
    <3>1. /\ attempt' \in 0..SawMaxRetx /\ Len(txq') <= QueueLength
      BY <1>t, <2>2, <2>3 DEF SawMaxRetx
    <3>2. /\ pc' \in {"loop", "encode", "tx", "drain", "listen"}
          /\ pc' \in {"encode", "tx", "listen"} <=> out' # NoFrame
      BY <2>1, <2>2, <2>3
    <3>3. woken' \in BOOLEAN /\ drain' \in BOOLEAN
      BY <1>t, <2>2
    <3>4. QED
      BY <1>t, <2>1, <3>1, <3>2, <3>3 DEF TypeOK
  <2>5. Frames'
    BY <1>f, <2>1, <2>2, <2>3 DEF Frames, Downlink
  <2>6. Counters'
    BY <1>c, <2>1 DEF Counters
  <2>7. QED
    BY <2>4, <2>5, <2>6
<1>5. CASE ListenHear
  <2> DEFINE f == Head(up)
  <2>1. /\ pc = "listen" /\ up # <<>> /\ up' = Tail(up) /\ hand = NoFrame /\ out # NoFrame
        /\ UNCHANGED <<hand, number, drain, dedup, woken, ready, seq, setBack, reply, beacon, made,
                       txq, executed, down, command, resets>>
    BY <1>t, <1>f, <1>5 DEF ListenHear, station, bounds, counter, encoders
  <2>2. f \in Uplink /\ (f.type = "TC" => f.seq \in DOMAIN Commands)
    BY <2>1, <1>up, UplinkFrame, CommandFrame
  <2>3. \/ /\ pc' = "drain" /\ out' = NoFrame /\ attempt' = 0 /\ UNCHANGED <<rxq, inExchange>>
        \/ /\ Forward(f) /\ UNCHANGED <<pc, out, attempt>>
           /\ inExchange' = IF f.type = "TC" THEN [inExchange EXCEPT ![f.seq] = @ + 1] ELSE inExchange
    BY <1>5 DEF ListenHear
  <2>4. rxq' \in Seq(Uplink) /\ Len(rxq') <= QueueLength
    BY <1>f, <1>t, <2>2, <2>3, ForwardTyped
  <2>5. inExchange' \in [DOMAIN Commands -> Nat]
    BY <1>c, <2>2, <2>3
  <2>6. TypeOK'
    BY <1>t, <2>1, <2>3, <2>4 DEF TypeOK, SawMaxRetx
  <2>7. Frames'
    BY <1>f, <1>up, <2>1, <2>3, <2>4 DEF Frames
  <2>8. Counters'
    BY <1>c, <2>1, <2>5 DEF Counters
  <2>9. QED
    BY <2>6, <2>7, <2>8
<1>6. CASE ListenTimeout
  <2>1. /\ pc = "listen" /\ hand = NoFrame /\ out \in TmFrames /\ out # NoFrame
        /\ UNCHANGED <<hand, number, drain, dedup, ready, seq, setBack, reply, beacon, made, rxq,
                       txq, executed, inExchange, up, down, command, resets>>
    BY <1>t, <1>f, <1>6 DEF ListenTimeout, history, station, counter, encoders
  <2>2. \/ /\ attempt < SawMaxRetx /\ attempt' = attempt + 1
           /\ pc' = "tx" /\ out' = out /\ woken' = FALSE
        \/ pc' = "drain" /\ out' = NoFrame /\ attempt' = 0 /\ UNCHANGED woken
    BY <1>6 DEF ListenTimeout, Transmit
  <2>3. TypeOK'
    <3>1. attempt' \in 0..SawMaxRetx
      BY <1>t, <2>2 DEF SawMaxRetx
    <3>2. /\ pc' \in {"loop", "encode", "tx", "drain", "listen"}
          /\ pc' \in {"encode", "tx", "listen"} <=> out' # NoFrame
      BY <2>1, <2>2
    <3>3. woken' \in BOOLEAN
      BY <1>t, <2>2
    <3>4. QED
      BY <1>t, <2>1, <3>1, <3>2, <3>3 DEF TypeOK
  <2>4. Frames'
    BY <1>f, <2>1, <2>2 DEF Frames, Downlink, Queueable
  <2>5. Counters'
    BY <1>c, <2>1 DEF Counters
  <2>6. QED
    BY <2>3, <2>4, <2>5
<1>7. CASE Reset
  <2>1. /\ pc' = "loop" /\ out' = NoFrame /\ hand' = NoFrame /\ drain' = FALSE /\ attempt' = 0
        /\ dedup' = <<>> /\ ready' = FALSE /\ woken' = FALSE /\ resets' = resets + 1
        /\ number' = 0
        /\ UNCHANGED <<seq, setBack, reply, beacon, made, rxq, txq, executed, inExchange, up, down,
                       command>>
    BY <1>7 DEF Reset, history, station, counter, encoders
  <2>2. <<>> \in Seq(DOMAIN Commands) /\ Len(<<>>) = 0
    OBVIOUS
  <2>3. Len(dedup') <= RingSize
    BY <2>1, <2>2, RingAssumption
  <2>4. TypeOK'
    <3>1. attempt' \in 0..SawMaxRetx
      BY <2>1 DEF SawMaxRetx
    <3>2. /\ pc' \in {"loop", "encode", "tx", "drain", "listen"} /\ drain' \in BOOLEAN
          /\ woken' \in BOOLEAN /\ ready' \in BOOLEAN
          /\ pc' \in {"encode", "tx", "listen"} <=> out' # NoFrame
          /\ hand' # NoFrame => out' = AckOf("TC", hand'.seq)
      BY <2>1
    <3>3. number' \in Nat
      BY <2>1
    <3>4. QED
      BY <1>t, <2>1, <2>3, <3>1, <3>2, <3>3 DEF TypeOK
  <2>5. Frames'
    BY <1>f, <2>1, <2>2 DEF Frames
  <2>6. Counters'
    BY <1>c, <2>1 DEF Counters
  <2>7. QED
    BY <2>4, <2>5, <2>6
<1>8. CASE CommsExecute
  <2> DEFINE f == Head(rxq)
  <2>1. /\ rxq # <<>> /\ rxq' = Tail(rxq) /\ executed' = executed (+) SetToBag({f})
        /\ UNCHANGED <<pc, out, number, hand, drain, attempt, dedup, woken, ready, seq, setBack,
                       beacon, txq, inExchange, up, down, command, resets>>
    BY <1>8 DEF CommsExecute, transceiver, station, bounds, counter
  <2>2. \/ reply' = Tm(seq, made + 1) /\ made' = made + 1
        \/ UNCHANGED <<reply, made>>
        \/ reply' = Nack(seq) /\ UNCHANGED made
    BY <1>8 DEF CommsExecute
  <2>3. made' \in Nat
    BY <1>t, <2>2
  <2>4. reply' \in Replies \union {NoFrame}
    <3>1. made + 1 \in Nat
      BY <1>t
    <3>2. Tm(seq, made + 1) \in Replies /\ Nack(seq) \in Replies
      BY <1>t, <3>1, NewFrames
    <3>3. QED
      BY <1>f, <2>2, <3>2
  <2>5. TypeOK'
    BY <1>t, <1>rxq, <2>1, <2>3 DEF TypeOK
  <2>6. Frames'
    BY <1>f, <1>rxq, <2>1, <2>4 DEF Frames
  <2>7. Counters'
    BY <1>c, <2>1, OneMore DEF Counters
  <2>8. QED
    BY <2>5, <2>6, <2>7
<1>9. CASE CommsReply \/ SendBeacon
  <2>1. PICK f \in Replies \union Beacons : StoreNumber(f.seq) /\ Enqueue(Numbered(f))
    BY <1>f, <1>9 DEF CommsReply, SendBeacon
  <2>2. /\ reply' \in {reply, NoFrame} /\ beacon' \in {beacon, NoFrame}
        /\ UNCHANGED <<pc, out, number, hand, drain, attempt, dedup, made, rxq, executed,
                       inExchange, up, down, command, resets>>
    BY <1>9 DEF CommsReply, SendBeacon, transceiver, history, station, bounds
  <2>3. seq' \in Nat /\ setBack' \in BOOLEAN
    BY <2>1, EncodedFrame, StoreTyped
  <2>4. /\ txq' \in Seq(Queueable) /\ Len(txq') <= QueueLength
        /\ woken' \in BOOLEAN /\ ready' \in BOOLEAN
    BY <2>1, <2>2, EncodedFrame, EnqueueTyped
  <2>5. TypeOK'
    BY <1>t, <2>2, <2>3, <2>4 DEF TypeOK
  <2>6. Frames'
    BY <1>f, <2>2, <2>4 DEF Frames
  <2>7. Counters'
    BY <1>c, <2>2 DEF Counters
  <2>8. QED
    BY <2>5, <2>6, <2>7
<1>19. CASE TakeBeacon
  <2>1. /\ beacon' = Beacon(seq)
        /\ UNCHANGED <<pc, out, number, hand, drain, attempt, dedup, woken, ready, seq, setBack,
                       reply, made, rxq, txq, executed, inExchange, up, down, command, resets>>
    BY <1>19 DEF TakeBeacon, transceiver, history, station, counter
  <2>2. Beacon(seq) \in Beacons
    BY <1>t DEF Beacons
  <2>3. TypeOK'
    BY <1>t, <2>1 DEF TypeOK
  <2>4. Frames'
    BY <1>f, <2>1, <2>2 DEF Frames
  <2>5. Counters'
    BY <1>c, <2>1 DEF Counters
  <2>6. QED
    BY <2>3, <2>4, <2>5
<1>10. ASSUME /\ UNCHANGED <<pc, out, number, hand, drain, attempt, dedup, woken, ready, seq,
                             setBack, reply, beacon, made, rxq, txq, executed, inExchange,
                             resets>>
              /\ up' \in Seq(Uplink) /\ down' \in Seq(Downlink) /\ command' \in {command, command + 1}
       PROVE  Typed'
  <2>1. TypeOK'
    BY <1>t, <1>10 DEF TypeOK
  <2>2. Frames'
    BY <1>f, <1>10 DEF Frames
  <2>3. Counters'
    BY <1>c, <1>10 DEF Counters
  <2>4. QED
    BY <2>1, <2>2, <2>3
<1>11. CASE GroundSend
  <2>1. Tc(command) \in Uplink
    <3>1. command \in DOMAIN Commands
      BY <1>c, <1>11, CommandsAssumption DEF GroundSend
    <3>2. QED
      BY <3>1, CommandOf DEF Uplink
  <2>2. up' \in Seq(Uplink) /\ UNCHANGED <<down, command>>
    BY <1>f, <1>11, <2>1 DEF GroundSend
  <2>3. QED
    BY <1>f, <1>10, <1>11, <2>2 DEF GroundSend, transceiver, history, bounds, counter, encoders
<1>12. CASE GroundHear
  <2> DEFINE f == Head(down)
  <2>1. down # <<>> /\ down' = Tail(down)
    BY <1>12 DEF GroundHear
  <2>2. f \in Downlink /\ down' \in Seq(Downlink)
    BY <1>f, <2>1
  <2>3. f.type = "TM" => AckOf("TM", f.seq) \in Uplink
    BY <2>2, QueueableFrame, CommandAck DEF Downlink, TmAcks, Uplink
  <2>4. up' \in Seq(Uplink)
    <3>1. \/ f.type = "TM" /\ up' = Append(up, AckOf("TM", f.seq))
          \/ up' = up
      BY <1>12 DEF GroundHear
    <3>2. CASE f.type = "TM" /\ up' = Append(up, AckOf("TM", f.seq))
      <4>1. Append(up, AckOf("TM", f.seq)) \in Seq(Uplink)
        BY <1>f, <2>3, <3>2
      <4>2. QED
        BY <3>2, <4>1
    <3>3. QED
      BY <1>f, <3>1, <3>2
  <2>5. command' \in {command, command + 1}
    BY <1>12 DEF GroundHear, NextCommand, station
  <2>6. QED
    BY <1>10, <1>12, <2>2, <2>4, <2>5 DEF GroundHear, transceiver, history, bounds, counter, encoders
<1>13. CASE GroundTimeout
  <2>1. UNCHANGED <<up, down>> /\ command' \in {command, command + 1}
    BY <1>13 DEF GroundTimeout, NextCommand
  <2>2. QED
    BY <1>f, <1>10, <1>13, <2>1 DEF GroundTimeout, transceiver, history, counter, encoders
<1>14. CASE Fade
  <2>1. up' \in Seq(Uplink) /\ down' \in Seq(Downlink) /\ UNCHANGED command
    <3>1. \/ up # <<>> /\ up' = Tail(up) /\ UNCHANGED down
          \/ down # <<>> /\ down' = Tail(down) /\ UNCHANGED up
      BY <1>14 DEF Fade
    <3>2. down # <<>> => Tail(down) \in Seq(Downlink)
      BY <1>f
    <3>3. UNCHANGED command
      BY <1>14 DEF Fade, station
    <3>4. QED
      BY <1>f, <1>up, <3>1, <3>2, <3>3
  <2>2. QED
    BY <1>10, <1>14, <2>1 DEF Fade, transceiver, history, counter, encoders
<1>15. CASE LoseContact
  <2>1. <<>> \in Seq(Uplink) /\ <<>> \in Seq(Downlink)
    OBVIOUS
  <2>2. up' \in Seq(Uplink) /\ down' \in Seq(Downlink) /\ UNCHANGED command
    BY <1>15, <2>1 DEF LoseContact, station
  <2>3. QED
    BY <1>10, <1>15, <2>2 DEF LoseContact, transceiver, history, bounds, counter, encoders
<1>16. CASE Finished \/ UNCHANGED vars
  BY <1>f, <1>10, <1>16 DEF Finished, vars, transceiver, history, station, bounds,
                                    counter, encoders
<1>17. QED
  BY <1>1, <1>2, <1>3, <1>4, <1>5, <1>6, <1>7, <1>8, <1>9, <1>11, <1>12, <1>13, <1>14, <1>15,
     <1>16, <1>18, <1>19 DEF Next, Transceive, Comms, Ground

-----------------------------------------------------------------------------
(* What is in a queue *)

LEMMA NothingInside == \A x : ~Contains(<<>>, x)
BY DEF Contains

LEMMA InsideTail ==
    ASSUME NEW S, NEW s \in Seq(S), s # <<>>
    PROVE  /\ Contains(s, Head(s))
           /\ \A x : Contains(s, x) <=> (x = Head(s) \/ Contains(Tail(s), x))
<1>1. /\ Len(s) \in Nat /\ Len(s) >= 1 /\ Len(Tail(s)) = Len(s) - 1 /\ Head(s) = s[1]
      /\ \A i \in 1..(Len(s) - 1) : Tail(s)[i] = s[i + 1]
  OBVIOUS
<1>2. Contains(s, Head(s))
  BY <1>1 DEF Contains
<1>3. ASSUME NEW x, Contains(s, x), x # Head(s)
      PROVE  Contains(Tail(s), x)
  <2>1. PICK i \in 1..Len(s) : s[i] = x
    BY <1>3 DEF Contains
  <2>2. i # 1
    BY <1>1, <1>3, <2>1
  <2>3. i - 1 \in 1..Len(Tail(s)) /\ Tail(s)[i - 1] = x
    BY <1>1, <2>1, <2>2
  <2>4. QED
    BY <2>3 DEF Contains
<1>4. ASSUME NEW x, Contains(Tail(s), x)
      PROVE  Contains(s, x)
  <2>1. PICK i \in 1..Len(Tail(s)) : Tail(s)[i] = x
    BY <1>4 DEF Contains
  <2>2. i + 1 \in 1..Len(s) /\ s[i + 1] = x
    BY <1>1, <2>1
  <2>3. QED
    BY <2>2 DEF Contains
<1>5. QED
  BY <1>2, <1>3, <1>4

LEMMA InsideAppend ==
    ASSUME NEW S, NEW s \in Seq(S), NEW y \in S
    PROVE  \A x : Contains(Append(s, y), x) <=> (x = y \/ Contains(s, x))
<1>1. /\ Len(s) \in Nat /\ Len(Append(s, y)) = Len(s) + 1 /\ Append(s, y)[Len(s) + 1] = y
      /\ \A i \in 1..Len(s) : Append(s, y)[i] = s[i]
  OBVIOUS
<1>2. \A i \in 1..(Len(s) + 1) : i \in 1..Len(s) \/ i = Len(s) + 1
  BY <1>1
<1>3. QED
  BY <1>1, <1>2 DEF Contains

-----------------------------------------------------------------------------
(* An exchange that returns SAW_OK *)

\* The telemetry that was numbered and is not in an encoder any more.
Abroad(f) == out = f \/ Contains(txq, f) \/ Contains(down, f)

\* The numbers below it may have been given away.
Top == IF reply \in TmFrames THEN reply.seq ELSE seq

\* As long as no store has lowered the counter, telemetry that is abroad differs by its
\* number, what COMMS encodes has a number that nothing abroad has, and every ACK on its
\* way up is for telemetry that the ground station received.
NumbersTell ==
    /\ reply \in TmFrames => reply.seq <= seq
    /\ \A f \in TmFrames : Abroad(f) => f.seq < Top
    /\ \A f, g \in TmFrames : Abroad(f) /\ Abroad(g) /\ f.seq = g.seq => f.which = g.which
    /\ \A a \in TmAcks : Contains(up, a) => a.ref < Top
    /\ \A a \in TmAcks, f \in TmFrames :
          Contains(up, a) /\ Abroad(f) /\ f.seq = a.ref => f.which \in told
    /\ confirmed \subseteq told

Received == setBack \/ NumbersTell

LEMMA ReceivedInit == Init => Received
<1>1. NoFrame \notin TmFrames
  BY TelemetryFrame
<1>2. ASSUME Init, NEW f \in TmFrames PROVE ~Abroad(f)
  BY <1>1, <1>2, NothingInside DEF Init, Abroad
<1>3. ASSUME Init, NEW a PROVE ~Contains(up, a)
  BY <1>3, NothingInside DEF Init
<1>4. QED
  BY <1>1, <1>2, <1>3 DEF Init, Received, NumbersTell

LEMMA EnqueuedInside ==
    ASSUME Typed, NEW f \in Queueable, Enqueue(f)
    PROVE  \A x : Contains(txq', x) => x = f \/ Contains(txq, x)
<1>1. txq \in Seq(Queueable) /\ (txq' = Append(txq, f) \/ txq' = txq)
  BY DEF Typed, Frames, Enqueue
<1>2. \A x : Contains(Append(txq, f), x) <=> (x = f \/ Contains(txq, x))
  BY <1>1, InsideAppend
<1>3. QED
  BY <1>1, <1>2

LEMMA TopType == Typed => Top \in Nat /\ \A f \in TmFrames : f.seq \in Nat /\ f.which \in Nat
<1>1. \A f \in TmFrames : f.seq \in Nat /\ f.which \in Nat
  BY QueueableFrame DEF Queueable
<1>2. QED
  BY <1>1 DEF Typed, TypeOK, Top

\* Frames are lost, go on or are forgotten, numbers are given away.
LEMMA FewerAbroad ==
    ASSUME Typed, Typed', NumbersTell,
           \A f \in TmFrames : Abroad(f)' => Abroad(f),
           \A a \in TmAcks : Contains(up', a) => Contains(up, a),
           told \subseteq told', confirmed' \subseteq told',
           Top <= Top', reply' \in TmFrames => reply'.seq <= seq'
    PROVE  NumbersTell'
<1>0. \A f \in TmFrames : f.seq \in Nat
  BY TopType
<1>1. Top \in Nat /\ Top' \in Nat /\ \A f \in TmFrames : f.seq \in Nat
  BY <1>0 DEF Typed, TypeOK, Top
<1>2. \A f \in TmFrames : Abroad(f)' => f.seq < Top'
  BY <1>1 DEF NumbersTell
<1>3. \A f, g \in TmFrames : Abroad(f)' /\ Abroad(g)' /\ f.seq = g.seq => f.which = g.which
  BY DEF NumbersTell
<1>4. \A a \in TmAcks : Contains(up', a) => a.ref < Top'
  BY <1>1, AckFrame DEF NumbersTell
<1>5. \A a \in TmAcks, f \in TmFrames :
         Contains(up', a) /\ Abroad(f)' /\ f.seq = a.ref => f.which \in told'
  BY DEF NumbersTell
<1>6. QED
  BY <1>2, <1>3, <1>4, <1>5 DEF NumbersTell

\* A store that does not lower the counter raises the numbers given away, or leaves them.
LEMMA StoreRaises ==
    ASSUME Typed, NEW n \in Nat, StoreNumber(n), ~setBack'
    PROVE  ~setBack /\ seq <= seq' /\ seq' = n + 1
<1>1. ~setBack /\ ~(n + 1 < seq)
  BY Zenon DEF StoreNumber
<1>2. seq' = n + 1 /\ seq \in Nat
  BY DEF StoreNumber, Typed, TypeOK
<1>3. QED
  BY <1>1, <1>2

LEMMA ReceivedNext == Typed /\ Received /\ [Next]_vars => Received'
<1> SUFFICES ASSUME Typed, Received, [Next]_vars, ~setBack'
             PROVE  NumbersTell'
  BY Zenon DEF Received
<1> Typed'
  BY TypedNext
<1>t. /\ up \in Seq(Uplink) /\ down \in Seq(Downlink) /\ txq \in Seq(Queueable)
      /\ out \in Downlink \union {NoFrame} /\ seq \in Nat
      /\ pc \in {"tx", "listen"} => out \in Downlink
      /\ reply \in Replies \union {NoFrame} /\ beacon \in Beacons \union {NoFrame}
  BY DEF Typed, TypeOK, Frames
<1>u. /\ up # <<>> => /\ Head(up) \in Uplink /\ Contains(up, Head(up))
                      /\ \A f : Contains(Tail(up), f) => Contains(up, f)
      /\ down # <<>> => /\ Head(down) \in Downlink /\ Contains(down, Head(down))
                        /\ \A f : Contains(Tail(down), f) => Contains(down, f)
      /\ txq # <<>> => /\ Contains(txq, Head(txq))
                       /\ \A f : Contains(Tail(txq), f) => Contains(txq, f)
  BY <1>t, InsideTail
<1>n. /\ NoFrame \notin TmFrames
      /\ \A k : AckOf("TC", k) \notin TmFrames
  BY TelemetryFrame
<1>0. Top \in Nat /\ \A f \in TmFrames : f.seq \in Nat /\ f.which \in Nat
  BY TopType
\* What does not touch the counter and the encoder of COMMS.
<1>1. ASSUME \A f \in TmFrames : Abroad(f)' => Abroad(f),
             \A a \in TmAcks : Contains(up', a) => Contains(up, a),
             told \subseteq told', ~setBack => confirmed' \subseteq told',
             UNCHANGED <<seq, setBack, reply>>
      PROVE  NumbersTell'
  <2>1. ~setBack /\ NumbersTell
    BY <1>1 DEF Received
  <2>2. Top' = Top /\ (reply' \in TmFrames => reply'.seq <= seq')
    BY <1>1, <2>1 DEF Top, NumbersTell
  <2>3. Top <= Top'
    BY <1>0, <2>2
  <2>4. confirmed' \subseteq told'
    BY <1>1, <2>1
  <2>5. QED
    BY <1>1, <2>1, <2>2, <2>3, <2>4, FewerAbroad
<1>2. ASSUME UNCHANGED <<confirmed, told>>, ~setBack
      PROVE  told \subseteq told' /\ confirmed' \subseteq told'
  BY <1>2 DEF Received, NumbersTell
<1>3. CASE LoopReceive
  <2>1. /\ up # <<>> /\ up' = Tail(up)
        /\ UNCHANGED <<seq, setBack, reply, txq, down, confirmed, told>>
    BY <1>3 DEF LoopReceive, history, station, counter, encoders
  <2>2. out' = out \/ \E k : out' = AckOf("TC", k)
    BY <1>3 DEF LoopReceive, Transmit
  <2>3. \A f \in TmFrames : Abroad(f)' => Abroad(f)
    BY <1>n, <2>1, <2>2 DEF Abroad
  <2>4. QED
    BY <1>1, <1>2, <1>u, <2>1, <2>3
<1>4. CASE ListenHear
  <2> DEFINE f == Head(up)
  <2>1. /\ pc = "listen" /\ up # <<>> /\ up' = Tail(up)
        /\ UNCHANGED <<seq, setBack, reply, txq, down, told>>
    BY <1>4 DEF ListenHear, station, counter, encoders
  <2>2. out' \in {out, NoFrame}
    BY <1>4 DEF ListenHear
  <2>3. \A g \in TmFrames : Abroad(g)' => Abroad(g)
    BY <1>n, <2>1, <2>2 DEF Abroad
  <2>4. CASE Answers(f) /\ confirmed' = confirmed \union {out.which}
    <3>1. f \in TmAcks /\ f.ref = out.seq
      BY <1>u, <2>1, <2>4, UplinkFrame DEF Answers
    <3>2. out \in TmFrames /\ Abroad(out)
      BY <2>1 DEF Abroad, Typed, Frames
    <3>3. ~setBack => out.which \in told /\ confirmed \subseteq told
      BY <1>u, <2>1, <3>1, <3>2 DEF Received, NumbersTell
    <3>4. ~setBack => confirmed' \subseteq told'
      BY <2>1, <2>4, <3>3
    <3>5. QED
      BY <1>1, <1>u, <2>1, <2>3, <3>4
  <2>5. CASE UNCHANGED confirmed
    BY <1>1, <1>2, <1>u, <2>1, <2>3, <2>5
  <2>6. QED
    BY <1>4, <2>4, <2>5 DEF ListenHear
<1>5. CASE GroundHear
  <2> DEFINE f == Head(down)
  <2>1. /\ down # <<>> /\ down' = Tail(down) /\ f \in Downlink /\ Contains(down, f)
        /\ UNCHANGED <<confirmed, seq, setBack, reply, txq, out>>
    BY <1>u, <1>5 DEF GroundHear, history, transceiver, counter, encoders
  <2>2. \A g \in TmFrames : Abroad(g)' => Abroad(g)
    BY <1>u, <2>1 DEF Abroad
  <2>3. CASE /\ f.type = "TM"
             /\ up' = Append(up, AckOf("TM", f.seq)) /\ told' = told \union {f.which}
    <3>1. f \in TmFrames /\ Abroad(f)
      BY <2>1, <2>3, QueueableFrame, CommandAck DEF Downlink, Abroad
    <3>2. AckOf("TM", f.seq) \in Uplink /\ AckOf("TM", f.seq).ref = f.seq
      BY <1>0, <3>1, NewFrames DEF Uplink
    <3>3. \A a : Contains(up', a) <=> (a = AckOf("TM", f.seq) \/ Contains(up, a))
      BY <1>t, <2>3, <3>2, InsideAppend
    <3>4. NumbersTell /\ Top' = Top
      BY <2>1 DEF Received, Top
    <3>5. \A g \in TmFrames : Abroad(g)' => g.seq < Top'
      BY <2>2, <3>4 DEF NumbersTell
    <3>6. \A g, h \in TmFrames : Abroad(g)' /\ Abroad(h)' /\ g.seq = h.seq => g.which = h.which
      BY <2>2, <3>4 DEF NumbersTell
    <3>7. \A a \in TmAcks : Contains(up', a) => a.ref < Top'
      BY <3>1, <3>2, <3>3, <3>4 DEF NumbersTell
    <3>8. ASSUME NEW a \in TmAcks, NEW g \in TmFrames, Contains(up', a), Abroad(g)', g.seq = a.ref
          PROVE  g.which \in told'
      <4>1. CASE a = AckOf("TM", f.seq)
        <5>1. g.which = f.which
          BY <2>2, <3>1, <3>2, <3>4, <3>8, <4>1 DEF NumbersTell
        <5>2. QED
          BY <2>3, <5>1
      <4>2. CASE Contains(up, a)
        BY <2>2, <2>3, <3>4, <3>8, <4>2 DEF NumbersTell
      <4>3. QED
        BY <3>3, <3>8, <4>1, <4>2
    <3>9. confirmed' \subseteq told' /\ (reply' \in TmFrames => reply'.seq <= seq')
      BY <2>1, <2>3, <3>4 DEF NumbersTell
    <3>10. QED
      BY <3>5, <3>6, <3>7, <3>8, <3>9 DEF NumbersTell
  <2>4. CASE UNCHANGED <<up, told>>
    BY <1>1, <1>2, <2>1, <2>2, <2>4
  <2>5. QED
    BY <1>5, <2>3, <2>4 DEF GroundHear, station
<1>6. CASE GroundSend
  <2>1. command \in DOMAIN Commands /\ Tc(command) \in TcFrames
    BY <1>6, CommandsAssumption, CommandOf DEF GroundSend, Typed, Counters
  <2>2. \A g : Contains(up', g) <=> (g = Tc(command) \/ Contains(up, g))
    BY <1>t, <1>6, <2>1, InsideAppend DEF GroundSend, Uplink
  <2>3. Tc(command) \notin TmAcks
    BY <2>1, CommandFrame, AckFrame
  <2>4. UNCHANGED <<out, txq, down, confirmed, told, seq, setBack, reply>>
    BY <1>6 DEF GroundSend, history, transceiver, counter, encoders
  <2>5. \A f \in TmFrames : Abroad(f)' => Abroad(f)
    BY <2>4 DEF Abroad
  <2>6. QED
    BY <1>1, <1>2, <2>2, <2>3, <2>4, <2>5
<1>7. CASE Fade \/ LoseContact
  <2>1. /\ up' = up \/ (up # <<>> /\ up' = Tail(up)) \/ up' = <<>>
        /\ down' = down \/ (down # <<>> /\ down' = Tail(down)) \/ down' = <<>>
    BY <1>7 DEF Fade, LoseContact
  <2>2. UNCHANGED <<out, txq, confirmed, told, seq, setBack, reply>>
    BY <1>7 DEF Fade, LoseContact, history, station, transceiver, counter, encoders
  <2>3. /\ \A f : Contains(up', f) => Contains(up, f)
        /\ \A f : Contains(down', f) => Contains(down, f)
    BY <1>u, <2>1, NothingInside
  <2>4. \A f \in TmFrames : Abroad(f)' => Abroad(f)
    BY <2>2, <2>3 DEF Abroad
  <2>5. QED
    BY <1>1, <1>2, <2>2, <2>3, <2>4
<1>8. CASE TxDone \/ TxCut
  <2>1. /\ pc = "tx" /\ out' \in {out, NoFrame}
        /\ down' = Append(down, out) \/ down' = down
        /\ UNCHANGED <<up, txq, confirmed, told, seq, setBack, reply>>
    BY <1>8 DEF TxDone, TxCut, AfterTransmit, station, counter, encoders
  <2>2. \A f : Contains(down', f) => f = out \/ Contains(down, f)
    <3>1. \A f : Contains(Append(down, out), f) <=> (f = out \/ Contains(down, f))
      BY <1>t, <2>1, InsideAppend
    <3>2. QED
      BY <2>1, <3>1
  <2>3. \A f \in TmFrames : Abroad(f)' => Abroad(f)
    BY <1>n, <2>1, <2>2 DEF Abroad
  <2>4. QED
    BY <1>1, <1>2, <2>1, <2>3
<1>9. CASE DrainNext
  <2>1. /\ \/ txq' = txq /\ out' = out
           \/ txq # <<>> /\ txq' = Tail(txq) /\ out' \in {out, Head(txq)}
        /\ UNCHANGED <<up, down, confirmed, told, seq, setBack, reply>>
    BY <1>9 DEF DrainNext, Transmit, history, station, counter, encoders
  <2>2. \A f \in TmFrames : Abroad(f)' => Abroad(f)
    <3>1. CASE txq' = txq /\ out' = out
      BY <2>1, <3>1 DEF Abroad
    <3>2. CASE txq # <<>> /\ txq' = Tail(txq) /\ out' \in {out, Head(txq)}
      <4>1. \A f : Contains(txq', f) => Contains(txq, f)
        BY <1>u, <3>2
      <4>2. \A f : f = out' => f = out \/ Contains(txq, f)
        BY <1>u, <3>2
      <4>3. QED
        BY <2>1, <4>1, <4>2 DEF Abroad
    <3>3. QED
      BY <2>1, <3>1, <3>2
  <2>3. QED
    BY <1>1, <1>2, <2>1, <2>2
<1>10. CASE ListenTimeout \/ Reset
  <2>1. /\ out' \in {out, NoFrame}
        /\ UNCHANGED <<up, down, txq, confirmed, told, seq, setBack, reply>>
    BY <1>10 DEF ListenTimeout, Reset, Transmit, history, station, counter, encoders
  <2>2. \A f \in TmFrames : Abroad(f)' => Abroad(f)
    BY <1>n, <2>1 DEF Abroad
  <2>3. QED
    BY <1>1, <1>2, <2>1, <2>2
<1>11. CASE LoopReady \/ GroundTimeout \/ TakeBeacon \/ Finished \/ UNCHANGED vars
  <2>1. UNCHANGED <<out, up, down, txq, confirmed, told, seq, setBack, reply>>
    BY <1>11 DEF LoopReady, GroundTimeout, TakeBeacon, Finished, vars, transceiver, history,
                 station, counter, encoders
  <2>2. \A f \in TmFrames : Abroad(f)' => Abroad(f)
    BY <2>1 DEF Abroad
  <2>3. QED
    BY <1>1, <1>2, <2>1, <2>2
<1>12. CASE CommsExecute
  <2>1. /\ reply = NoFrame
        /\ UNCHANGED <<out, up, down, txq, confirmed, told, seq, setBack>>
    BY <1>12 DEF CommsExecute, transceiver, station, counter
  <2>2. NumbersTell
    BY <2>1 DEF Received
  <2>3. reply' \in {NoFrame, Nack(seq)} \/ reply' = Tm(seq, made + 1)
    BY <1>12, <2>1 DEF CommsExecute
  <2>4. Nack(seq) \notin TmFrames /\ Tm(seq, made + 1).seq = seq
    BY TelemetryFrame DEF Tm
  <2>5. Top' = seq /\ Top = seq /\ (reply' \in TmFrames => reply'.seq = seq)
    BY <1>n, <2>1, <2>3, <2>4 DEF Top
  <2>6. Top <= Top' /\ (reply' \in TmFrames => reply'.seq <= seq')
    BY <1>t, <2>1, <2>5
  <2>7. \A f \in TmFrames : Abroad(f)' => Abroad(f)
    BY <2>1 DEF Abroad
  <2>8. told \subseteq told' /\ confirmed' \subseteq told'
    BY <2>1, <2>2 DEF NumbersTell
  <2>9. QED
    BY <2>1, <2>2, <2>6, <2>7, <2>8, FewerAbroad
<1>13. CASE LoopAck
  <2>1. /\ StoreNumber(number) /\ number \in Nat
        /\ UNCHANGED <<out, up, down, txq, confirmed, told, reply>>
    BY <1>13 DEF LoopAck, Transmit, history, station, encoders, Typed, TypeOK
  <2>2. NumbersTell /\ seq <= seq' /\ seq' \in Nat
    BY <2>1, StoreRaises DEF Received, Typed, TypeOK
  <2>3. reply' \in TmFrames => reply'.seq <= seq'
    BY <1>0, <1>t, <2>1, <2>2 DEF NumbersTell
  <2>4. Top <= Top'
    BY <1>0, <1>t, <2>1, <2>2 DEF Top
  <2>5. \A f \in TmFrames : Abroad(f)' => Abroad(f)
    BY <2>1 DEF Abroad
  <2>6. told \subseteq told' /\ confirmed' \subseteq told'
    BY <2>1, <2>2 DEF NumbersTell
  <2>7. QED
    BY <2>1, <2>2, <2>3, <2>4, <2>5, <2>6, FewerAbroad
<1>14. CASE SendBeacon
  <2>1. /\ beacon \in Beacons /\ StoreNumber(beacon.seq) /\ Enqueue(Numbered(beacon))
        /\ UNCHANGED <<out, up, down, confirmed, told, reply>>
    BY <1>t, <1>14 DEF SendBeacon, transceiver, history, station
  <2>2. /\ beacon.seq \in Nat /\ Numbered(beacon) \in Queueable /\ Numbered(beacon) \notin TmFrames
    <3>1. beacon \notin TmFrames
      BY <2>1, TelemetryFrame DEF Beacons
    <3>2. QED
      BY <2>1, <3>1, EncodedFrame
  <2>3. NumbersTell /\ seq <= seq' /\ seq' \in Nat
    BY <2>1, <2>2, StoreRaises DEF Received, Typed, TypeOK
  <2>4. reply' \in TmFrames => reply'.seq <= seq'
    BY <1>0, <1>t, <2>1, <2>3 DEF NumbersTell
  <2>5. Top <= Top'
    BY <1>0, <1>t, <2>1, <2>3 DEF Top
  <2>6. \A f \in TmFrames : Abroad(f)' => Abroad(f)
    BY <2>1, <2>2, EnqueuedInside DEF Abroad
  <2>7. told \subseteq told' /\ confirmed' \subseteq told'
    BY <2>1, <2>3 DEF NumbersTell
  <2>8. QED
    BY <2>1, <2>3, <2>4, <2>5, <2>6, <2>7, FewerAbroad
<1>15. CASE CommsReply
  <2> DEFINE f == reply
  <2>1. /\ f \in Replies /\ StoreNumber(f.seq) /\ Enqueue(Numbered(f)) /\ reply' = NoFrame
        /\ UNCHANGED <<out, up, down, confirmed, told>>
    BY <1>t, <1>15 DEF CommsReply, transceiver, history, station
  <2>2. /\ f.seq \in Nat /\ Numbered(f) \in Queueable
        /\ f \in TmFrames => Numbered(f) = f
        /\ f \notin TmFrames => Numbered(f) \notin TmFrames
    BY <2>1, EncodedFrame
  <2>3. NumbersTell /\ seq <= seq' /\ seq' = f.seq + 1 /\ Top' = seq'
    BY <1>n, <2>1, <2>2, StoreRaises DEF Received, Top
  <2>4. told \subseteq told' /\ confirmed' \subseteq told'
    BY <2>1, <2>3 DEF NumbersTell
  <2>5. CASE f \notin TmFrames
    <3>1. Top <= Top'
      BY <1>t, <2>3, <2>5 DEF Top
    <3>2. \A g \in TmFrames : Abroad(g)' => Abroad(g)
      BY <2>1, <2>2, <2>5, EnqueuedInside DEF Abroad
    <3>3. QED
      BY <1>n, <2>1, <2>3, <2>4, <3>1, <3>2, FewerAbroad
  <2>6. CASE f \in TmFrames
    <3>1. Top = f.seq /\ Top' = Top + 1
      BY <2>3, <2>6 DEF Top
    <3>2. \A g \in TmFrames : Abroad(g)' => Abroad(g) \/ g = f
      BY <2>1, <2>2, <2>6, EnqueuedInside DEF Abroad
    <3>3. \A g \in TmFrames : Abroad(g) => g.seq < f.seq
      BY <2>3, <3>1 DEF NumbersTell
    <3>4. \A g \in TmFrames : Abroad(g)' => g.seq < Top'
      BY <1>0, <3>1, <3>2, <3>3
    <3>5. \A g, h \in TmFrames : Abroad(g)' /\ Abroad(h)' /\ g.seq = h.seq => g.which = h.which
      <4>1. ASSUME NEW g \in TmFrames, NEW h \in TmFrames, Abroad(g)', Abroad(h)', g.seq = h.seq
            PROVE  g.which = h.which
        <5>1. CASE Abroad(g) /\ Abroad(h)
          BY <2>3, <4>1, <5>1 DEF NumbersTell
        <5>2. CASE g = f \/ h = f
          <6>1. g.seq = f.seq /\ h.seq = f.seq
            BY <4>1, <5>2
          <6>2. ~(f.seq < f.seq)
            BY <2>2
          <6>3. ~Abroad(g) /\ ~Abroad(h)
            BY <3>3, <6>1, <6>2
          <6>4. QED
            BY <3>2, <4>1, <6>3
        <5>3. QED
          BY <3>2, <4>1, <5>1, <5>2
      <4>2. QED
        BY <4>1
    <3>6. \A a \in TmAcks : Contains(up', a) => a.ref < Top'
      BY <1>0, <2>1, <2>3, <3>1, AckFrame DEF NumbersTell
    <3>7. ASSUME NEW a \in TmAcks, NEW g \in TmFrames, Contains(up', a), Abroad(g)', g.seq = a.ref
          PROVE  g.which \in told'
      <4>1. Contains(up, a) /\ a.ref < f.seq
        BY <2>1, <2>3, <3>1, <3>7 DEF NumbersTell
      <4>2. g # f
        BY <2>2, <3>7, <4>1
      <4>3. Abroad(g)
        BY <3>2, <3>7, <4>2
      <4>4. QED
        BY <2>1, <2>3, <3>7, <4>1, <4>3 DEF NumbersTell
    <3>8. QED
      BY <1>n, <2>1, <2>4, <3>4, <3>5, <3>6, <3>7 DEF NumbersTell
  <2>7. QED
    BY <2>5, <2>6
<1>16. QED
  BY <1>3, <1>4, <1>5, <1>6, <1>7, <1>8, <1>9, <1>10, <1>11, <1>12, <1>13, <1>14, <1>15
  DEF Next, Transceive, Comms, Ground

-----------------------------------------------------------------------------
(* A command that is acknowledged *)

Kept(k) ==
    \/ Executions(k) > 0 \/ hand = Tc(k) \/ Contains(rxq, Tc(k))
    \/ k \in overflow \/ resets > 0

\* An acknowledgement of the command exists or will be sent: the ring has it, which has a
\* repeated command acknowledged; an ACK is transmitted, or on its way, or was heard.
Promised(k) ==
    \/ Contains(dedup, k) \/ out = AckOf("TC", k) \/ Contains(down, AckOf("TC", k))
    \/ k \in acked

PromisesKept == acked \subseteq DOMAIN Commands /\ \A k \in DOMAIN Commands : Promised(k) => Kept(k)

LEMMA PromisesInit == Init => PromisesKept
<1>1. \A k : AckOf("TC", k) # NoFrame
  BY DEF AckOf, NoFrame
<1>2. QED
  BY <1>1, NothingInside DEF Init, PromisesKept, Promised

\* Executions only grow; the frame executed is counted.
LEMMA ExecutedCount ==
    ASSUME Typed, CommsExecute
    PROVE  \A k : /\ Executions(k) \in Nat
                  /\ Executions(k)' = Executions(k) + (IF Head(rxq) = Tc(k) THEN 1 ELSE 0)
<1>1. executed' = executed (+) SetToBag({Head(rxq)}) /\ IsBag(executed)
  BY DEF CommsExecute, Typed, Counters
<1>2. \A k : Copies(Tc(k), executed') = Copies(Tc(k), executed) + (IF Tc(k) = Head(rxq) THEN 1 ELSE 0)
  BY <1>1, OneMore
<1>3. \A k : Executions(k) = Copies(Tc(k), executed) /\ Executions(k)' = Copies(Tc(k), executed')
  BY DEF Executions, Copies
<1>4. \A k : Copies(Tc(k), executed) \in Nat
  BY <1>1 DEF IsBag, Copies, BagIn, BagToSet
<1>5. QED
  BY <1>2, <1>3, <1>4

LEMMA ForwardKeeps ==
    ASSUME Typed, NEW f \in Uplink, Forward(f)
    PROVE  /\ overflow \subseteq overflow'
           /\ \A x : Contains(rxq, x) => Contains(rxq', x)
           /\ \A k \in DOMAIN Commands : f = Tc(k) => Contains(rxq', f) \/ k \in overflow'
<1>1. rxq \in Seq(Uplink)
  BY DEF Typed, Frames
<1>2. CASE rxq' = Append(rxq, f) /\ UNCHANGED overflow
  BY <1>1, <1>2, InsideAppend
<1>3. CASE UNCHANGED rxq /\ overflow' = overflow \union (IF f.type = "TC" THEN {f.seq} ELSE {})
  <2>1. \A k \in DOMAIN Commands : f = Tc(k) => f.type = "TC" /\ f.seq = k
    BY CommandOf, CommandFrame
  <2>2. QED
    BY <1>3, <2>1
<1>4. QED
  BY <1>2, <1>3 DEF Forward

\* A command that is kept stays kept: it goes from the hand to rx_queue and from there to
\* tc_process.
LEMMA KeptStays ==
    ASSUME Typed, [Next]_vars, NEW k \in DOMAIN Commands, Kept(k)
    PROVE  Kept(k)'
<1>t. /\ hand \in TcFrames \union {NoFrame} /\ (hand # NoFrame => pc \in {"encode", "tx"})
      /\ hand # NoFrame => out = AckOf("TC", hand.seq)
      /\ rxq \in Seq(Uplink) /\ resets \in Nat /\ Tc(k) \in TcFrames /\ Tc(k) # NoFrame
  BY CommandOf, CommandFrame DEF Typed, TypeOK, Frames, Counters
<1>1. ASSUME /\ UNCHANGED <<executed, resets>> /\ overflow \subseteq overflow'
             /\ hand = Tc(k) => hand' = Tc(k) \/ Contains(rxq', Tc(k)) \/ k \in overflow'
             /\ Contains(rxq, Tc(k)) => Contains(rxq', Tc(k))
      PROVE  Kept(k)'
  <2>1. Executions(k)' = Executions(k)
    BY <1>1 DEF Executions
  <2>2. QED
    BY <1>1, <2>1 DEF Kept
<1>2. CASE LoopReceive
  <2>1. hand # Tc(k) /\ UNCHANGED <<rxq, executed, overflow, resets>>
    BY <1>t, <1>2 DEF LoopReceive, history, bounds
  <2>2. QED
    BY <1>1, <2>1
<1>3. CASE TxDone \/ TxCut
  <2>1. pc = "tx" /\ AfterTransmit /\ UNCHANGED <<executed, resets>>
    BY <1>3 DEF TxDone, TxCut, AfterTransmit
  <2>2. CASE /\ out.type = "ACK" /\ hand' = NoFrame
             /\ IF hand = NoFrame THEN UNCHANGED <<rxq, overflow>> ELSE Forward(hand)
    <3>1. CASE hand = NoFrame
      BY <1>1, <1>t, <2>1, <2>2, <3>1
    <3>2. CASE hand # NoFrame
      <4>1. hand \in Uplink /\ Forward(hand)
        BY <1>t, <2>2, <3>2 DEF Uplink
      <4>2. QED
        BY <1>1, <2>1, <4>1, ForwardKeeps
    <3>3. QED
      BY <3>1, <3>2
  <2>3. CASE UNCHANGED <<hand, rxq, overflow>>
    BY <1>1, <2>1, <2>3
  <2>4. QED
    BY <2>1, <2>2, <2>3 DEF AfterTransmit
<1>4. CASE ListenHear
  <2>1. up # <<>> /\ UNCHANGED <<hand, executed, resets>> /\ up \in Seq(Uplink)
    BY <1>4 DEF ListenHear, bounds, Typed, Frames
  <2>2. CASE UNCHANGED <<rxq, overflow>>
    BY <1>1, <2>1, <2>2
  <2>3. CASE Forward(Head(up))
    <3>1. Head(up) \in Uplink
      BY <2>1
    <3>2. QED
      BY <1>1, <2>1, <2>3, <3>1, ForwardKeeps
  <2>4. QED
    BY <1>4, <2>2, <2>3 DEF ListenHear
<1>5. CASE Reset
  <2>1. resets' > 0
    BY <1>t, <1>5 DEF Reset
  <2>2. QED
    BY <2>1 DEF Kept
<1>6. CASE CommsExecute
  <2>1. /\ rxq # <<>> /\ rxq' = Tail(rxq) /\ UNCHANGED <<hand, overflow, resets>>
    BY <1>6 DEF CommsExecute, transceiver, bounds
  <2>2. /\ Executions(k) \in Nat
        /\ Executions(k)' = Executions(k) + (IF Head(rxq) = Tc(k) THEN 1 ELSE 0)
    BY <1>6, ExecutedCount
  <2>3. Contains(rxq, Tc(k)) => Tc(k) = Head(rxq) \/ Contains(rxq', Tc(k))
    BY <1>t, <2>1, InsideTail
  <2>4. CASE Executions(k) > 0 \/ Tc(k) = Head(rxq)
    <3>1. Executions(k)' > 0
      BY <2>2, <2>4
    <3>2. QED
      BY <3>1 DEF Kept
  <2>5. CASE ~(Executions(k) > 0) /\ Tc(k) # Head(rxq)
    BY <2>1, <2>3, <2>5 DEF Kept
  <2>6. QED
    BY <2>4, <2>5
<1>7. CASE \/ LoopAck \/ LoopReady \/ DrainNext \/ ListenTimeout \/ CommsReply \/ TakeBeacon
           \/ SendBeacon \/ Ground \/ Fade \/ LoseContact \/ Finished \/ UNCHANGED vars
  <2>1. UNCHANGED <<hand, rxq, executed, overflow, resets>>
    BY <1>7 DEF LoopAck, LoopReady, DrainNext, ListenTimeout, CommsReply, TakeBeacon, SendBeacon,
                Ground, GroundSend, GroundHear, GroundTimeout, Fade, LoseContact, Finished, vars,
                transceiver, history, bounds
  <2>2. QED
    BY <1>1, <2>1
<1>8. QED
  BY <1>2, <1>3, <1>4, <1>5, <1>6, <1>7 DEF Next, Transceive, Comms

\* A new promise is made only for the command in hand.
LEMMA PromisedBefore ==
    ASSUME Typed, [Next]_vars, NEW k \in DOMAIN Commands, Promised(k)'
    PROVE  Promised(k) \/ hand' = Tc(k)
<1>t. /\ up \in Seq(Uplink) /\ down \in Seq(Downlink) /\ (pc = "tx" => out \in Downlink)
      /\ AckOf("TC", k) \in TcAcks /\ AckOf("TC", k) # NoFrame
      /\ \A n : AckOf("TC", n) = AckOf("TC", k) => n = k
  BY CommandAckOf, CommandAck DEF Typed, TypeOK, Frames, AckOf
<1>1. ASSUME /\ Contains(dedup', k) => Contains(dedup, k)
             /\ out' = AckOf("TC", k) => out = AckOf("TC", k)
             /\ Contains(down', AckOf("TC", k)) => Contains(down, AckOf("TC", k))
             /\ k \in acked' => k \in acked
      PROVE  Promised(k)
  BY <1>1 DEF Promised
<1>2. CASE LoopReceive
  <2> DEFINE f == Head(up)
  <2>1. up # <<>> /\ UNCHANGED <<down, acked>> /\ f \in Uplink
    BY <1>2, <1>t DEF LoopReceive, station
  <2>2. CASE /\ f.type = "TC" /\ Contains(dedup, f.seq)
             /\ Transmit(AckOf("TC", f.seq)) /\ hand' = NoFrame /\ UNCHANGED <<dedup, number>>
    <3>1. out' = AckOf("TC", f.seq)
      BY <2>2 DEF Transmit
    <3>2. CASE k = f.seq
      BY <2>2, <3>2 DEF Promised
    <3>3. CASE k # f.seq
      BY <1>1, <1>t, <2>1, <2>2, <3>1, <3>3
    <3>4. QED
      BY <3>2, <3>3
  <2>3. CASE /\ f.type = "TC" /\ ~Contains(dedup, f.seq) /\ dedup' = Remember(f.seq)
             /\ out' = AckOf("TC", f.seq) /\ hand' = f
    <3>1. out' = AckOf("TC", f.seq)
      BY <2>3
    <3>2. f.seq \in DOMAIN Commands /\ f = Tc(f.seq)
      BY <2>1, <2>3, UplinkFrame, CommandFrame
    <3>3. Contains(dedup', k) => k = f.seq \/ Contains(dedup, k)
      BY <2>3, <3>2, Remembered
    <3>4. CASE k = f.seq
      BY <2>3, <3>2, <3>4
    <3>5. CASE k # f.seq
      BY <1>1, <1>t, <2>1, <3>1, <3>3, <3>5
    <3>6. QED
      BY <3>4, <3>5
  <2>4. CASE UNCHANGED <<out, number, hand, woken, dedup>>
    BY <1>1, <2>1, <2>4
  <2>5. QED
    BY <1>2, <2>2, <2>3, <2>4 DEF LoopReceive
<1>3. CASE TxDone \/ TxCut
  <2>1. /\ pc = "tx" /\ out' \in {out, NoFrame} /\ UNCHANGED <<dedup, acked>>
        /\ down' = Append(down, out) \/ down' = down
    BY <1>3 DEF TxDone, TxCut, AfterTransmit, station
  <2>2. Contains(down', AckOf("TC", k)) => out = AckOf("TC", k) \/ Contains(down, AckOf("TC", k))
    <3>1. Contains(Append(down, out), AckOf("TC", k))
             => out = AckOf("TC", k) \/ Contains(down, AckOf("TC", k))
      BY <1>t, <2>1, InsideAppend
    <3>2. QED
      BY <2>1, <3>1
  <2>3. QED
    BY <1>t, <2>1, <2>2 DEF Promised
<1>4. CASE DrainNext
  <2>1. /\ UNCHANGED <<dedup, down, acked>>
        /\ out' = out \/ (txq # <<>> /\ out' = Head(txq))
    BY <1>4 DEF DrainNext, Transmit, station
  <2>2. txq # <<>> => Head(txq) # AckOf("TC", k)
    <3>1. txq # <<>> => Head(txq) \in Queueable
      BY DEF Typed, Frames
    <3>2. QED
      BY <1>t, <3>1, QueueableFrame, CommandAck
  <2>3. QED
    BY <1>1, <2>1, <2>2
<1>5. CASE ListenHear \/ ListenTimeout \/ Reset
  <2>1. out' \in {out, NoFrame} /\ UNCHANGED <<down, acked>> /\ dedup' \in {dedup, <<>>}
    BY <1>5 DEF ListenHear, ListenTimeout, Transmit, Reset, station
  <2>2. QED
    BY <1>1, <1>t, <2>1, NothingInside
<1>6. CASE GroundHear
  <2>1. /\ down # <<>> /\ down' = Tail(down) /\ UNCHANGED <<out, dedup>>
        /\ \/ acked' = acked
           \/ Head(down).type = "ACK" /\ acked' = acked \union {Head(down).ref}
    BY <1>6 DEF GroundHear, transceiver, station
  <2>2. /\ Contains(down, Head(down))
        /\ Contains(down', AckOf("TC", k)) => Contains(down, AckOf("TC", k))
    BY <1>t, <2>1, InsideTail
  <2>3. CASE acked' = acked
    BY <1>1, <2>1, <2>2, <2>3
  <2>4. CASE Head(down).type = "ACK" /\ acked' = acked \union {Head(down).ref}
    <3>1. Head(down) \in TcAcks
      BY <1>t, <2>1, <2>4, QueueableFrame DEF Downlink
    <3>2. Head(down) = AckOf("TC", Head(down).ref)
      BY <3>1, CommandAck
    <3>3. k \in acked' => k \in acked \/ Contains(down, AckOf("TC", k))
      BY <2>2, <2>4, <3>2
    <3>4. QED
      BY <2>1, <2>2, <3>3 DEF Promised
  <2>5. QED
    BY <2>1, <2>3, <2>4
<1>7. CASE Fade \/ LoseContact
  <2>1. /\ UNCHANGED <<out, dedup, acked>>
        /\ down' = down \/ (down # <<>> /\ down' = Tail(down)) \/ down' = <<>>
    BY <1>7 DEF Fade, LoseContact, transceiver, station
  <2>2. Contains(down', AckOf("TC", k)) => Contains(down, AckOf("TC", k))
    BY <1>t, <2>1, InsideTail, NothingInside
  <2>3. QED
    BY <1>1, <2>1, <2>2
<1>8. CASE \/ LoopAck \/ LoopReady \/ Comms \/ TakeBeacon \/ SendBeacon \/ GroundSend
           \/ GroundTimeout \/ Finished \/ UNCHANGED vars
  <2>1. UNCHANGED <<out, dedup, down, acked>>
    BY <1>8 DEF LoopAck, Transmit, LoopReady, Comms, CommsExecute, CommsReply, TakeBeacon,
                SendBeacon, GroundSend, GroundTimeout, Finished, vars, transceiver, station
  <2>2. QED
    BY <1>1, <2>1
<1>9. QED
  BY <1>2, <1>3, <1>4, <1>5, <1>6, <1>7, <1>8 DEF Next, Transceive, Comms, Ground

LEMMA PromisesNext == Typed /\ PromisesKept /\ [Next]_vars => PromisesKept'
<1> SUFFICES ASSUME Typed, PromisesKept, [Next]_vars
             PROVE  PromisesKept'
  OBVIOUS
<1>1. ASSUME NEW k \in DOMAIN Commands, Promised(k)'
      PROVE  Kept(k)'
  <2>1. CASE Promised(k)
    <3>1. Kept(k)
      BY <2>1 DEF PromisesKept
    <3>2. QED
      BY <3>1, KeptStays
  <2>2. CASE hand' = Tc(k)
    BY <2>2 DEF Kept
  <2>3. QED
    BY <1>1, <2>1, <2>2, PromisedBefore
<1>2. acked' \subseteq DOMAIN Commands
  <2>1. CASE GroundHear
    <3>1. /\ down # <<>>
          /\ \/ acked' = acked
             \/ Head(down).type = "ACK" /\ acked' = acked \union {Head(down).ref}
      BY <2>1 DEF GroundHear, station
    <3>2. Head(down).type = "ACK" => Head(down).ref \in DOMAIN Commands
      <4>1. Head(down) \in Downlink
        BY <3>1 DEF Typed, Frames
      <4>2. QED
        BY <4>1, QueueableFrame, CommandAck DEF Downlink
    <3>3. QED
      BY <3>1, <3>2 DEF PromisesKept
  <2>2. CASE ~GroundHear
    <3>1. UNCHANGED acked
      BY <2>2 DEF Next, Transceive, Ground, Comms, LoopReceive, LoopAck, LoopReady, TxDone, TxCut,
                  AfterTransmit, DrainNext, ListenHear, ListenTimeout, Reset, CommsExecute,
                  CommsReply, TakeBeacon, SendBeacon, GroundSend, GroundTimeout, Fade, LoseContact,
                  Finished, vars, station
    <3>2. QED
      BY <3>1 DEF PromisesKept
  <2>3. QED
    BY <2>1, <2>2
<1>3. QED
  BY <1>1, <1>2 DEF PromisesKept

-----------------------------------------------------------------------------
(* How often a command runs *)

\* How often a command is in the hand of TRANSCEIVER and in rx_queue, which has two slots.
InHand(k) == IF hand = Tc(k) THEN 1 ELSE 0
InSlot(k, i) == IF i <= Len(rxq) /\ rxq[i] = Tc(k) THEN 1 ELSE 0
InQueue(k) == InSlot(k, 1) + InSlot(k, 2)

\* Whether the loop has taken a command as late as k since the last reset.
Taken(k) == IF dedup # <<>> /\ k <= Last(dedup) THEN 1 ELSE 0

\* Commands are on their way up in their order, and none is older than the newest entry of
\* the ring: with one entry only, it is enough to know a command that is repeated.
Ordered ==
    /\ \A i, j \in 1..Len(up) :
          i < j /\ up[i].type = "TC" /\ up[j].type = "TC" => up[i].seq <= up[j].seq
    /\ \A i \in 1..Len(up) : up[i].type = "TC" => /\ up[i].seq <= command
                                                  /\ dedup # <<>> => Last(dedup) <= up[i].seq
    /\ dedup # <<>> => Last(dedup) <= command

Counted ==
    \A k \in DOMAIN Commands :
        Executions(k) + InQueue(k) + InHand(k) <= inExchange[k] + resets + Taken(k)

LEMMA OrderedInit == Init => Ordered
<1>1. Len(<<>>) = 0
  OBVIOUS
<1>2. QED
  BY <1>1 DEF Init, Ordered

LEMMA CountedInit == Init => Counted
<1>1. ASSUME Init, NEW k \in DOMAIN Commands
      PROVE  /\ Executions(k) = 0 /\ InQueue(k) = 0 /\ InHand(k) = 0
             /\ inExchange[k] = 0 /\ resets = 0 /\ Taken(k) = 0
  <2>1. Executions(k) = 0
    BY <1>1 DEF Init, Executions, EmptyBag, SetToBag, BagIn, BagToSet
  <2>2. InQueue(k) = 0
    <3>1. Len(<<>>) = 0
      OBVIOUS
    <3>2. QED
      BY <1>1, <3>1 DEF Init, InQueue, InSlot
  <2>3. Tc(k) # NoFrame
    BY CommandOf, CommandFrame
  <2>4. QED
    BY <1>1, <2>1, <2>2, <2>3 DEF Init, InHand, Taken
<1>2. QED
  BY <1>1 DEF Counted

\* The queues of the air keep the order when a frame leaves at the front.
LEMMA OrderedTail ==
    ASSUME Typed, Ordered, up # <<>>
    PROVE  /\ \A i \in 1..Len(Tail(up)) :
                 Tail(up)[i].type = "TC" => /\ Tail(up)[i].seq <= command
                                            /\ dedup # <<>> => Last(dedup) <= Tail(up)[i].seq
                                            /\ Head(up).type = "TC" => Head(up).seq <= Tail(up)[i].seq
           /\ \A i, j \in 1..Len(Tail(up)) :
                 i < j /\ Tail(up)[i].type = "TC" /\ Tail(up)[j].type = "TC"
                    => Tail(up)[i].seq <= Tail(up)[j].seq
           /\ Head(up).type = "TC" => /\ Head(up).seq <= command
                                      /\ dedup # <<>> => Last(dedup) <= Head(up).seq
<1>1. /\ Len(up) \in Nat /\ Len(up) >= 1 /\ Len(Tail(up)) = Len(up) - 1 /\ Head(up) = up[1]
      /\ \A i \in 1..(Len(up) - 1) : Tail(up)[i] = up[i + 1]
  BY DEF Typed, Frames
<1>2. \A i \in 1..Len(Tail(up)) : /\ i + 1 \in 1..Len(up) /\ 1 < i + 1 /\ Tail(up)[i] = up[i + 1]
  BY <1>1
<1>3. 1 \in 1..Len(up)
  BY <1>1
<1>4. \A i, j \in 1..Len(Tail(up)) : i < j => i + 1 < j + 1
  BY <1>1
<1>5. QED
  BY <1>1, <1>2, <1>3, <1>4 DEF Ordered

LEMMA OrderedNext == Typed /\ Ordered /\ [Next]_vars => Ordered'
<1> SUFFICES ASSUME Typed, Ordered, [Next]_vars
             PROVE  Ordered'
  OBVIOUS
<1>t. /\ up \in Seq(Uplink) /\ command \in Nat /\ dedup \in Seq(DOMAIN Commands)
      /\ dedup # <<>> => Last(dedup) \in Nat
  <2>1. /\ up \in Seq(Uplink) /\ command \in Nat /\ dedup \in Seq(DOMAIN Commands)
    BY DEF Typed, Frames, Counters
  <2>2. dedup # <<>> => Last(dedup) \in DOMAIN Commands
    BY <2>1 DEF Last
  <2>3. DOMAIN Commands \subseteq Nat
    BY CommandsAssumption
  <2>4. QED
    BY <2>1, <2>2, <2>3
<1>s. /\ \A i \in 1..Len(up) : up[i] \in Uplink
      /\ \A f \in Uplink : f.type = "TC" => f.seq \in Nat
  BY <1>t, UplinkFrame, CommandFrame, CommandsAssumption
<1>1. ASSUME UNCHANGED <<up, dedup>>, command' \in {command, command + 1}
      PROVE  Ordered'
  BY <1>t, <1>s, <1>1 DEF Ordered
<1>2. ASSUME up # <<>>, up' = Tail(up), UNCHANGED <<dedup, command>>
      PROVE  Ordered'
  BY <1>2, OrderedTail DEF Ordered
<1>3. CASE LoopReceive
  <2> DEFINE f == Head(up)
  <2>1. up # <<>> /\ up' = Tail(up) /\ UNCHANGED command /\ f \in Uplink
    BY <1>3, <1>t DEF LoopReceive, station
  <2>2. CASE f.type = "TC" /\ dedup' = Remember(f.seq)
    <3>1. dedup' # <<>> /\ Last(dedup') = f.seq
      BY <2>1, <2>2, UplinkFrame, CommandFrame, Remembered
    <3>2. Ordered'
      BY <2>1, <2>2, <3>1, OrderedTail DEF Ordered
    <3>3. QED
      BY <3>2
  <2>3. CASE UNCHANGED dedup
    BY <1>2, <2>1, <2>3
  <2>4. QED
    BY <1>3, <2>2, <2>3 DEF LoopReceive
<1>4. CASE ListenHear
  BY <1>2, <1>4 DEF ListenHear, station
<1>5. CASE Reset
  BY <1>5 DEF Reset, station, Ordered
<1>6. CASE GroundSend
  <2> DEFINE n == Len(up)
  <2>1. command \in DOMAIN Commands /\ Tc(command).seq = command
    BY <1>6, CommandsAssumption, CommandOf DEF GroundSend, Typed, Counters
  <2>2. /\ n \in Nat /\ Len(up') = n + 1 /\ up'[n + 1] = Tc(command)
        /\ \A i \in 1..n : up'[i] = up[i]
        /\ UNCHANGED <<dedup, command>>
    BY <1>t, <1>6 DEF GroundSend, transceiver
  <2> HIDE DEF n
  <2>3. \A i \in 1..(n + 1) : i \in 1..n \/ i = n + 1
    BY <2>2
  <2>4. \A i \in 1..n : /\ up[i].type = "TC" => up[i].seq <= command
                        /\ up[i].type = "TC" /\ dedup # <<>> => Last(dedup) <= up[i].seq
    BY DEF Ordered, n
  <2>5. dedup # <<>> => Last(dedup) <= command
    BY DEF Ordered
  <2>6. \A i \in 1..(n + 1) : up'[i].type = "TC" => /\ up'[i].seq <= command
                                                    /\ dedup # <<>> => Last(dedup) <= up'[i].seq
    BY <1>t, <2>1, <2>2, <2>3, <2>4, <2>5
  <2>7. \A i, j \in 1..(n + 1) :
           i < j /\ up'[i].type = "TC" /\ up'[j].type = "TC" => up'[i].seq <= up'[j].seq
    <3>1. ASSUME NEW i \in 1..(n + 1), NEW j \in 1..(n + 1), i < j,
                 up'[i].type = "TC", up'[j].type = "TC"
          PROVE  up'[i].seq <= up'[j].seq
      <4>1. i \in 1..n
        BY <2>2, <3>1
      <4>2. CASE j \in 1..n
        BY <2>2, <3>1, <4>1, <4>2 DEF Ordered, n
      <4>3. CASE j = n + 1
        BY <2>1, <2>2, <2>4, <3>1, <4>1, <4>3
      <4>4. QED
        BY <2>3, <4>2, <4>3
    <3>2. QED
      BY <3>1
  <2>8. QED
    BY <2>2, <2>5, <2>6, <2>7 DEF Ordered
<1>7. CASE GroundHear
  <2> DEFINE n == Len(up)
  <2>1. command' \in {command, command + 1} /\ UNCHANGED dedup
    BY <1>7 DEF GroundHear, NextCommand, station, transceiver
  <2>2. CASE Head(down).type = "TM" /\ up' = Append(up, AckOf("TM", Head(down).seq)) /\ UNCHANGED command
    <3>1. /\ n \in Nat /\ Len(up') = n + 1 /\ up'[n + 1].type = "ACK"
          /\ \A i \in 1..n : up'[i] = up[i]
      BY <1>t, <2>2 DEF AckOf
    <3> HIDE DEF n
    <3>2. \A i \in 1..(n + 1) : up'[i].type = "TC" => i \in 1..n
      BY <3>1
    <3>3. QED
      BY <2>1, <2>2, <3>1, <3>2 DEF Ordered, n
  <2>3. CASE UNCHANGED up
    BY <1>1, <2>1, <2>3
  <2>4. QED
    BY <1>7, <2>2, <2>3 DEF GroundHear
<1>8. CASE Fade
  <2>1. up' = up \/ (up # <<>> /\ up' = Tail(up))
    BY <1>8 DEF Fade
  <2>2. UNCHANGED <<dedup, command>>
    BY <1>8 DEF Fade, transceiver, station
  <2>3. QED
    BY <1>1, <1>2, <2>1, <2>2
<1>9. CASE LoseContact
  <2>1. Len(<<>>) = 0
    OBVIOUS
  <2>2. QED
    BY <1>9, <2>1 DEF LoseContact, transceiver, station, Ordered
<1>10. CASE GroundTimeout
  <2>1. UNCHANGED <<up, dedup>> /\ command' \in {command, command + 1}
    BY <1>10 DEF GroundTimeout, NextCommand, transceiver
  <2>2. QED
    BY <1>1, <2>1
<1>11. CASE \/ LoopAck \/ LoopReady \/ TxDone \/ TxCut \/ DrainNext \/ ListenTimeout
            \/ Comms \/ TakeBeacon \/ SendBeacon \/ Finished \/ UNCHANGED vars
  <2>1. UNCHANGED <<up, dedup, command>>
    BY <1>11 DEF LoopAck, LoopReady, TxDone, TxCut, AfterTransmit, DrainNext, ListenTimeout, Comms,
                 CommsExecute, CommsReply, TakeBeacon, SendBeacon, Finished, vars, transceiver,
                 station
  <2>2. QED
    BY <1>1, <2>1
<1>12. QED
  BY <1>3, <1>4, <1>5, <1>6, <1>7, <1>8, <1>9, <1>10, <1>11 DEF Next, Transceive, Comms, Ground

\* A frame leaves rx_queue at the front.
LEMMA QueueTail ==
    ASSUME Typed, rxq # <<>>, rxq' = Tail(rxq)
    PROVE  \A k : InQueue(k)' + (IF Head(rxq) = Tc(k) THEN 1 ELSE 0) = InQueue(k)
<1>1. /\ Len(rxq) \in 1..2 /\ Len(rxq') = Len(rxq) - 1 /\ Head(rxq) = rxq[1]
      /\ Len(rxq) = 2 => rxq'[1] = rxq[2]
  <2>1. rxq \in Seq(Uplink) /\ Len(rxq) <= 2
    BY DEF Typed, TypeOK, Frames, QueueLength
  <2>2. Len(rxq) \in Nat /\ Len(rxq) # 0
    BY <2>1
  <2>3. Len(rxq') = Len(rxq) - 1 /\ Head(rxq) = rxq[1] /\ (Len(rxq) = 2 => rxq'[1] = rxq[2])
    BY <2>1, <2>2
  <2>4. QED
    BY <2>1, <2>2, <2>3
<1> SUFFICES ASSUME NEW k
             PROVE  InQueue(k)' + (IF Head(rxq) = Tc(k) THEN 1 ELSE 0) = InQueue(k)
  OBVIOUS
<1> DEFINE m == Len(rxq)
<1>2. /\ InSlot(k, 1) = (IF Head(rxq) = Tc(k) THEN 1 ELSE 0)
      /\ m = 1 => InSlot(k, 2) = 0
      /\ InSlot(k, 2) \in {0, 1}
  BY <1>1 DEF InSlot
<1>3. /\ m = 1 => InSlot(k, 1)' = 0 /\ InSlot(k, 2)' = 0
      /\ m = 2 => InSlot(k, 1)' = InSlot(k, 2) /\ InSlot(k, 2)' = 0
  BY <1>1 DEF InSlot
<1>4. m = 1 \/ m = 2
  BY <1>1
<1> HIDE DEF m
<1>5. QED
  BY <1>2, <1>3, <1>4 DEF InQueue

\* A frame enters rx_queue at the end or is dropped.
LEMMA QueueForward ==
    ASSUME Typed, NEW f \in Uplink, Forward(f)
    PROVE  \A k : InQueue(k)' <= InQueue(k) + (IF f = Tc(k) THEN 1 ELSE 0)
<1>1. rxq \in Seq(Uplink) /\ Len(rxq) <= 2
  BY DEF Typed, TypeOK, Frames, QueueLength
<1>2. CASE Len(rxq) < 2 /\ rxq' = Append(rxq, f)
  <2>1. /\ Len(rxq) = 0 \/ Len(rxq) = 1
        /\ Len(rxq') = Len(rxq) + 1 /\ rxq'[Len(rxq) + 1] = f
        /\ Len(rxq) = 1 => rxq'[1] = rxq[1]
    <3>1. Len(rxq) = 0 \/ Len(rxq) = 1
      <4> DEFINE n == Len(rxq)
      <4>1. n \in Nat /\ n < 2
        BY <1>1, <1>2
      <4> HIDE DEF n
      <4>2. n = 0 \/ n = 1
        BY <4>1
      <4>3. QED
        BY <4>2 DEF n
    <3>2. /\ Len(Append(rxq, f)) = Len(rxq) + 1 /\ Append(rxq, f)[Len(rxq) + 1] = f
          /\ \A i \in 1..Len(rxq) : Append(rxq, f)[i] = rxq[i]
      BY <1>1
    <3>3. QED
      BY <1>2, <3>1, <3>2
  <2>2. CASE Len(rxq) = 0
    BY <2>1, <2>2 DEF InQueue, InSlot
  <2>3. CASE Len(rxq) = 1
    BY <2>1, <2>3 DEF InQueue, InSlot
  <2>4. QED
    BY <2>1, <2>2, <2>3
<1>3. CASE UNCHANGED rxq
  BY <1>1, <1>3 DEF InQueue, InSlot
<1>4. QED
  BY <1>2, <1>3 DEF Forward, QueueLength

LEMMA CountedNext == Typed /\ Ordered /\ Counted /\ [Next]_vars => Counted'
<1> SUFFICES ASSUME Typed, Ordered, Counted, [Next]_vars, NEW k \in DOMAIN Commands
             PROVE  (Executions(k) + InQueue(k) + InHand(k) <= inExchange[k] + resets + Taken(k))'
  BY DEF Counted
<1>t. /\ hand \in TcFrames \union {NoFrame} /\ (hand # NoFrame => pc \in {"encode", "tx"})
      /\ hand # NoFrame => out = AckOf("TC", hand.seq)
      /\ rxq \in Seq(Uplink) /\ resets \in Nat /\ Tc(k) \in TcFrames /\ Tc(k) # NoFrame
      /\ up \in Seq(Uplink) /\ inExchange \in [DOMAIN Commands -> Nat]
  BY CommandOf, CommandFrame DEF Typed, TypeOK, Frames, Counters
<1>n. /\ Executions(k) \in Nat /\ InQueue(k) \in Nat /\ InHand(k) \in {0, 1} /\ Taken(k) \in {0, 1}
      /\ Executions(k)' \in Nat /\ InQueue(k)' \in Nat /\ InHand(k)' \in {0, 1} /\ Taken(k)' \in {0, 1}
      /\ inExchange[k] \in Nat /\ inExchange'[k] \in Nat /\ resets \in Nat /\ resets' \in Nat
  <2>1. Executions(k) \in Nat /\ Executions(k)' \in Nat
    <3>1. IsBag(executed) /\ IsBag(executed)'
      BY TypedNext DEF Typed, Counters
    <3>2. QED
      BY <3>1 DEF Executions, IsBag, BagIn, BagToSet
  <2>2. inExchange[k] \in Nat /\ inExchange'[k] \in Nat /\ resets \in Nat /\ resets' \in Nat
    BY TypedNext DEF Typed, Counters
  <2>3. QED
    BY <2>1, <2>2 DEF InQueue, InSlot, InHand, Taken
<1>c. Executions(k) + InQueue(k) + InHand(k) <= inExchange[k] + resets + Taken(k)
  BY DEF Counted
<1>e. executed' = executed => Executions(k)' = Executions(k)
  BY DEF Executions
<1>q. rxq' = rxq => InQueue(k)' = InQueue(k)
  BY DEF InQueue, InSlot
<1>d. dedup' = dedup => Taken(k)' = Taken(k)
  BY DEF Taken
<1>h. /\ hand' = hand => InHand(k)' = InHand(k)
      /\ hand' = NoFrame => InHand(k)' = 0
      /\ hand = NoFrame => InHand(k) = 0
  BY <1>t DEF InHand
<1>1. CASE LoopReceive
  <2> DEFINE f == Head(up)
  <2>1. /\ hand = NoFrame /\ up # <<>> /\ f \in Uplink
        /\ UNCHANGED <<rxq, executed, inExchange, resets>>
    BY <1>t, <1>1 DEF LoopReceive, history, bounds
  <2>2. CASE UNCHANGED dedup /\ hand' = NoFrame
    BY <1>n, <1>c, <1>e, <1>q, <1>d, <1>h, <2>1, <2>2
  <2>3. CASE f.type = "TC" /\ ~Contains(dedup, f.seq) /\ dedup' = Remember(f.seq) /\ hand' = f
    <3>1. f.seq \in DOMAIN Commands /\ f = Tc(f.seq)
      BY <2>1, <2>3, UplinkFrame, CommandFrame
    <3>2. dedup' # <<>> /\ Last(dedup') = f.seq
      BY <2>3, <3>1, Remembered
    <3>3. dedup # <<>> => /\ Last(dedup) \in DOMAIN Commands
                          /\ Last(dedup) <= f.seq /\ Last(dedup) # f.seq
      <4>1. dedup # <<>> => Last(dedup) <= f.seq
        BY <2>1, <2>3, OrderedTail
      <4>2. dedup \in Seq(DOMAIN Commands)
        BY DEF Typed, Frames
      <4>3. dedup # <<>> => Len(dedup) \in 1..Len(dedup) /\ Last(dedup) \in DOMAIN Commands
        BY <4>2 DEF Last
      <4>4. dedup # <<>> => Contains(dedup, Last(dedup))
        BY <4>3 DEF Contains, Last
      <4>5. QED
        BY <2>3, <4>1, <4>3, <4>4
    <3>4. DOMAIN Commands \subseteq Nat
      BY CommandsAssumption
    <3>5. CASE k = f.seq
      <4>1. Taken(k)' = 1 /\ Taken(k) = 0
        BY <3>2, <3>3, <3>4, <3>5 DEF Taken
      <4>2. QED
        BY <1>n, <1>c, <1>e, <1>q, <1>h, <2>1, <4>1
    <3>6. CASE k # f.seq
      <4>1. InHand(k)' = 0
        BY <2>3, <3>1, <3>6, CommandOf DEF InHand
      <4>2. Taken(k) <= Taken(k)'
        BY <3>1, <3>2, <3>3, <3>4 DEF Taken
      <4>3. QED
        BY <1>n, <1>c, <1>e, <1>q, <1>h, <2>1, <4>1, <4>2
    <3>7. QED
      BY <3>5, <3>6
  <2>4. QED
    BY <1>1, <2>1, <2>2, <2>3 DEF LoopReceive
<1>2. CASE TxDone \/ TxCut
  <2>1. AfterTransmit /\ UNCHANGED <<executed, inExchange, resets, dedup>>
    BY <1>2 DEF TxDone, TxCut, AfterTransmit
  <2>2. CASE hand # NoFrame /\ Forward(hand) /\ hand' = NoFrame
    <3>1. hand \in Uplink
      BY <1>t, <2>2 DEF Uplink
    <3>2. InQueue(k)' <= InQueue(k) + InHand(k)
      BY <2>2, <3>1, QueueForward DEF InHand
    <3>3. QED
      BY <1>n, <1>c, <1>e, <1>d, <1>h, <2>1, <2>2, <3>2
  <2>3. CASE rxq' = rxq /\ (hand' = NoFrame \/ hand' = hand)
    BY <1>n, <1>c, <1>e, <1>q, <1>d, <1>h, <2>1, <2>3
  <2>4. QED
    BY <2>1, <2>2, <2>3 DEF AfterTransmit
<1>3. CASE ListenHear
  <2> DEFINE f == Head(up)
  <2>1. /\ up # <<>> /\ f \in Uplink /\ UNCHANGED <<hand, dedup, executed, resets>>
    BY <1>t, <1>3 DEF ListenHear, bounds
  <2>2. CASE UNCHANGED <<rxq, inExchange>>
    BY <1>n, <1>c, <1>e, <1>q, <1>d, <1>h, <2>1, <2>2
  <2>3. CASE /\ Forward(f)
             /\ inExchange' = IF f.type = "TC" THEN [inExchange EXCEPT ![f.seq] = @ + 1]
                              ELSE inExchange
    <3>1. InQueue(k)' <= InQueue(k) + (IF f = Tc(k) THEN 1 ELSE 0)
      BY <2>1, <2>3, QueueForward
    <3>2. inExchange'[k] = inExchange[k] + (IF f = Tc(k) THEN 1 ELSE 0)
      <4>1. CASE f = Tc(k)
        <5>1. f.type = "TC" /\ f.seq = k
          BY <1>t, <4>1, CommandOf, CommandFrame
        <5>2. QED
          BY <1>t, <2>3, <4>1, <5>1
      <4>2. CASE f # Tc(k)
        <5>1. f.type = "TC" => f.seq # k
          BY <2>1, <4>2, UplinkFrame, CommandFrame
        <5>2. QED
          BY <1>t, <2>3, <4>2, <5>1
      <4>3. QED
        BY <4>1, <4>2
    <3>3. InHand(k)' = InHand(k) /\ Taken(k)' = Taken(k)
      BY <1>d, <1>h, <2>1
    <3>4. Executions(k)' = Executions(k) /\ resets' = resets
      BY <1>e, <2>1
    <3> DEFINE m == IF f = Tc(k) THEN 1 ELSE 0
    <3>5. m \in {0, 1}
      OBVIOUS
    <3>6. InQueue(k)' <= InQueue(k) + m /\ inExchange'[k] = inExchange[k] + m
      BY <3>1, <3>2
    <3> HIDE DEF m
    <3>7. QED
      BY <1>n, <1>c, <3>3, <3>4, <3>5, <3>6
  <2>4. QED
    BY <1>3, <2>2, <2>3 DEF ListenHear
<1>4. CASE Reset
  <2>1. /\ resets' = resets + 1 /\ hand' = NoFrame /\ UNCHANGED <<rxq, executed, inExchange>>
    BY <1>4 DEF Reset, history
  <2>2. QED
    BY <1>n, <1>c, <1>e, <1>q, <1>h, <2>1
<1>5. CASE CommsExecute
  <2>1. /\ rxq # <<>> /\ rxq' = Tail(rxq) /\ UNCHANGED <<hand, dedup, inExchange, resets>>
    BY <1>5 DEF CommsExecute, transceiver, bounds
  <2>2. Executions(k)' = Executions(k) + (IF Head(rxq) = Tc(k) THEN 1 ELSE 0)
    BY <1>5, ExecutedCount
  <2>3. InQueue(k)' + (IF Head(rxq) = Tc(k) THEN 1 ELSE 0) = InQueue(k)
    BY <2>1, QueueTail
  <2>4. QED
    BY <1>n, <1>c, <1>d, <1>h, <2>1, <2>2, <2>3
<1>6. CASE \/ LoopAck \/ LoopReady \/ DrainNext \/ ListenTimeout \/ CommsReply \/ TakeBeacon
           \/ SendBeacon \/ Ground \/ Fade \/ LoseContact \/ Finished \/ UNCHANGED vars
  <2>1. UNCHANGED <<hand, rxq, dedup, executed, inExchange, resets>>
    BY <1>6 DEF LoopAck, LoopReady, DrainNext, ListenTimeout, CommsReply, TakeBeacon, SendBeacon,
                Ground, GroundSend, GroundHear, GroundTimeout, Fade, LoseContact, Finished, vars,
                transceiver, history, bounds
  <2>2. QED
    BY <1>n, <1>c, <1>e, <1>q, <1>d, <1>h, <2>1
<1>7. QED
  BY <1>1, <1>2, <1>3, <1>4, <1>5, <1>6 DEF Next, Transceive, Comms

-----------------------------------------------------------------------------
(* The theorems *)

IInv == Typed /\ Received /\ PromisesKept /\ Ordered /\ Counted

LEMMA IInvHolds == Spec => []IInv
<1>1. Init => IInv
  BY TypedInit, ReceivedInit, PromisesInit, OrderedInit, CountedInit DEF IInv
<1>2. IInv /\ [Next]_vars => IInv'
  BY TypedNext, ReceivedNext, PromisesNext, OrderedNext, CountedNext DEF IInv
<1>3. QED
  BY <1>1, <1>2, PTL DEF Spec

\* What every variable of the link layer holds: the frame in hand is one whose ACK is being
\* transmitted, and no queue is longer than its length (transceiver.c, saw.c, dedup.c).
THEOREM TypeOKHolds == Spec => []TypeOK
<1>1. IInv => TypeOK
  BY DEF IInv, Typed
<1>2. QED
  BY <1>1, IInvHolds, PTL

\* A command runs at most once for being received by the loop, once more for each copy that
\* came in an exchange and for each reset (transceiver_task and saw_send), however long the
\* list of commands and however small the ring.
THEOREM OnceOutsideExchangesHolds == Spec => []OnceOutsideExchanges
<1>1. IInv => OnceOutsideExchanges
  <2> SUFFICES ASSUME IInv, NEW k \in DOMAIN Commands
               PROVE  Executions(k) <= 1 + inExchange[k] + resets
    BY DEF OnceOutsideExchanges
  <2>1. Executions(k) + InQueue(k) + InHand(k) <= inExchange[k] + resets + Taken(k)
    BY DEF IInv, Counted
  <2>2. Executions(k) \in Nat
    <3>1. IsBag(executed)
      BY DEF IInv, Typed, Counters
    <3>2. QED
      BY <3>1 DEF Executions, IsBag, BagIn, BagToSet
  <2>3. InQueue(k) \in Nat /\ InHand(k) \in Nat /\ Taken(k) \in {0, 1}
    BY DEF InQueue, InSlot, InHand, Taken
  <2>4. inExchange[k] \in Nat /\ resets \in Nat
    BY DEF IInv, Typed, Counters
  <2>5. QED
    BY <2>1, <2>2, <2>3, <2>4
<1>2. QED
  BY <1>1, IInvHolds, PTL

\* A command the ground station has the ACK of was executed, is in the hand of TRANSCEIVER or
\* in rx_queue, or was dropped by a full queue or a reset (transceiver_task).
THEOREM AckedIsKeptHolds == Spec => []AckedIsKept
<1>1. IInv => AckedIsKept
  BY DEF IInv, PromisesKept, Promised, Kept, AckedIsKept
<1>2. QED
  BY <1>1, IInvHolds, PTL

\* SAW_OK is returned for telemetry the ground station received, although the ACK is matched
\* by its number alone and the numbers are given by three tasks without a lock, unless a
\* store has lowered the counter (saw_send, saw.c and comms_next_seq, comms.c).
THEOREM OkMeansReceivedHolds == Spec => []OkMeansReceived
<1>1. IInv => OkMeansReceived
  BY DEF IInv, Received, NumbersTell, OkMeansReceived
<1>2. QED
  BY <1>1, IInvHolds, PTL

=============================================================================
