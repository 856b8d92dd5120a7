----------------------------- MODULE Compression -----------------------------
(***************************************************************************)
(* POCKET+ (compression.c): packets of fixed length are sent as the change *)
(* of a mask, the positions that vary, and the values of the bits at those *)
(* positions.  A receiver that misses a packet still follows when the next *)
(* one repeats the changes of mask, as many packets back as the protection *)
(* level.  compressPacket runs to its end in one call, and is one action;  *)
(* the receiver is external, and undoes what the code writes.              *)
(*                                                                         *)
(* A packet is the set of its bits that are 1; bit 1 is the rightmost.     *)
(* XOR is the symmetric difference.  Reference and packets are as the      *)
(* caller gives them; what the code does with them depends on differences  *)
(* only, so the reference packet is {} here.                               *)
(*                                                                         *)
(* One startPocket, with npOffset 0, begins a behaviour.  A second one     *)
(* keeps protectionLevel and sizeOldCompressedPacket of the first, which   *)
(* at level 1, the only one the build has room for, comes to the same.     *)
(* Not modelled: a second one at other levels; npBitsOffset, which leaves  *)
(* the bits of the first words out; packets of more than 2048 bytes, which *)
(* startPocket accepts and the buffers have no room for.                   *)
(***************************************************************************)
EXTENDS Integers, Sequences, FiniteSets, SequencesExt

CONSTANTS
    Bits, WordBits, \* numberOfBitsInPacket, and the bits of a word: 32 in the code
    PacketSize,     \* packetSize, in bytes
    Capacity,       \* sizeCompressedPacket, in bytes
    Levels, Rates, Anchors, \* what startPocket may be given
    Packets,        \* the packets there are to compress
    MaxPackets      \* bound: packets compressed

ASSUME PacketAssumption ==
    Bits \in Nat \ {0} /\ WordBits \in 1..Bits /\ Packets \subseteq SUBSET (1..Bits)
ASSUME SizeAssumption == PacketSize \in Nat \ {0} /\ Capacity \in Nat
ASSUME StartAssumption ==       \* startPocket refuses the others
    Levels \subseteq 1..255 /\ Rates \subseteq Nat /\ Anchors \subseteq Nat

Positions == 1..Bits
Kinds == {"positive", "negative"}
Room == (Bits + 1) * Max(Levels)     \* entries of a protection level buffer

VARIABLES
    start,     \* maxProtectionLevel, positiveUpdateFrequency and anchorFrequency
    mask, positive, oldPacket,
    buffer,    \* protectionLevelBufferPositive and ...Negative
    numbers,   \* protectionLevelNumberOfDeltasPositive and ...Negative
    protectionLevel,
    positiveCounter, anchorCounter,
    sizeOld,   \* sizeOldCompressedPacket
    rmask, rpacket, \* what the receiver holds
    missed,    \* packets it has not received since the last that it did
    crowded,   \* history: the packets of the level have more deltas than a buffer keeps
    lost,      \* history: it missed more than the packets it receives repeat
    anchored,  \* the last packet it received had the mask in it
    sent       \* packets compressed, up to the bound

encoder == <<start, mask, positive, oldPacket, buffer, numbers, protectionLevel,
             positiveCounter, anchorCounter, sizeOld>>
receiver == <<rmask, rpacket, missed, lost, anchored>>
vars == <<encoder, receiver, crowded, sent>>

Xor(a, b) == (a \ b) \union (b \ a)

-----------------------------------------------------------------------------
(* Words: pocket_plus_get_binary_data of ht_handling.c, from the bytes of a beacon *)

NoWord == [i \in 0..3 |-> 0]      \* the bytes of a word, the rightmost first

\* From the last byte to the first, four to a word, the words from the last to the first; a
\* word that is not full is kept when it is the first.
GetBinaryData(bytes) ==
    LET length == (Len(bytes) + 3) \div 4
        Take(s, byte) ==
            LET word == [s.word EXCEPT ![s.i] = byte]
            IN  IF s.i < 3 THEN [s EXCEPT !.i = @ + 1, !.word = word]
                ELSE [i |-> 0, word |-> NoWord, at |-> s.at - 1, data |-> [s.data EXCEPT ![s.at] = word]]
        end == FoldRight(LAMBDA byte, s : Take(s, byte), bytes,
                         [i |-> 0, word |-> NoWord, at |-> length, data |-> [w \in 1..length |-> NoWord]])
    IN  IF end.at = 1 THEN [end.data EXCEPT ![1] = end.word] ELSE end.data

\* A packet's bits are where the model has them: byte n from the right is in word
\* n \div 4 from the right, whatever the length.
ASSUME PackingAssumption ==
    \A length \in 0..21 :
        LET bytes == [i \in 1..length |-> i]
            words == GetBinaryData(bytes)
        IN  \A n \in 0 .. 4 * Len(words) - 1 :
                words[Len(words) - n \div 4][n % 4] = IF n < length THEN bytes[length - n] ELSE 0

-----------------------------------------------------------------------------
(* Deltas: the gaps between the positions of a set, from the right *)

Ascending(set) ==
    [i \in 1..Cardinality(set) |-> CHOOSE p \in set : Cardinality({q \in set : q <= p}) = i]

Deltas(set) ==
    LET s == Ascending(set)
    IN  [i \in DOMAIN s |-> IF i = 1 THEN s[1] ELSE s[i] - s[i - 1]]

\* The sums of the first 0, 1, ... entries.
Sums(s) == LET sum[i \in 0..Len(s)] == IF i = 0 THEN 0 ELSE sum[i - 1] + s[i] IN sum

\* The receiver's reading of deltas: they wrap around the packet.  A zero is not sent.
SetOf(deltas) ==
    {((Sums(deltas)[i] - 1) % Bits) + 1 : i \in {j \in DOMAIN deltas : deltas[j] # 0}}

\* The bits that a delta takes; numbers of up to 34 take 5.  The widest are out of small
\* instances.
Widths(delta) == CASE delta = 0 -> <<>> [] delta = 1 -> <<2>> [] OTHER -> <<2, 5>>

\* A field of deltas, closed by 00, or no field.
FieldWidths(deltas) ==
    IF \A i \in DOMAIN deltas : deltas[i] = 0 THEN <<>>
    ELSE FlattenSeq([i \in DOMAIN deltas |-> Widths(deltas[i])]) \o <<2>>

-----------------------------------------------------------------------------
(* writeToCompressedPacket *)

ByteOf(bits) == (bits - 1) \div 8        \* currentRegisterCompressedPacket

\* The bits written, after the three of the header; -1 for a write that goes on in the next
\* byte with fewer than three bytes left.
Written(widths) ==
    FoldLeft(LAMBDA at, width :
                 IF at = -1 \/ (ByteOf(at + width) > ByteOf(at) /\ ByteOf(at) >= Capacity - 3)
                 THEN -1 ELSE at + width,
             3, widths)

Fits(widths) == Written(widths) # -1

NpWidths(n) == [i \in 1 .. (n + 15) \div 16 |-> IF 16 * i <= n THEN 16 ELSE n % 16]

\* As with words of 32 bits, a packet that takes every bit into the mask fits in the buffer,
\* and is not smaller than the reference packet: the protection level falls.
ASSUME ProportionAssumption ==
    ByteOf(Written(FieldWidths(Deltas(Positions)) \o NpWidths(Bits))) >= PacketSize

-----------------------------------------------------------------------------
(* The mask *)

\* writeAnchorDeltas: each word of the mask, XOR itself shifted to the right.
Hxor(set) == {p \in Positions : (p \in set) # (p + 1 \in set /\ p % WordBits # 0)}

\* The receiver's inverse.
Unhxor(set) ==
    {p \in Positions :
        Cardinality({q \in set : q >= p /\ (q - 1) \div WordBits = (p - 1) \div WordBits}) % 2 = 1}

\* positiveLogic: the positions that have not varied since its last run leave the mask.
PositiveLogic == [mask |-> positive, positive |-> {}, changes |-> Xor(positive, mask)]

NegativeLogic(packet, m, pos) ==
    LET varied == Xor(packet, oldPacket)
    IN  [mask |-> m \union varied, positive |-> pos \union varied, changes |-> varied \ m]

-----------------------------------------------------------------------------
(* Protection: the changes of mask of the last packets *)

Min2(a, b) == IF a < b THEN a ELSE b

\* It rises while packets are compressed well, and falls, at most to 1, while not.
NewLevel ==
    IF sizeOld < PacketSize THEN Min2(protectionLevel + 1, start.level)
    ELSE IF sizeOld < 2 * PacketSize /\ protectionLevel > 1 THEN protectionLevel - 1
    ELSE IF sizeOld < 2 * PacketSize THEN protectionLevel ELSE 1

\* A packet is new: the deltas and their numbers move one place for it.
ShiftNumbers(n, level) ==
    [i \in DOMAIN n |-> IF i = 1 THEN 1 ELSE IF i <= level THEN n[i - 1] ELSE n[i]]
Shift(b) == [i \in DOMAIN b |-> IF i = 1 THEN 0 ELSE IF i <= Bits THEN b[i - 1] ELSE b[i]]

\* Wrong variant: the first delta of the packet before stays absolute.
WrappedNot(b, n, level, last) == b

\* The first delta of the packets before is counted from the last new one, and wraps around.
Wrapped(b, n, level, last) ==
    LET older == {i \in n + 1 .. n + level - 1 : b[i] # 0}
    IN  IF older = {} THEN b
        ELSE [i \in DOMAIN b |-> IF i # Min(older) THEN b[i]
                                  ELSE IF b[i] < last THEN b[i] + Bits - last ELSE b[i] - last]

\* The new changes go in front.  The packet whose deltas would be more than Bits is dropped;
\* the deltas of the packets before it stay where they are.
Insert(b, n, level, changes) ==
    LET new == Deltas(changes)
        count == IF changes = {} THEN 1 ELSE Len(new)
        n1 == [i \in DOMAIN n |-> IF i = 1 THEN count ELSE n[i]]
        upto == Sums(n1)
        over == {i \in 1..level : upto[i] > Bits}
        total == IF over = {} THEN upto[level] ELSE upto[Min(over) - 1]
        moved == [i \in DOMAIN b |->
                    IF i <= count THEN new[i]
                    ELSE IF i <= total THEN b[i - count + 1]
                    ELSE IF over # {} /\ i = total + 1 THEN 0
                    ELSE b[i]]
    IN  IF changes = {} THEN [buffer |-> b, numbers |-> n1, full |-> over # {}]
        ELSE [buffer |-> Wrapped(moved, count, level, Max(changes)), full |-> over # {},
              numbers |-> [i \in DOMAIN n |-> IF over # {} /\ i = Min(over) THEN 1 ELSE n1[i]]]

\* What is written: the deltas of the packets of the level.
History(h, level) == SubSeq(h.buffer, 1, Sums(h.numbers)[level])

-----------------------------------------------------------------------------
(* The receiver *)

\* The packet that it makes of one received: the mask, then the bits there.
Decode(anchor, changes, bits) ==
    LET known == IF anchor = <<>> THEN rmask ELSE Unhxor(SetOf(anchor))
        m == (known \ SetOf(changes["positive"])) \union SetOf(changes["negative"])
        places == Ascending(m)
    IN  [mask |-> m,
         packet |-> (rpacket \ m) \union {places[i] : i \in {j \in DOMAIN bits : bits[j]} \cap DOMAIN places}]

Receive(anchor, changes, bits, level) ==
    LET result == Decode(anchor, changes, bits)
    IN  /\ rmask' = result.mask /\ rpacket' = result.packet
        /\ missed' = 0 /\ lost' = (lost \/ missed >= level \/ crowded')
        /\ anchored' = (anchor # <<>> /\ ~crowded')

Miss == missed' = missed + 1 /\ anchored' = FALSE /\ UNCHANGED <<rmask, rpacket, lost>>

-----------------------------------------------------------------------------
(* startPocket and compressPacket *)

Init ==
    /\ start \in {s \in [level : Levels, rate : Rates, anchor : Anchors] : s.level <= s.rate}
    /\ mask = {} /\ positive = {} /\ oldPacket = {}
    /\ buffer = [k \in Kinds |-> [i \in 1..Room |-> 0]]
    /\ numbers = [k \in Kinds |-> [i \in 1..start.level |-> 1]]
    /\ protectionLevel = 0 /\ sizeOld = 0
    /\ positiveCounter = start.rate /\ anchorCounter = start.anchor
    /\ rmask = {} /\ rpacket = {} /\ missed = 0 /\ lost = FALSE /\ anchored = FALSE
    /\ crowded = FALSE /\ sent = 0

\* Crowded histories stay so until a packet comes with its own changes only.
Histories(positives, negatives, level) ==
    /\ crowded' = (positives.full \/ negatives.full \/ (crowded /\ level > 1))
    /\ buffer' = [positive |-> positives.buffer, negative |-> negatives.buffer]
    /\ numbers' = [positive |-> positives.numbers, negative |-> negatives.numbers]

\* compressPacket returns -1 where the next write does not fit, with what it has done until
\* then.  A packet that it does compress reaches the receiver or does not.
CompressPacket(packet, received) ==
    LET anchorDue == start.anchor > 0 /\ anchorCounter = 0
        anchor == IF anchorDue THEN Deltas(Hxor(mask)) ELSE <<>>
        updateDue == positiveCounter = 0
        level == NewLevel
        After(k, changes) == Insert(Shift(buffer[k]), ShiftNumbers(numbers[k], level), level, changes)
        kept == [mask |-> mask, positive |-> positive, changes |-> {}]
        up == IF updateDue THEN PositiveLogic ELSE kept
        down == NegativeLogic(packet, up.mask, up.positive)
        positives == After("positive", up.changes)
        negatives == After("negative", down.changes)
        changes == [positive |-> History(positives, level), negative |-> History(negatives, level)]
        places == Ascending(down.mask)
        withAnchor == FieldWidths(anchor)
        withPositives == withAnchor \o FieldWidths(changes.positive)
        all == withPositives \o FieldWidths(changes.negative) \o NpWidths(Len(places))
        anchorLeft == IF anchorDue THEN start.anchor ELSE anchorCounter
        positiveLeft == IF updateDue THEN start.rate ELSE positiveCounter
    IN  /\ sent < MaxPackets /\ sent' = sent + 1 /\ UNCHANGED start
        /\ \/ /\ ~Fits(withAnchor) /\ Miss /\ anchorCounter' = anchorLeft
              /\ UNCHANGED <<mask, positive, oldPacket, buffer, numbers, protectionLevel,
                             positiveCounter, sizeOld, crowded>>
           \/ /\ updateDue /\ Fits(withAnchor) /\ ~Fits(withPositives) /\ Miss
              /\ mask' = up.mask /\ positive' = up.positive
              /\ Histories(positives, After("negative", {}), level) /\ protectionLevel' = level
              /\ positiveCounter' = positiveLeft /\ anchorCounter' = anchorLeft
              /\ UNCHANGED <<oldPacket, sizeOld>>
           \/ /\ Fits(withAnchor) /\ (updateDue => Fits(withPositives))
              /\ mask' = down.mask /\ positive' = down.positive /\ oldPacket' = packet
              /\ Histories(positives, negatives, level) /\ protectionLevel' = level
              /\ \/ /\ ~Fits(all) /\ Miss
                    /\ positiveCounter' = positiveLeft /\ anchorCounter' = anchorLeft
                    /\ UNCHANGED sizeOld
                 \/ /\ Fits(all)
                    /\ positiveCounter' = positiveLeft - 1
                    /\ anchorCounter' = IF start.anchor > 0 THEN anchorLeft - 1 ELSE anchorLeft
                    /\ sizeOld' = ByteOf(Written(all))
                    /\ IF received
                       THEN Receive(anchor, changes, [i \in DOMAIN places |-> places[i] \in packet], level)
                       ELSE Miss

Next == \E packet \in Packets, received \in BOOLEAN : CompressPacket(packet, received)

Spec == Init /\ [][Next]_vars

-----------------------------------------------------------------------------
(* Properties *)

\* After a packet that it receives, the receiver has that packet and the mask of the encoder,
\* as long as it never missed as many packets in a row as the protection level; a packet that
\* compressPacket could not compress counts as missed, although it changed the encoder.  A
\* packet with the mask in it gives the receiver that mask, whatever it missed.  Both except
\* packets written with a crowded history, in which changes are missing or stale.
InStep == /\ missed = 0 /\ ~lost => rmask = mask /\ rpacket = oldPacket
          /\ anchored => rmask = mask

\* A receiver that has missed nothing does not need the repeated changes: what is removed from a
\* crowded history ("remove the oldest protection level", getMaskChanges) is nothing to it.
NeedsNoHistory == [][missed = 0 /\ ~lost /\ missed' = 0 => rmask' = mask']_vars

=============================================================================
