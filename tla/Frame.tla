-------------------------------- MODULE Frame --------------------------------
(***************************************************************************)
(* Air frames (frame.c, auth.c): a header of five bytes, a payload and a   *)
(* tag of eight bytes, the HMAC of both.  The HMAC is taken to be ideal:   *)
(* equal for equal inputs only, so it is the record of what it is made     *)
(* from.  A frame received has the header, size and content it came with,  *)
(* which need not agree.                                                   *)
(***************************************************************************)
EXTENDS Naturals, Sequences

AirFrameHdr == 5         \* AIR_FRAME_HDR
AuthTagLen == 8          \* AUTH_TAG_LEN
AirPayloadMaxAuth == 242 \* AIR_PAYLOAD_MAX_AUTH
ProtocolVer == 2         \* AIR_PROTOCOL_VER

Flags == {"REQUIRES_ACK", "IS_RETX", "URGENT", "AUTH_TAG"}

Byte(n) == n % 256       \* (uint8_t)

NoFrame == [size |-> 0]

-----------------------------------------------------------------------------
(* Authentication *)

Hmac(header, payload) == [header |-> header, payload |-> payload]

\* Wrong variant: the tag covers the flag that a retransmission adds.
AuthTagOfAll(header, payload) == Hmac(header, payload)

AuthTag(header, payload) ==
    Hmac([header EXCEPT !.flags = @ \ {"IS_RETX"}], payload)

AuthVerify(header, payload, tag) == tag = AuthTag(header, payload)

-----------------------------------------------------------------------------
(* Encoding *)

\* air_encode; the length of a frame is one byte.
AirEncode(type, flags, seq, payload) ==
    LET header == [ver |-> ProtocolVer, type |-> type, flags |-> flags \union {"AUTH_TAG"},
                   seq |-> seq, len |-> Len(payload)]
    IN  IF Len(payload) > AirPayloadMaxAuth THEN NoFrame
        ELSE [header |-> header, payload |-> payload, tag |-> AuthTag(header, payload),
              size |-> Byte(Byte(AirFrameHdr + Len(payload)) + AuthTagLen)]

AirEncodeAck(seq, refType, refSeq) == AirEncode("ACK", {}, seq, <<refType, refSeq, 0>>)
AirEncodeNack(seq, refType, refSeq, reason) ==
    AirEncode("NACK", {}, seq, <<refType, refSeq, reason>>)

\* saw_send and arq_saw_frame: the flag is added to the frame already encoded.
MarkRetx(frame) == [frame EXCEPT !.header.flags = @ \union {"IS_RETX"}]

-----------------------------------------------------------------------------
(* Decoding *)

Rejected == [type |-> "none"]

\* The length that the header gives must be there, modulo 256.
DecodeRaw(frame) ==
    /\ frame.size >= AirFrameHdr
    /\ frame.header.ver = ProtocolVer
    /\ Byte(AirFrameHdr + frame.header.len) <= frame.size

\* The payload and the tag are where the length says; elsewhere are other bytes.
AirDecode(frame) ==
    IF /\ DecodeRaw(frame)
       /\ "AUTH_TAG" \in frame.header.flags
       /\ Byte(Byte(AirFrameHdr + frame.header.len) + AuthTagLen) <= frame.size
       /\ frame.header.len = Len(frame.payload)
       /\ AuthVerify(frame.header, frame.payload, frame.tag)
    THEN [type |-> frame.header.type, flags |-> frame.header.flags, seq |-> frame.header.seq,
          payload |-> frame.payload]
    ELSE Rejected

=============================================================================
