----------------------------- MODULE TimeUpload -----------------------------
(***************************************************************************)
(* The ground station sets the wall clock by a telecommand and is told the *)
(* time in telemetry: WallClock behind the frames of Frame and the bytes   *)
(* that tc_process and enqueue_tm put time in.  A command is sent again    *)
(* until the retransmissions are used up; on the air a frame may be lost,  *)
(* cut off, or changed in any one field.                                   *)
(***************************************************************************)
EXTENDS WallClock, Frame

CONSTANTS MaxRetx,    \* of the ground station
          MaxCommands, MaxReports, MaxHarms \* bounds: commands, telemetry, frames lost,
                                            \* cut or changed

ASSUME LinkAssumption ==
    MaxRetx \in Nat /\ MaxCommands \in Nat /\ MaxReports \in Nat /\ MaxHarms \in Nat

VARIABLES
    command,   \* the frame the ground station sends, NoFrame if none
    attempt,
    up, down,  \* the frame on the air, from and to the ground station
    rxq,       \* the payload TRANSCEIVER passed to COMMS, <<>> if none
    outcome,   \* history: an unharmed frame was "refused", or one not sent accepted: "forged"
    reports, harms, upSeq

link == <<command, attempt, up, down, rxq, outcome, reports, harms, upSeq>>
all == <<rtcVars, link>>

-----------------------------------------------------------------------------
(* Bytes *)

\* enqueue_tm, and the ground station
ToBytes(n) ==
    <<Byte(n \div 16777216), Byte(n \div 65536), Byte(n \div 256), Byte(n)>>

\* tc_process, and the ground station
FromBytes(b) == b[1] * 16777216 + b[2] * 65536 + b[3] * 256 + b[4]

\* Time up to the end of LastYear is a uint32_t.
ASSUME WordAssumption ==
    (Epoch2000 + DaysToYear[LastYear + 1] * SecsPerDay) \div 16777216 < 256

UploadUnixTime == 10   \* TC_UPLOAD_UNIX_TIME
HkLive == 1            \* TM_HK_LIVE

TimeCommand(epoch) == <<1, UploadUnixTime>> \o ToBytes(epoch)
TimeReport(epoch) == <<1, HkLive>> \o ToBytes(epoch) \o <<UploadUnixTime, upSeq>>

-----------------------------------------------------------------------------

TInit ==
    /\ RtcInit
    /\ command = NoFrame /\ attempt = 0 /\ up = NoFrame /\ down = NoFrame
    /\ rxq = <<>> /\ outcome = "none" /\ reports = 0 /\ harms = 0 /\ upSeq = 0

\* The ground station encodes as air_encode does; its bytes are those tc_process expects.
GroundCommand ==
    /\ command = NoFrame /\ rxq = <<>> /\ upSeq < MaxCommands
    /\ \E epoch \in Epochs :
           command' = AirEncode("TC", {"REQUIRES_ACK"}, upSeq, TimeCommand(epoch))
    /\ up' = command' /\ attempt' = 0
    /\ UNCHANGED <<rtcVars, down, rxq, outcome, reports, harms, upSeq>>

GroundRetransmit ==
    /\ command # NoFrame /\ up = NoFrame /\ rxq = <<>> /\ attempt < MaxRetx
    /\ attempt' = attempt + 1 /\ up' = MarkRetx(command)
    /\ UNCHANGED <<rtcVars, command, down, rxq, outcome, reports, harms, upSeq>>

\* What the air may do to a frame: another byte anywhere, or an end too early.
Harmed(f) ==
    {[f EXCEPT !.header.ver = 1], [f EXCEPT !.header.type = "TM"],
     [f EXCEPT !.header.seq = Byte(f.header.seq + 1)],
     [f EXCEPT !.payload[3] = Byte(@ + 1)], [f EXCEPT !.tag = Rejected]}
    \union {[f EXCEPT !.header.flags = fs] : fs \in {{}, {"AUTH_TAG"}}}
    \union {[f EXCEPT !.header.len = n] : n \in {0, 5, 7, 242, 251, 255} \ {f.header.len}}
    \union {[f EXCEPT !.size = n] : n \in {1, 5, f.size - 1}}

\* TRANSCEIVER decodes what arrives, drops it in silence or passes it on and acknowledges it.
Receive(frame) ==
    /\ up' = NoFrame
    /\ LET f == AirDecode(frame)
           Untouched(g) == [g EXCEPT !.flags = @ \ {"IS_RETX"}]
       IN  IF f = Rejected
           THEN outcome' = (IF frame = up THEN "refused" ELSE "none") /\ UNCHANGED <<command, rxq, upSeq>>
           ELSE /\ outcome' = IF Untouched(f) = Untouched(AirDecode(command)) THEN "none" ELSE "forged"
                /\ rxq' = f.payload /\ command' = NoFrame /\ upSeq' = Byte(upSeq + 1)
    /\ UNCHANGED <<rtcVars, attempt, down, reports>>

Arrive == up # NoFrame /\ Receive(up) /\ UNCHANGED harms

Harm ==
    /\ up # NoFrame /\ harms < MaxHarms /\ harms' = harms + 1
    /\ \E f \in Harmed(up) : Receive(f)

Fade ==
    /\ up # NoFrame /\ harms < MaxHarms /\ harms' = harms + 1 /\ up' = NoFrame
    /\ UNCHANGED <<rtcVars, command, attempt, down, rxq, outcome, reports, upSeq>>

\* The ground station gives up.
GroundGiveUp ==
    /\ command # NoFrame /\ up = NoFrame /\ rxq = <<>> /\ attempt = MaxRetx
    /\ command' = NoFrame /\ upSeq' = Byte(upSeq + 1)
    /\ UNCHANGED <<rtcVars, attempt, up, down, rxq, outcome, reports, harms>>

\* tc_process, of a payload of six bytes
Process(t) ==
    /\ Len(rxq) >= 6 /\ rxq[2] = UploadUnixTime /\ rxq' = <<>>
    /\ Set(t, FromBytes(SubSeq(rxq, 3, 6)))
    /\ UNCHANGED <<command, attempt, up, down, outcome, reports, harms, upSeq>>

\* enqueue_tm, of a task that has read the time, and the exchange of the frame
Report(t) ==
    /\ reports < MaxReports /\ reports' = reports + 1
    /\ down' = AirEncode("TM", {"REQUIRES_ACK"}, reports, TimeReport(local[t]))
    /\ pc[t] = "got" /\ UNCHANGED rtcVars
    /\ UNCHANGED <<command, attempt, up, rxq, outcome, harms, upSeq>>

\* The task goes on once its frame, if there is one, is on its way.
Done(t) == Return(t) /\ down' = NoFrame
           /\ UNCHANGED <<command, attempt, up, rxq, outcome, reports, harms, upSeq>>

ClockStep(t) ==
    /\ Get(t) \/ GetTime(t) \/ GetDate(t) \/ SetTime(t) \/ SetDate(t) \/ Delete(t) \/ Create(t)
    /\ down = NoFrame
    /\ UNCHANGED link

TNext ==
    \/ Tick /\ UNCHANGED link
    \/ GroundCommand \/ GroundRetransmit \/ Arrive \/ Harm \/ Fade \/ GroundGiveUp
    \/ \E t \in Setters : Process(t)
    \/ \E t \in Readers : Report(t) \/ Done(t)
    \/ \E t \in Tasks : ClockStep(t)

TSpec == TInit /\ [][TNext]_all

-----------------------------------------------------------------------------
(* Properties *)

\* A frame as it was sent is accepted, the first time and as a retransmission, and a frame
\* that is accepted has the type, sequence number, flags and payload that were sent.  The time
\* in telemetry is the time last set plus the seconds that had passed when the task read the
\* clock, byte for byte, unless midnight came in the middle of a set.
OnlyWhatWasSent ==
    /\ outcome \notin {"refused", "forged"}
    /\ down # NoFrame =>
           /\ AirDecode(down) # Rejected
           /\ \E t \in Readers : /\ pc[t] = "got"
                                 /\ known[t] \in {FromBytes(SubSeq(down.payload, 3, 6)), Unknown}

=============================================================================
