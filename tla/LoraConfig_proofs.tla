-------------------------- MODULE LoraConfig_proofs --------------------------
(***************************************************************************)
(* Proofs about LoraConfig.  s_state works as a token: COMMS holds it      *)
(* while it is IDLE and COMMS is past its check, TRANSCEIVER while it is   *)
(* not IDLE.  From who holds it follows which of the slots is whole.       *)
(***************************************************************************)
EXTENDS LoraConfig, TLAPS

Accepted == {c \in asked : c.link \notin Invalid}
Whole == {BootConfig} \union Accepted

\* Who may touch the candidate.
Turn ==
    /\ comms \in {"write", "writing", "publish"} => slot = "IDLE"
    /\ trx \in {"copy", "apply"} => slot = "PENDING_COMMIT"

\* What COMMS has in hand, and how far the candidate agrees with it.
Request ==
    /\ comms = "check" => request \in asked
    /\ comms \in {"write", "writing", "publish"} => request \in Accepted
    /\ comms = "writing" => candidate.link = request.link
    /\ comms = "publish" => candidate = request

\* Which slots are whole.
Slots ==
    /\ slot = "PENDING_COMMIT" => candidate \in Accepted
    /\ previous \in Whole
    /\ trx \in {"wait", "tx"} => committed \in Whole
    /\ trx = "copy" => committed.link = candidate.link
    /\ trx = "apply" => committed = candidate

\* A link the ground station was heard on, a default, or one it asked to keep.
Settled(c) == c.link \in heard \union {BootConfig.link, TransceiverDefault} \/ c.grace = 0

\* The radio follows the committed slot, but for the boot configuration.
Radio ==
    trx \in {"wait", "tx"} =>
        radio = committed.link \/ (committed = BootConfig /\ radio = TransceiverDefault)

\* What a revert would return to is settled.
Fallback ==
    trx # "start" =>
        /\ trx \in {"copy", "apply"} \/ slot = "PENDING_REVERT" => Settled(previous)
        /\ trx \in {"wait", "tx"} /\ slot # "PENDING_REVERT" => Settled(committed)

IInv == TypeOK /\ Turn /\ Request /\ Slots /\ Radio /\ Fallback

-----------------------------------------------------------------------------
(* Types *)

LEMMA BootTypes == BootConfig \in Configs /\ TransceiverDefault \in AllLinks
  BY BoundsAssumption DEF BootConfig, Configs, AllLinks

LEMMA InitTypeOK == Init => TypeOK
<1> SUFFICES ASSUME Init PROVE TypeOK
  OBVIOUS
<1>1. rxq \in Seq(Offered) /\ Len(rxq) <= QueueLength
  BY DEF Init, QueueLength
<1>2. /\ committed \in Configs /\ candidate \in Configs /\ previous \in Configs
      /\ request \in Configs /\ radio \in AllLinks
  BY BootTypes DEF Init
<1>3. /\ sampled \in 0..MaxTime /\ now \in 0..MaxTime /\ sent \in 0..MaxSent
      /\ clockSets \in 0..MaxClockSets /\ resets \in 0..MaxResets /\ deadline \in Nat
  BY BoundsAssumption DEF Init
<1>4. /\ slot \in {"IDLE", "PENDING_COMMIT", "PENDING_REVERT"}
      /\ comms \in {"idle", "check", "write", "writing", "publish"}
      /\ deaf \in BOOLEAN /\ trx \in {"start", "wait", "tx", "copy", "apply"}
      /\ asked \subseteq Offered /\ heard \subseteq AllLinks
  BY DEF Init
<1> QED
  BY <1>1, <1>2, <1>3, <1>4 DEF TypeOK

\* Whatever the ground station offers is a configuration.
LEMMA OfferedTypes == Offered \subseteq Configs
  BY OfferedAssumption DEF Configs, AllLinks

\* Forward keeps the queue a bounded sequence of offered configurations.
LEMMA ForwardTypes ==
    ASSUME TypeOK, NEW c \in Offered, Forward(c)
    PROVE  rxq' \in Seq(Offered) /\ Len(rxq') <= QueueLength
<1>1. rxq \in Seq(Offered) /\ Len(rxq) \in Nat /\ Len(rxq) <= 2
  BY DEF TypeOK, QueueLength
<1>2. CASE deaf \/ Len(rxq) = QueueLength
  BY <1>1, <1>2 DEF Forward, QueueLength
<1>3. CASE ~(deaf \/ Len(rxq) = QueueLength)
  <2>1. rxq' = Append(rxq, c)
    BY <1>3 DEF Forward
  <2>2. Append(rxq, c) \in Seq(Offered) /\ Len(Append(rxq, c)) = Len(rxq) + 1
    BY <1>1
  <2>3. Len(rxq) # 2
    BY <1>3 DEF QueueLength
  <2>4. \A n \in Nat : n <= 2 /\ n # 2 => n + 1 <= 2
    OBVIOUS
  <2>5. Len(rxq) + 1 <= QueueLength
    BY <1>1, <2>3, <2>4 DEF QueueLength
  <2> QED
    BY <2>1, <2>2, <2>5
<1> QED
  BY <1>2, <1>3

LEMMA CommsTypes == TypeOK /\ Comms => TypeOK'
<1> SUFFICES ASSUME TypeOK, Comms PROVE TypeOK'
  OBVIOUS
<1>1. CASE CommsTake
  <2>1. /\ Head(rxq) \in Offered /\ Tail(rxq) \in Seq(Offered)
        /\ Len(Tail(rxq)) <= QueueLength
    BY <1>1 DEF CommsTake, TypeOK, QueueLength
  <2> QED
    BY <1>1, <2>1, OfferedTypes DEF CommsTake, TypeOK, slots
<1>2. CASE CommsCheck
  BY <1>2 DEF CommsCheck, TypeOK, slots, environment
<1>3. CASE CommsWriteLink
  BY <1>3 DEF CommsWriteLink, TypeOK, environment, Configs
<1>4. CASE CommsWriteTimes
  BY <1>4 DEF CommsWriteTimes, TypeOK, environment, Configs
<1>5. CASE CommsPublish
  BY <1>5 DEF CommsPublish, TypeOK, environment
<1>6. CASE CommsSetClock
  BY <1>6, BoundsAssumption DEF CommsSetClock, TypeOK, slots, tasks
<1> QED
  BY <1>1, <1>2, <1>3, <1>4, <1>5, <1>6 DEF Comms

LEMMA TransceiverTypes == TypeOK /\ Transceiver => TypeOK'
<1> SUFFICES ASSUME TypeOK, Transceiver PROVE TypeOK'
  OBVIOUS
<1>1. CASE ReceiveFrame
  <2>1. rxq' \in Seq(Offered) /\ Len(rxq') <= QueueLength
    BY <1>1, ForwardTypes DEF ReceiveFrame, TypeOK
  <2> QED
    BY <1>1, <2>1, BoundsAssumption DEF ReceiveFrame, Disarm, TypeOK
<1>2. CASE ReceiveInExchange
  <2>1. rxq' \in Seq(Offered) /\ Len(rxq') <= QueueLength
    BY <1>2, ForwardTypes DEF ReceiveInExchange, TypeOK
  <2> QED
    BY <1>2, <2>1, BoundsAssumption DEF ReceiveInExchange, slots, TypeOK
<1>3. CASE TickIdle
  BY <1>3 DEF TickIdle, TypeOK, slots, environment
<1>4. CASE TickCommit
  BY <1>4 DEF TickCommit, TypeOK, environment, Configs
<1>5. CASE TickCopyTimes
  BY <1>5 DEF TickCopyTimes, TypeOK, environment, Configs
<1>6. CASE TickApply
  <2>1. committed.link \in AllLinks /\ sampled + committed.grace \in Nat /\ 0 \in 0..MaxTime
    BY BoundsAssumption DEF TypeOK, Configs
  <2> QED
    BY <1>6, <2>1 DEF TickApply, TypeOK, environment
<1>7. CASE TickRevert
  BY <1>7 DEF TickRevert, TypeOK, environment, Configs
<1>8. CASE TransceiverStart
  BY <1>8, BootTypes DEF TransceiverStart, TypeOK, environment
<1> QED
  BY <1>1, <1>2, <1>3, <1>4, <1>5, <1>6, <1>7, <1>8 DEF Transceiver, Tick

LEMMA EnvironmentTypes ==
    TypeOK /\ (ResetTransceiver \/ ResetComms \/ Second \/ UNCHANGED vars) => TypeOK'
<1> SUFFICES ASSUME TypeOK, ResetTransceiver \/ ResetComms \/ Second \/ UNCHANGED vars
             PROVE  TypeOK'
  OBVIOUS
<1>1. CASE ResetTransceiver
  BY <1>1, BoundsAssumption DEF ResetTransceiver, TypeOK, slots
<1>2. CASE ResetComms
  <2>1. <<>> \in Seq(Offered) /\ Len(<<>>) <= QueueLength
    BY DEF QueueLength
  <2> QED
    BY <1>2, <2>1, BoundsAssumption DEF ResetComms, TypeOK, slots
<1>3. CASE Second
  BY <1>3, BoundsAssumption DEF Second, TypeOK, slots, tasks
<1>4. CASE UNCHANGED vars
  BY <1>4 DEF vars, slots, tasks, environment, TypeOK
<1> QED
  BY <1>1, <1>2, <1>3, <1>4

-----------------------------------------------------------------------------
(* The token and the slots *)

Structure == Turn /\ Request /\ Slots

LEMMA CommsStructure == TypeOK /\ Structure /\ Comms => Structure'
<1> SUFFICES ASSUME TypeOK, Structure, Comms PROVE Structure'
  OBVIOUS
<1> USE DEF Structure, Turn, Request, Slots, Accepted, Whole
<1>1. CASE CommsTake
  <2>1. asked \subseteq asked' /\ request' \in asked'
    BY <1>1 DEF CommsTake
  <2> QED
    BY <1>1, <2>1 DEF CommsTake, slots
<1>2. CASE CommsCheck
  BY <1>2 DEF CommsCheck, slots, environment
<1>3. CASE CommsWriteLink
  BY <1>3 DEF CommsWriteLink, environment, TypeOK, Configs
<1>4. CASE CommsWriteTimes
  <2>1. candidate' = request
    BY <1>4 DEF CommsWriteTimes, TypeOK, Configs
  <2> QED
    BY <1>4, <2>1 DEF CommsWriteTimes, environment
<1>5. CASE CommsPublish
  BY <1>5 DEF CommsPublish, environment
<1>6. CASE CommsSetClock
  BY <1>6 DEF CommsSetClock, slots, tasks
<1> QED
  BY <1>1, <1>2, <1>3, <1>4, <1>5, <1>6 DEF Comms

LEMMA TransceiverStructure == TypeOK /\ Structure /\ Transceiver => Structure'
<1> SUFFICES ASSUME TypeOK, Structure, Transceiver PROVE Structure'
  OBVIOUS
<1> USE DEF Structure, Turn, Request, Slots, Accepted, Whole
<1>1. CASE ReceiveFrame
  BY <1>1 DEF ReceiveFrame, Disarm
<1>2. CASE ReceiveInExchange
  BY <1>2 DEF ReceiveInExchange, slots
<1>3. CASE TickIdle
  BY <1>3 DEF TickIdle, slots, environment
<1>4. CASE TickCommit
  BY <1>4 DEF TickCommit, environment, TypeOK, Configs
<1>5. CASE TickCopyTimes
  <2>1. committed' = candidate
    BY <1>5 DEF TickCopyTimes, TypeOK, Configs
  <2> QED
    BY <1>5, <2>1 DEF TickCopyTimes, environment
<1>6. CASE TickApply
  BY <1>6 DEF TickApply, environment
<1>7. CASE TickRevert
  BY <1>7 DEF TickRevert, environment
<1>8. CASE TransceiverStart
  BY <1>8 DEF TransceiverStart, environment
<1> QED
  BY <1>1, <1>2, <1>3, <1>4, <1>5, <1>6, <1>7, <1>8 DEF Transceiver, Tick

LEMMA EnvironmentStructure ==
    Structure /\ (ResetTransceiver \/ ResetComms \/ Second \/ UNCHANGED vars) => Structure'
  BY DEF Structure, Turn, Request, Slots, Accepted, Whole, ResetTransceiver, ResetComms, Second,
         vars, slots, tasks, environment

-----------------------------------------------------------------------------
(* The link *)

Link == Radio /\ Fallback

LEMMA CommsLink == Link /\ Turn /\ Comms => Link'
  BY DEF Link, Turn, Radio, Fallback, Settled, Comms, CommsTake, CommsCheck, CommsWriteLink,
         CommsWriteTimes, CommsPublish, CommsSetClock, slots, tasks, environment

LEMMA TransceiverLink == TypeOK /\ Turn /\ Slots /\ Link /\ Transceiver => Link'
<1> SUFFICES ASSUME TypeOK, Turn, Slots, Link, Transceiver PROVE Link'
  OBVIOUS
<1> USE DEF Link, Turn, Slots, Radio, Fallback, Settled
<1>1. CASE ReceiveFrame
  <2>1. heard' = heard \union {radio} /\ committed' = committed /\ previous' = previous
        /\ radio' = radio /\ trx = "wait" /\ trx' = "tx"
    BY <1>1 DEF ReceiveFrame
  <2>2. committed.link \in heard' \union {BootConfig.link, TransceiverDefault}
    BY <2>1
  <2>3. slot' # "PENDING_REVERT"
    BY <1>1 DEF ReceiveFrame, Disarm
  <2> QED
    BY <2>1, <2>2, <2>3
<1>2. CASE ReceiveInExchange
  BY <1>2 DEF ReceiveInExchange, slots
<1>3. CASE TickIdle
  BY <1>3 DEF TickIdle, slots, environment
<1>4. CASE TickCommit
  BY <1>4 DEF TickCommit, environment
<1>5. CASE TickCopyTimes
  BY <1>5 DEF TickCopyTimes, environment
<1>6. CASE TickApply
  <2>1. committed \in Configs
    BY DEF TypeOK
  <2>2. committed.grace > 0 \/ committed.grace = 0
    BY <2>1 DEF Configs
  <2>3. /\ committed' = committed /\ previous' = previous /\ heard' = heard
        /\ radio' = committed.link /\ trx' = "wait" /\ trx = "apply"
    BY <1>6 DEF TickApply, environment
  <2>4. slot' = "PENDING_REVERT" \/ committed.grace = 0
    BY <1>6, <2>2 DEF TickApply
  <2>5. Settled(previous)
    BY <2>3
  <2> QED
    BY <2>3, <2>4, <2>5
<1>7. CASE TickRevert
  <2>1. /\ committed' = previous /\ previous' = committed /\ heard' = heard
        /\ radio' = previous.link /\ trx' = "wait" /\ slot' = "IDLE"
    BY <1>7 DEF TickRevert, environment
  <2>2. Settled(previous)
    BY <1>7 DEF TickRevert
  <2> QED
    BY <2>1, <2>2
<1>8. CASE TransceiverStart
  BY <1>8 DEF TransceiverStart, environment
<1> QED
  BY <1>1, <1>2, <1>3, <1>4, <1>5, <1>6, <1>7, <1>8 DEF Transceiver, Tick

LEMMA EnvironmentLink ==
    Link /\ (ResetTransceiver \/ ResetComms \/ Second \/ UNCHANGED vars) => Link'
  BY DEF Link, Radio, Fallback, Settled, ResetTransceiver, ResetComms, Second,
         vars, slots, tasks, environment

-----------------------------------------------------------------------------
(* The theorems *)

\* The inductive invariant.
THEOREM Invariance == Spec => []IInv
<1>1. Init => IInv
  <2>1. Init => Turn /\ Request /\ Slots /\ Radio /\ Fallback
    BY DEF Init, Turn, Request, Slots, Radio, Fallback, Settled, Whole, BootConfig,
           TransceiverDefault
  <2> QED
    BY <2>1, InitTypeOK DEF IInv
<1>2. IInv /\ [Next]_vars => IInv'
  <2> SUFFICES ASSUME IInv, [Next]_vars PROVE IInv'
    OBVIOUS
  <2>1. TypeOK'
    BY CommsTypes, TransceiverTypes, EnvironmentTypes DEF IInv, Next
  <2>2. Structure'
    BY CommsStructure, TransceiverStructure, EnvironmentStructure DEF IInv, Next, Structure
  <2>3. Link'
    BY CommsLink, TransceiverLink, EnvironmentLink DEF IInv, Next, Link
  <2> QED
    BY <2>1, <2>2, <2>3 DEF IInv, Structure, Link
<1> QED
  BY <1>1, <1>2, PTL DEF Spec

\* Type correctness of the link configuration.
THEOREM TypeCorrect == Spec => []TypeOK
<1>1. IInv => TypeOK
  BY DEF IInv
<1> QED
  BY <1>1, Invariance, PTL

\* lora_cfg.c needs no lock: a configuration is committed whole or not at all.
THEOREM CommitsWhole == Spec => []NoTornCommit
<1>1. IInv => NoTornCommit
  BY DEF IInv, Slots, Turn, NoTornCommit, Whole, Accepted, TypeOK
<1> QED
  BY <1>1, Invariance, PTL

\* On a link the ground station is not heard on the satellite does not stay.
THEOREM LinkSettles == Spec => []UnheardLinkIsTemporary
<1>1. IInv => UnheardLinkIsTemporary
  BY DEF IInv, Radio, Fallback, Settled, UnheardLinkIsTemporary, TypeOK
<1> QED
  BY <1>1, Invariance, PTL

=============================================================================
