---------------------------- MODULE MCCompression ----------------------------
(* Packets in a given order: a history with more changes than its buffer holds. *)
EXTENDS Compression

\* Packets of one word of 32 bits: the same until the level is 8; bits that vary; one that varies for the first time while the
\* history is full.
Calm == [i \in 1..8 |-> {}]
Busy == [i \in 1..3 |-> {1, 18} \union 3..16]
Script == Calm \o Busy \o <<(1..32) \ {2}>>

ScriptPackets == {Script[i] : i \in DOMAIN Script}

ScriptSpec == Init /\ [][\E received \in BOOLEAN : CompressPacket(Script[sent + 1], received)]_vars

=============================================================================
