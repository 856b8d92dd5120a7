------------------------------- MODULE MCRadio ------------------------------
(* The links and the frames of the run of BlockingReceive. *)
EXTENDS BlockingReceive

\* The link of lora_cfg_init, one whose preamble is too short for a duty cycle, and one
\* on which a frame takes longer than the wait for it, and the driver refuses to listen.
Boot == [sf |-> 10, bw |-> 0, cr |-> 1, preamble |-> 64, crc |-> 1]
ThreeLinks == {Boot, [Boot EXCEPT !.preamble = 8], [Boot EXCEPT !.sf = 12, !.preamble = 8100]}

BeaconAndReport == <<FALSE, TRUE>>

=============================================================================
