---------------------------- MODULE MCLoraConfig ----------------------------
(***************************************************************************)
(* The configurations the ground station sends in the runs of LoraConfig:  *)
(* at once and scheduled, with a revert timer and without, and one that    *)
(* validate() rejects.  The run also evaluates the assumptions of          *)
(* Telemetry, on the bytes of configurations and reports.                  *)
(***************************************************************************)
EXTENDS LoraConfig, Telemetry

AtOnce == [link |-> "SF9", commitAt |-> 0, grace |-> 1]
Scheduled == [link |-> "SF7", commitAt |-> 1, grace |-> 1]
Final == [link |-> "SF7", commitAt |-> 0, grace |-> 0]
Rejected == [link |-> "SF13", commitAt |-> 0, grace |-> 1]

EveryKind == {AtOnce, Scheduled, Final, Rejected}
OnlyAtOnce == {AtOnce}

=============================================================================
