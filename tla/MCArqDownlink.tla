---------------------------- MODULE MCArqDownlink ----------------------------
(***************************************************************************)
(* The downloads of the runs of ArqDownlink, with a window of two blocks   *)
(* and a bitmap of two, so that a file takes several windows and a         *)
(* DATA_ACK asks for blocks beyond the window.                             *)
(***************************************************************************)
EXTENDS ArqDownlink

OneFile == <<[sid |-> 1, total |-> 3]>>
TwoFiles == <<[sid |-> 1, total |-> 3], [sid |-> 2, total |-> 2]>>

=============================================================================
