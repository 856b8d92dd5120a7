----------------------------- MODULE MCArqUplink -----------------------------
(***************************************************************************)
(* The uploads of the runs of ArqUplink, each sent in one window, with a   *)
(* buffer of 4 blocks and 3 from the TLE to the calibration: a file that   *)
(* keeps to either place, one too long for the first, one too large for    *)
(* the buffer, and a calibration.                                          *)
(***************************************************************************)
EXTENDS ArqUplink

Short == [type |-> "TLE", sid |-> 1, total |-> 3, window |-> 3]
Long == [type |-> "TLE", sid |-> 2, total |-> 4, window |-> 4]
Oversize == [type |-> "TLE", sid |-> 3, total |-> 5, window |-> 5]
Calibration == [type |-> "CALIBRATION", sid |-> 4, total |-> 3, window |-> 3]

FourFiles == <<Short, Calibration, Long, Oversize>>
TwoFiles == <<Long, Calibration>>
OneFile == <<Long>>

=============================================================================
