------------------------------- MODULE MCLink -------------------------------
(***************************************************************************)
(* The commands of the runs of Link: REQUEST_HK_LIVE twice, by its tc_id   *)
(* of types.h.  Either as many frames are lost as four attempts bear, or   *)
(* there are any two of a loss, a timeout before a late answer, a reset or *)
(* lost contact, and a beacon.                                             *)
(***************************************************************************)
EXTENDS Link

TwoReports == <<15, 15>>

Bound(lost, slow, broken, sent) ==
    [losses |-> lost, late |-> slow, breaks |-> broken, beacons |-> sent]

LossesOrFaults == {Bound(3, 0, 0, 0), Bound(1, 1, 0, 0), Bound(1, 0, 1, 0), Bound(1, 0, 0, 1),
                   Bound(0, 1, 1, 0), Bound(0, 1, 0, 1), Bound(0, 0, 1, 1)}

\* Enough for the findings.
LateAndBeacon == {Bound(0, 1, 0, 1)}

=============================================================================
