---------------------------- MODULE MCReference ----------------------------
(* Instances of Reference for TLC. *)
EXTENDS Reference

\* Of eight bytes a half: less than one, one, two, three, with and without a rest, and 7 and
\* 15, whose trailer fills one half more.
PhotoLengths == {5, 7, 8, 12, 15, 16, 20, 27}

ASSUME \A size \in 0 .. 14 :
          deinterleave(interleave([k \in 0 .. size - 1 |-> k], size), size) = [k \in 0 .. size - 1 |-> k]
=============================================================================
