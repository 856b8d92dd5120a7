----------------------------- MODULE Interleave -----------------------------
(***************************************************************************)
(* The interleaver of the reference firmware's frames: six groups, an      *)
(* element of each in turn.  Packets are functions from 0 .. size - 1.     *)
(***************************************************************************)
EXTENDS Integers

Columns == 6

\* A packet whose size is not a multiple of six is left as it is.
interleave(a, size) ==
    LET groupSize == size \div Columns
    IN  IF size % Columns # 0 THEN a
        ELSE [k \in 0 .. size - 1 |-> a[(k % Columns) * groupSize + (k \div Columns)]]

deinterleave(a, size) ==
    LET groupSize == size \div Columns
    IN  IF size % Columns # 0 THEN a
        ELSE [k \in 0 .. size - 1 |-> a[(k % groupSize) * Columns + (k \div groupSize)]]
=============================================================================
