------------------------------- MODULE MCFlash -------------------------------
(* Pages of four cells in doublewords of two.  The state shares its page with  *)
(* the TLE and with the beginning of a file that goes on in the next page,     *)
(* which holds the pointers too.                                               *)
EXTENDS Flash

Places == {"state", "tle", "file", "pointer"}
Beginning == [i \in Places |-> CASE i = "state" -> 0 [] i = "tle" -> 1
                                 [] i = "file" -> 3 [] i = "pointer" -> 6]
Extent == [i \in Places |-> CASE i = "state" -> 1 [] i = "tle" -> 2
                              [] i = "file" -> 3 [] i = "pointer" -> 2]

=============================================================================
