------------------------------ MODULE FileStore ------------------------------
(***************************************************************************)
(* What an upload promises, whatever becomes of its frames: it puts one    *)
(* uploaded file, whole, at one place of flash in a single step.  A file   *)
(* that keeps to its place leaves the other places alone.  One that does   *)
(* not may damage the file of another place, and is damaged by the next    *)
(* file put there.                                                         *)
(***************************************************************************)
CONSTANTS Places,   \* where files are kept
          Files,    \* the files the ground station uploads
          Fitting,  \* the pairs of a place and a file that keeps to it
          Nothing,  \* what a place holds before the first upload
          Damaged   \* what it holds if another file runs into it

VARIABLE store      \* what each place holds

Init == store = [p \in Places |-> Nothing]

\* File f at place p, or the one at q, is too long for its place.
MayDamage(p, f, q) == <<p, f>> \notin Fitting \/ (store[q] \in Files /\ <<q, store[q]>> \notin Fitting)

Put(p, f) ==
    /\ DOMAIN store' = Places
    /\ store'[p] = f
    /\ \A q \in Places \ {p} :
           store'[q] = store[q] \/ (MayDamage(p, f, q) /\ store'[q] = Damaged)

Next == \E p \in Places, f \in Files : Put(p, f)

Spec == Init /\ [][Next]_store

=============================================================================
