---------------------------- MODULE SnapshotFile ----------------------------
(***************************************************************************)
(* What a download promises: the file that arrives is what the store held  *)
(* at one moment since the start, although the store goes on being written *)
(* while it is read and sent block by block.                               *)
(***************************************************************************)
EXTENDS Naturals

CONSTANTS Cells,   \* the cells of the store
          Contents \* what a cell can hold

VARIABLES store,   \* what each cell holds
          taken,   \* the part of the store a download took last
          file     \* the last file that arrived

Init == store \in [Cells -> Contents] /\ taken = <<>> /\ file = <<>>

Write ==
    /\ \E c \in Cells : /\ store'[c] \in Contents
                        /\ store' = [store EXCEPT ![c] = store'[c]]
    /\ UNCHANGED <<taken, file>>

Take == \E part \in SUBSET Cells :
    taken' = [c \in part |-> store[c]] /\ UNCHANGED <<store, file>>

Arrive == file' = taken /\ UNCHANGED <<store, taken>>

Spec == Init /\ [][Write \/ Take \/ Arrive]_<<store, taken, file>>

=============================================================================
