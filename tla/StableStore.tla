----------------------------- MODULE StableStore -----------------------------
(***************************************************************************)
(* What a write to flash promises: it is made a page at a time, each page  *)
(* in one step that changes nothing but the cells written, and a fault may *)
(* destroy one page only.                                                  *)
(***************************************************************************)
EXTENDS Integers

CONSTANTS Cells,   \* the cells of the store
          Sectors, \* the sets of cells that are rewritten together
          Parts    \* the sets of cells that are written together

VARIABLES mem,     \* what each cell holds
          faults   \* the number of faults so far

\* A part takes a new value.
Put == /\ UNCHANGED faults
       /\ \E p \in Parts : \E v \in {mem'[c] : c \in p} :
              mem' = [c \in Cells |-> IF c \in p THEN v ELSE mem[c]]

\* A sector is destroyed.
Lose == /\ faults' = faults + 1
        /\ \E s \in Sectors : mem' = [c \in Cells |-> IF c \in s THEN mem'[c] ELSE mem[c]]

Spec == mem \in [Cells -> Int] /\ [][Put \/ Lose]_<<mem, faults>>

=============================================================================
