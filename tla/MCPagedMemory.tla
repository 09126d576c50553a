--------------------------- MODULE MCPagedMemory ---------------------------
(***************************************************************************)
(* Small instances of PagedMemory, with the inductive invariant of its     *)
(* proofs at hand.                                                         *)
(***************************************************************************)
EXTENDS PagedMemoryProofs
\* Three pages and page 0xfff0 in two slots: every other page fault evicts.
ThreePages == {0, 1, 2}
TwoPages == {0, 1}
Unaligned == {0, 1}
Nowhere == {}
=============================================================================
