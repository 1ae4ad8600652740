------------------------------ MODULE MCDrain ------------------------------
(***************************************************************************)
(* Instances of Drain for TLC.  Prefetch above BatchSize, and more         *)
(* messages than Prefetch, so that messages pile up behind a running flush *)
(* and a batch grows past BatchSize.                                       *)
(***************************************************************************)
EXTENDS Drain

CONSTANTS m1, m2, m3, m4

Symmetry == Permutations(Messages)

=============================================================================
