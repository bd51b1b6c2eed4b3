---------------------------- MODULE MCForkChoice ----------------------------
(***************************************************************************)
(* Instances of ForkChoice for TLC.  Nodes and handler slots are            *)
(* interchangeable.                                                        *)
(***************************************************************************)
EXTENDS ForkChoice, TLC

Symmetry == Permutations(Node) \cup Permutations(Slot)
=============================================================================
