---------------------------- MODULE MCMilestones ----------------------------
(***************************************************************************)
(* An instance of Milestones for TLC.                                      *)
(***************************************************************************)
EXTENDS Milestones, TLC

CONSTANTS c1, c2, c3

Symmetry == Permutations(Calls)
=============================================================================
