------------------------ MODULE MCEquipmentDispatch ------------------------
(***************************************************************************)
(* Instances of EquipmentDispatch for TLC.                                 *)
(***************************************************************************)
EXTENDS EquipmentDispatch, TLC

CONSTANTS a, b, r1

\* Every unit is of the one type all tasks need.
AllSuitable == [k \in Job |-> Units]

Symmetry == Permutations(Turnarounds)
=============================================================================
