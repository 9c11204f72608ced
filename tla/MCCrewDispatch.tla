--------------------------- MODULE MCCrewDispatch ---------------------------
(***************************************************************************)
(* Instances of CrewDispatch for TLC.                                      *)
(***************************************************************************)
EXTENDS CrewDispatch

CONSTANTS a, b, c1, c2

\* Both crew members can do every job; they share a last name, so either may be
\* found first.
AllQualified == [k \in Job |-> Crew]

SameName == [c \in Crew |-> 1]
=============================================================================
