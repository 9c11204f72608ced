-------------------------- MODULE MCFlightUpdates --------------------------
(***************************************************************************)
(* An instance of FlightUpdates for TLC: two flights, with and without     *)
(* times, and requests that set a status, or a status and a gate.          *)
(***************************************************************************)
EXTENDS FlightUpdates, TLC

CONSTANTS f1, f2, c1, c2, c3, g1, g2

Bodies ==
  { [Nothing EXCEPT !.status = "arrived", !.arrived = 1],
    [Nothing EXCEPT !.status = "departed"] }
  \cup { [Nothing EXCEPT !.status = "arrived", !.gate = g] : g \in Gates }

Plans == {[arrival |-> 1, departure |-> None], [arrival |-> None, departure |-> None]}

Symmetry == Permutations(Flights) \cup Permutations(Calls) \cup Permutations(Gates)
=============================================================================
