------------------------ MODULE MCTurnaroundCreation ------------------------
(***************************************************************************)
(* An instance of TurnaroundCreation for TLC: one flight, whose turnaround *)
(* a message and a request create.                                         *)
(***************************************************************************)
EXTENDS TurnaroundCreation

CONSTANTS m1, r1, f1

Flight == (m1 :> f1) @@ (r1 :> f1)

Type == (f1 :> "A350")

WeatherReports ==
  { [temperature |-> -12, icing |-> FALSE, lvp |-> TRUE],
    [temperature |-> 1, icing |-> TRUE, lvp |-> FALSE],
    [temperature |-> None, icing |-> FALSE, lvp |-> FALSE] }
=============================================================================
