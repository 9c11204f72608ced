-------------------------- MODULE ArrivalHandling --------------------------
(***************************************************************************)
(* What the Turnaround Service promises of flight.arrived: no arrival is   *)
(* forgotten.  An arrival is handled only once its flight has a            *)
(* turnaround, and every arrival that is announced is handled in the end.  *)
(* A client may have the turnaround of any flight created beside that.     *)
(***************************************************************************)

CONSTANTS Arrivals, Flights, FlightOf

VARIABLES
  arrivals,  \* "expected", "announced" or "handled"
  served     \* flights with a turnaround

vars == <<arrivals, served>>

Init ==
  /\ arrivals = [a \in Arrivals |-> "expected"]
  /\ served = {}

Announce(a) ==
  /\ arrivals[a] = "expected"
  /\ arrivals' = [arrivals EXCEPT ![a] = "announced"]
  /\ UNCHANGED served

Serve(f) ==
  /\ served' = served \cup {f}
  /\ UNCHANGED arrivals

ServeArrival(a) ==
  /\ arrivals[a] = "announced"
  /\ FlightOf[a] \notin served
  /\ Serve(FlightOf[a])

Finish(a) ==
  /\ arrivals[a] = "announced"
  /\ FlightOf[a] \in served
  /\ arrivals' = [arrivals EXCEPT ![a] = "handled"]
  /\ UNCHANGED served

Next ==
  \/ \E a \in Arrivals : Announce(a) \/ Finish(a)
  \/ \E f \in Flights : Serve(f)

Fairness == \A a \in Arrivals : WF_vars(ServeArrival(a)) /\ WF_vars(Finish(a))

Spec == Init /\ [][Next]_vars /\ Fairness
=============================================================================
