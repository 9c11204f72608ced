---------------------------- MODULE FlightStore ----------------------------
(***************************************************************************)
(* The flights table as the Data Ingestion Service fills it and the alert  *)
(* scheduler reads it: POST /api/flights with the unique index on flight   *)
(* number and scheduled arrival, and the upcoming arrivals.                *)
(***************************************************************************)
EXTENDS Integers, Sequences, FiniteSets

CONSTANTS
  Flights,   \* flight number and scheduled arrival, where there is one
  Dated,     \* the flights that have a scheduled arrival
  Budgets    \* bounds: what may happen in a behaviour, which starts with one of them

\* Runs of the Data Ingestion Service; its lost requests and restarts; runs of the jobs
\* of the Ops Hub; its failed queries and restarts; acts of an operator; changes of
\* turnarounds and of available crew; answers to pages of the dashboard.
Kinds == {"run", "lost", "job", "query", "operator", "world", "page"}

ASSUME StoreAssumption ==
  /\ Dated \subseteq Flights
  /\ Budgets \subseteq [Kinds -> Nat]

VARIABLES
  rows,     \* the flights table: how many rows each flight has
  budget    \* what may still happen

StoreTypeOK ==
  /\ rows \in [Flights -> Nat]
  /\ budget \in [Kinds -> Nat]

StoreInit ==
  /\ rows = [f \in Flights |-> 0]
  /\ budget \in Budgets

Spend(kind) ==
  /\ budget[kind] > 0
  /\ budget' = [budget EXCEPT ![kind] = @ - 1]

----------------------------------------------------------------------------

\* idx_flights_number_arrival covers rows that have an arrival.
Duplicate(f) == f \in Dated /\ rows[f] > 0

\* POST /api/flights with all fields: any error of the service is answered with 422.
CreateFlight(f) ==
  rows' = IF Duplicate(f) THEN rows ELSE [rows EXCEPT ![f] = @ + 1]

StatusCode(f) == IF Duplicate(f) THEN 422 ELSE 201

\* GET /api/flights/arrivals/upcoming: the flights in the window at some time.
MayBeUpcoming == {f \in Dated : rows[f] > 0}
=============================================================================
