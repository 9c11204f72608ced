----------------------------- MODULE StandPlan -----------------------------
(***************************************************************************)
(* The stand planning board of the dashboard: the flights of a day on a    *)
(* row of their gate, as bars, with those in conflict marked.              *)
(*                                                                         *)
(* A time is a number of half per cents of a day from its midnight, 7.2    *)
(* minutes each, so that three hours are 25 of them.                       *)
(***************************************************************************)
EXTENDS FlightStore

CONSTANTS
  Occupancies,   \* what GET /api/gates/occupancy may answer: sets of blocks
  NoTime         \* no departure known

dayDuration == 200
Turnover == 25
MinWidth == 2

\* GetGateOccupancy: one block of each flight at a gate, of those that start before the
\* day is over and end after it began.  Nothing makes a block end after it starts:
\* scheduled_departure of an ingested flight is the departure from its origin.
ASSUME OccupancyAssumption ==
  /\ NoTime \notin Int
  /\ \A blocks \in Occupancies : \A b \in blocks :
       /\ \A c \in blocks : c.flight = b.flight => c = b
       /\ b.start \in Int /\ b.start < dayDuration
       /\ \/ b.end = NoTime /\ b.start + Turnover > 0
          \/ b.end \in Int /\ b.end > 0

VARIABLE occupancy   \* the blocks of the last answer

plan == <<occupancy>>

PlanInit == occupancy = {}

OccupancyArrives ==
  /\ Spend("page")
  /\ occupancy' \in Occupancies
  /\ UNCHANGED rows

----------------------------------------------------------------------------

\* The flights that share a gate with block a.
Row(a) == {b \in occupancy : b.gate = a.gate}

ConflictEnd(a) == IF a.end = NoTime THEN a.start + Turnover ELSE a.end

Touch(a, b) == a.start <= ConflictEnd(b) /\ b.start <= ConflictEnd(a)

Conflict(a, b) == a.start < ConflictEnd(b) /\ b.start < ConflictEnd(a)

conflictFlightIds ==
  {a.flight : a \in {b \in occupancy : \E c \in Row(b) \ {b} : Conflict(b, c)}}

----------------------------------------------------------------------------

left(b) == IF b.start < 0 THEN 0 ELSE b.start

barEnd(b) == IF b.end = NoTime THEN b.start + Turnover ELSE b.end

width(b) ==
  IF barEnd(b) - b.start < dayDuration - left(b)
    THEN barEnd(b) - b.start ELSE dayDuration - left(b)

\* What a bar covers: one per cent at least.
Bar(b) == left(b)..(left(b) + (IF width(b) < MinWidth THEN MinWidth ELSE width(b)) - 1)

----------------------------------------------------------------------------

\* The bar of a flight that began before midnight keeps its full width, and a bar is
\* never less than MinWidth wide: such bars, those of flights that end before they start
\* among them, cover times at which the flight is gone.
AsDrawn(b) == b.start >= 0 /\ width(b) >= MinWidth

\* A flight that is marked has a bar that overlaps another one of its row, and two bars of
\* a row that overlap and are as drawn are both marked, whatever the times of the blocks:
\* marks and bars are computed apart, each with its own rule for a flight without a
\* departure and for one that ends before it starts.
BarsTellConflicts ==
  \A a \in occupancy :
    LET overlapping == {b \in Row(a) \ {a} : Bar(a) \cap Bar(b) # {}} IN
    /\ a.flight \in conflictFlightIds => overlapping # {}
    /\ AsDrawn(a) /\ (\E b \in overlapping : AsDrawn(b)) => a.flight \in conflictFlightIds
=============================================================================
