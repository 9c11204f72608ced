---------------------------- MODULE MCMonitoring ----------------------------
(***************************************************************************)
(* An instance of Monitoring for TLC.  A behaviour is about ingestion,     *)
(* about turnarounds, about flights that lack crew, or about pages.        *)
(***************************************************************************)
EXTENDS Monitoring, TLC

CONSTANTS f1, f2, f3, r1, r2, r3, j1, j2, g1, g2

MCListings == {<<f1, f2, f3>>}

Task(name, status, estimate, started) ==
  [name |-> name, status |-> status, estimate |-> estimate, started |-> started]

Tasks(deboarding, boarding) ==
  << Task("deboarding", "in_progress", 10, deboarding),
     Task("boarding", "in_progress", 10, boarding) >>

\* On the edge of being delayed and of having stuck tasks, and past it.
MCSituations ==
  { [progress |-> 49, started |-> 15, tasks |-> Tasks(15, 15)],
    [progress |-> 49, started |-> 16, tasks |-> Tasks(16, 16)],
    [progress |-> 50, started |-> 16, tasks |-> Tasks(15, 16)] }

Budget(r, l, j, q, o, w, p) ==
  [run |-> r, lost |-> l, job |-> j, query |-> q, operator |-> o, world |-> w, page |-> p]

Symmetry == Permutations(Jobs) \cup Permutations(Triggered)

MCCerts == <<"fueling", "cargo">>

MCBudgets ==
  { Budget(3, 2, 0, 0, 0, 0, 0), Budget(0, 0, 3, 1, 1, 2, 0), Budget(1, 0, 2, 1, 0, 1, 0),
    Budget(0, 0, 0, 0, 0, 0, 1) }

\* Blocks of a gate that begin on both sides of midnight, meet, overlap, are short, end
\* late, before they start or as they start, or have no end.
Blocks(flight, gates) ==
  [flight : {flight}, gate : gates, start : {-10, 0, 15, 25, 190},
   end : {1, 15, 16, 25, 50, 200, NoTime}]

MCOccupancies ==
  {{a, b, c} : a \in {x \in Blocks(f1, {g1}) : x.start \in {0, 15}},
               b \in Blocks(f2, {g1}),
               c \in {x \in Blocks(f3, {g1, g2}) : x.start \in {0, 25}}}
=============================================================================
