-------------------------- MODULE FlightIngestion --------------------------
(***************************************************************************)
(* run_ingestion of the Data Ingestion Service, started by the trigger of  *)
(* the API, which looks at is_running, and by the scheduler, which does    *)
(* not.  An answer that does not come in time is an error for the run,     *)
(* while the Flight Service may still handle the request.                  *)
(***************************************************************************)
EXTENDS FlightStore

CONSTANTS
  Triggered,   \* runs started by POST /api/ingest/trigger
  Scheduled,   \* runs started by the scheduler
  Listings,    \* what AviationStack may list: sequences of flights
  Complete     \* flights with the fields that map_flight needs

Runs == Triggered \cup Scheduled

ASSUME IngestionAssumption ==
  /\ Triggered \cap Scheduled = {}
  /\ Complete \subseteq Flights
  /\ Listings \subseteq Seq(Flights)

VARIABLES
  running,      \* _status.is_running
  runs,         \* the local state of each run
  late,         \* requests that the Flight Service has yet to handle
  overlapped    \* history: two runs have run at a time

ingestion == <<running, runs, late, overlapped>>

Result == {"ingested", "skipped", "error"}

\* left is what is left of raw_flights, code the status code of the answer, failed
\* that the run ended with an exception.
Run == [pc : {"idle", "fetch", "post", "sent", "done", "killed"}, listing : Seq(Flights),
        left : Seq(Flights), code : {0, 201, 422}, results : Seq(Result), failed : BOOLEAN]

IngestionTypeOK ==
  /\ running \in BOOLEAN
  /\ runs \in [Runs -> Run]
  /\ late \subseteq Flights
  /\ overlapped \in BOOLEAN

IngestionInit ==
  /\ running = FALSE
  /\ runs = [r \in Runs |-> [pc |-> "idle", listing |-> <<>>, left |-> <<>>, code |-> 0,
                             results |-> <<>>, failed |-> FALSE]]
  /\ late = {}
  /\ overlapped = FALSE

Active(r) == runs[r].pc \in {"fetch", "post", "sent"}

----------------------------------------------------------------------------

\* The first statements of run_ingestion, up to its first await.
Start(r) ==
  /\ runs[r].pc = "idle" /\ Spend("run")
  /\ runs' = [runs EXCEPT ![r].pc = "fetch"]
  /\ running' = TRUE
  /\ overlapped' = (overlapped \/ \E q \in Runs : Active(q))
  /\ UNCHANGED <<rows, late>>

\* trigger_ingestion; a trigger while is_running is set is refused with 409.
Trigger(r) == ~running /\ Start(r)

\* scheduled_ingestion; the scheduler has one instance of the job at a time.
Tick(r) == (\A q \in Scheduled : ~Active(q)) /\ Start(r)

FetchArrivals(r, listing) ==
  /\ runs[r].pc = "fetch"
  /\ runs' = [runs EXCEPT ![r].pc = "post", ![r].listing = listing, ![r].left = listing]
  /\ UNCHANGED <<rows, budget, running, late, overlapped>>

ClassifyRefused(code) == IF code \in {200, 201, 422} THEN "ingested" ELSE "error"

\* A flight that exists is expected to be answered with 409 or 500, which the Flight
\* Service does not send.
Classify(code) ==
  CASE code \in {200, 201} -> "ingested"
    [] code = 409 -> "skipped"
    [] OTHER -> "error"

\* The run goes on with the next flight.
Report(r, result) ==
  [runs EXCEPT ![r].pc = "post", ![r].left = Tail(@), ![r].code = 0,
               ![r].results = Append(@, result)]

\* map_flight returns None.
SkipIncomplete(r) ==
  /\ runs[r].pc = "post" /\ runs[r].left # <<>>
  /\ Head(runs[r].left) \notin Complete
  /\ runs' = Report(r, "skipped")
  /\ UNCHANGED <<rows, budget, running, late, overlapped>>

Post(r) ==
  /\ runs[r].pc = "post" /\ runs[r].left # <<>>
  /\ Head(runs[r].left) \in Complete
  /\ runs' = [runs EXCEPT ![r].pc = "sent"]
  /\ UNCHANGED <<rows, budget, running, late, overlapped>>

Handled(r) ==
  /\ runs[r].pc = "sent" /\ runs[r].code = 0
  /\ CreateFlight(Head(runs[r].left))
  /\ runs' = [runs EXCEPT ![r].code = StatusCode(Head(runs[r].left))]
  /\ UNCHANGED <<budget, running, late, overlapped>>

Answered(r) ==
  /\ runs[r].pc = "sent" /\ runs[r].code # 0
  /\ runs' = Report(r, Classify(runs[r].code))
  /\ UNCHANGED <<rows, budget, running, late, overlapped>>

\* httpx.HTTPError: the request or its answer is lost, or comes too late.
Unanswered(r) ==
  /\ runs[r].pc = "sent" /\ Spend("lost")
  /\ runs' = Report(r, "error")
  /\ late' \in IF runs[r].code = 0 THEN {late, late \cup {Head(runs[r].left)}} ELSE {late}
  /\ UNCHANGED <<rows, running, overlapped>>

HandledLate(f) ==
  /\ f \in late
  /\ late' = late \ {f}
  /\ CreateFlight(f)
  /\ UNCHANGED <<budget, running, runs, overlapped>>

\* The finally clause, after the last flight or an error of fetch_arrivals.
Finish(r) ==
  /\ runs[r].pc = "post" /\ runs[r].left = <<>>
  /\ runs' = [runs EXCEPT ![r].pc = "done"]
  /\ running' = FALSE
  /\ UNCHANGED <<rows, budget, late, overlapped>>

FetchFails(r) ==
  /\ runs[r].pc = "fetch" /\ Spend("lost")
  /\ runs' = [runs EXCEPT ![r].pc = "done", ![r].failed = TRUE]
  /\ running' = FALSE
  /\ UNCHANGED <<rows, late, overlapped>>

\* The process is started again: is_running is in memory.
IngestionRestarts ==
  /\ Spend("lost")
  /\ \E r \in Runs : Active(r)
  /\ runs' = [r \in Runs |-> IF Active(r) THEN [runs[r] EXCEPT !.pc = "killed"] ELSE runs[r]]
  /\ late' \in SUBSET (late \cup {Head(runs[r].left) : r \in {q \in Runs : runs[q].pc = "sent"}})
  /\ running' = FALSE
  /\ UNCHANGED <<rows, overlapped>>

IngestionNext ==
  \/ \E r \in Triggered : Trigger(r)
  \/ \E r \in Scheduled : Tick(r)
  \/ \E r \in Runs, listing \in Listings : FetchArrivals(r, listing)
  \/ \E r \in Runs :
       \/ SkipIncomplete(r)
       \/ Post(r)
       \/ Handled(r)
       \/ Answered(r)
       \/ Unanswered(r)
       \/ Finish(r)
       \/ FetchFails(r)
  \/ \E f \in late : HandledLate(f)
  \/ IngestionRestarts

----------------------------------------------------------------------------

Ingested(f) ==
  UNION {{<<r, i>> : i \in {k \in DOMAIN runs[r].results :
                              /\ runs[r].results[k] = "ingested"
                              /\ runs[r].listing[k] = f}} : r \in Runs}

\* What GET /api/ingest/status and the results of runs say holds: is_running is set
\* only during a run, and unset during a run only after two runs have overlapped,
\* a flight that is reported as ingested has a row that no other report counts, and
\* a run without errors leaves every flight it could map in the table.
StatusIsTrue ==
  /\ running => \E r \in Runs : Active(r)
  /\ ~running /\ (\E r \in Runs : Active(r)) => overlapped
  /\ \A f \in Flights : Cardinality(Ingested(f)) <= rows[f]
  /\ \A r \in Runs :
       runs[r].pc = "done" /\ ~runs[r].failed =>
         /\ Len(runs[r].results) = Len(runs[r].listing)
         /\ \A i \in DOMAIN runs[r].listing :
              \/ rows[runs[r].listing[i]] > 0
              \/ runs[r].listing[i] \notin Complete
              \/ runs[r].results[i] = "error"
=============================================================================
