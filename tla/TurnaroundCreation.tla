------------------------- MODULE TurnaroundCreation -------------------------
(***************************************************************************)
(* createTurnaround of the Turnaround Service, called by the consumer of   *)
(* flight.arrived and by POST /api/turnarounds, with the weather cache     *)
(* that all calls share.                                                   *)
(*                                                                         *)
(* Each action is the code from one await to the next.  A message whose    *)
(* handler fails is requeued, one whose process dies is delivered again.   *)
(*                                                                         *)
(* A document is the plan of its tasks: the reports that decided on        *)
(* de-icing, on its holdover and on durations.  Its task list is TasksOf.  *)
(* Time is counted in units of the five minutes a report is kept.          *)
(***************************************************************************)
EXTENDS Integers, Sequences, FiniteSets, TaskTemplates

CONSTANTS
  Arrivals,   \* flight.arrived messages; a flight may have several
  Requests,   \* POST requests
  Flights,
  FlightOf,   \* [Arrivals \cup Requests -> Flights]
  TypeOf,     \* [Flights -> aircraft types]
  Reports,    \* weather reports the Data Ingestion Service may answer
  None,       \* no report
  MaxTime,    \* bound on the clock
  MaxFaults   \* bound on database errors, lost publishes and restarts

Calls == Arrivals \cup Requests

ASSUME CreationAssumption ==
  /\ Arrivals \cap Requests = {}
  /\ FlightOf \in [Calls -> Flights]
  /\ Flights = DOMAIN TypeOf
  /\ Reports \subseteq [temperature : Int \cup {None}, icing : BOOLEAN, lvp : BOOLEAN]
  /\ None \notin Reports \cup Int
  /\ MaxTime \in Nat
  /\ MaxFaults \in Nat

VARIABLES
  documents,  \* the collection of turnarounds, in the order of creation
  announced,  \* documents whose turnaround.started was published
  cache,      \* cachedWeather
  fetchedAt,  \* lastFetchAt
  now,
  calls,      \* the local state of each call
  faults,     \* faults injected so far
  cut,        \* history: documents whose call ended before it could announce them
  overlapped  \* history: flights two calls were creating a turnaround for

vars == <<documents, announced, cache, fetchedAt, now, calls, faults, cut, overlapped>>

weather == <<cache, fetchedAt, now>>

store == <<documents, announced>>

history == <<faults, cut, overlapped>>

Report == Reports \cup {None}

\* calm: since the call began, no time has passed, no other call has stored a
\* report, and no fetch of its own has failed.
Plan == [flight : Flights, decided : Report, holdover : Report, scaled : Report,
         calm : BOOLEAN]

Pc == {"expected", "queued", "de-icing", "de-icing fetch", "factor",
       "factor fetch", "create", "publish", "done"}

Call == [pc : Pc, started : 0 .. MaxTime, plan : Plan, document : Nat]

Fresh(c, pc) ==
  [pc |-> pc, started |-> 0, document |-> 0,
   plan |-> [flight |-> FlightOf[c], decided |-> None, holdover |-> None,
             scaled |-> None, calm |-> TRUE]]

----------------------------------------------------------------------------

Running(h) == h.pc \notin {"expected", "queued", "done"}

Fetching(h) == h.pc \in {"de-icing fetch", "factor fetch"}

Kept == cache # None /\ now - fetchedAt < 1

NeedsDeIcing(w) ==
  /\ w # None
  /\ w.icing \/ (w.temperature # None /\ w.temperature < 3)

Holdover(w) ==
  LET t == IF w = None \/ w.temperature = None THEN 0 ELSE w.temperature
  IN  CASE t < -10 -> 45
        [] t >= -10 /\ t < -3 -> 30
        [] OTHER -> 20

Percent(w) == IF w # None /\ w.lvp THEN 120 ELSE 100

TasksOf(plan) ==
  TaskList(TypeOf[plan.flight], Percent(plan.scaled),
           NeedsDeIcing(plan.decided), Holdover(plan.holdover))

\* What is no longer needed of a call that has ended is forgotten.
Done(c) == [calls EXCEPT ![c] = Fresh(c, "done")]

\* getCurrentWeather answers w while cached is in the cache: the decision on
\* de-icing, or the factor and with it the task list.
Answer(h, w, cached) ==
  IF h.pc \in {"de-icing", "de-icing fetch"}
  THEN [h EXCEPT !.pc = "factor", !.started = 0, !.plan.decided = w]
  ELSE [h EXCEPT !.pc = "create", !.started = 0, !.plan.scaled = w, !.plan.holdover = cached]

Disturbed(h) == IF Running(h) THEN [h EXCEPT !.plan.calm = FALSE] ELSE h

----------------------------------------------------------------------------

Init ==
  /\ documents = <<>>
  /\ announced = {}
  /\ cache = None
  /\ fetchedAt = 0
  /\ now = 0
  /\ calls = [c \in Calls |-> Fresh(c, IF c \in Arrivals THEN "expected" ELSE "queued")]
  /\ faults = 0
  /\ cut = {}
  /\ overlapped = {}

\* The Flight Service publishes flight.arrived.
Arrive(c) ==
  /\ calls[c].pc = "expected"
  /\ calls' = [calls EXCEPT ![c].pc = "queued"]
  /\ UNCHANGED <<store, weather, history>>

\* findByFlightId
Begin(c) ==
  /\ calls' = [calls EXCEPT ![c].pc = "de-icing"]
  /\ overlapped' =
       IF \E d \in Calls : Running(calls[d]) /\ FlightOf[d] = FlightOf[c]
       THEN overlapped \cup {FlightOf[c]} ELSE overlapped
  /\ UNCHANGED <<store, weather, faults, cut>>

FindNothing(c) ==
  /\ calls[c].pc = "queued"
  /\ Begin(c)

Find(c) ==
  /\ calls[c].pc = "queued"
  /\ \/ /\ \A i \in DOMAIN documents : documents[i].flight # FlightOf[c]
        /\ Begin(c)
     \/ /\ \E i \in DOMAIN documents : documents[i].flight = FlightOf[c]
        /\ calls' = Done(c)
        /\ UNCHANGED <<store, weather, history>>

\* getCurrentWeather, up to its fetch.
AskWeather(c) ==
  /\ calls[c].pc \in {"de-icing", "factor"}
  /\ \/ /\ Kept
        /\ calls' = [calls EXCEPT ![c] = Answer(@, cache, cache)]
     \/ /\ ~Kept
        /\ calls' = [calls EXCEPT ![c].pc = IF @ = "factor" THEN "factor fetch"
                                            ELSE "de-icing fetch",
                                  ![c].started = now]
  /\ UNCHANGED <<store, weather, history>>

\* The fetch answers with a report.
Store(c, w) ==
  /\ cache' = w
  /\ calls' = [d \in Calls |-> IF d = c THEN Answer(calls[c], w, w)
                               ELSE Disturbed(calls[d])]
  /\ UNCHANGED <<store, now, history>>

FetchedUntimed(c, w) ==
  /\ Fetching(calls[c])
  /\ fetchedAt' = fetchedAt
  /\ Store(c, w)

Fetched(c, w) ==
  /\ Fetching(calls[c])
  /\ fetchedAt' = calls[c].started
  /\ Store(c, w)

\* The fetch answers an error status, or fails: the second keeps the old report.
FetchRefused(c) ==
  /\ Fetching(calls[c])
  /\ \E w \in {None, cache} :
       calls' = [calls EXCEPT ![c] = Disturbed(Answer(@, w, cache))]
  /\ UNCHANGED <<store, weather, history>>

CreateSilently(c) ==
  /\ calls[c].pc = "create"
  /\ documents' = Append(documents, calls[c].plan)
  /\ calls' = Done(c)
  /\ UNCHANGED <<announced, weather, history>>

Create(c) ==
  /\ calls[c].pc = "create"
  /\ documents' = Append(documents, calls[c].plan)
  /\ calls' = [calls EXCEPT ![c] = [Fresh(c, "publish") EXCEPT
                                     !.document = Len(documents) + 1]]
  /\ UNCHANGED <<announced, weather, history>>

\* publishTurnaroundStarted, whose failure is logged; then the ack or the answer.
PublishStarted(c) ==
  /\ calls[c].pc = "publish"
  /\ \/ /\ announced' = announced \cup {calls[c].document}
        /\ UNCHANGED <<faults, cut>>
     \/ /\ faults < MaxFaults
        /\ faults' = faults + 1
        /\ cut' = cut \cup {calls[c].document}
        /\ UNCHANGED announced
  /\ calls' = Done(c)
  /\ UNCHANGED <<documents, weather, overlapped>>

\* Where a call that fails goes: Nack(true) requeues its message, a request gets 500.
Failed(c) == IF c \in Arrivals THEN "queued" ELSE "done"

\* A MongoDB command fails.
Fail(c, pc) ==
  /\ calls[c].pc \in {"queued", "create"}
  /\ faults < MaxFaults
  /\ faults' = faults + 1
  /\ calls' = [calls EXCEPT ![c] = Fresh(c, pc)]
  /\ UNCHANGED <<store, weather, cut, overlapped>>

FailAndAck(c) == Fail(c, "done")

DatabaseError(c) == Fail(c, Failed(c))

\* The insert is applied, but its answer is an error: a connection is lost or times out.
CreateUnanswered(c) ==
  /\ calls[c].pc = "create"
  /\ faults < MaxFaults
  /\ faults' = faults + 1
  /\ documents' = Append(documents, calls[c].plan)
  /\ cut' = cut \cup {Len(documents) + 1}
  /\ calls' = [calls EXCEPT ![c] = Fresh(c, Failed(c))]
  /\ UNCHANGED <<announced, weather, overlapped>>

\* The process dies and starts again; the broker redelivers.
Restart ==
  /\ \E c \in Calls : Running(calls[c])
  /\ faults < MaxFaults
  /\ faults' = faults + 1
  /\ cut' = cut \cup {calls[c].document : c \in {d \in Calls : calls[d].pc = "publish"}}
  /\ calls' = [c \in Calls |->
                 IF Running(calls[c]) THEN Fresh(c, Failed(c)) ELSE calls[c]]
  /\ cache' = None
  /\ fetchedAt' = 0
  /\ UNCHANGED <<store, now, overlapped>>

Tick ==
  /\ now < MaxTime
  /\ now' = now + 1
  /\ calls' = [c \in Calls |-> Disturbed(calls[c])]
  /\ UNCHANGED <<store, cache, fetchedAt, history>>

Handle(c) ==
  \/ Find(c) \/ AskWeather(c) \/ FetchRefused(c) \/ Create(c) \/ PublishStarted(c)
  \/ \E w \in Reports : Fetched(c, w)

Next ==
  \/ \E c \in Arrivals : Arrive(c)
  \/ \E c \in Calls : Handle(c) \/ DatabaseError(c) \/ CreateUnanswered(c)
  \/ Restart
  \/ Tick

Spec == Init /\ [][Next]_vars

\* RabbitMQ delivers what it holds, and every await ends.
FairSpec == Spec /\ \A c \in Arrivals : WF_vars(Handle(c))

----------------------------------------------------------------------------

\* Types of the collection, the cache, the clock and the calls; a report is never
\* kept as younger than it is.
TypeOK ==
  /\ documents \in Seq(Plan)
  /\ announced \subseteq DOMAIN documents
  /\ cache \in Report
  /\ now \in 0 .. MaxTime
  /\ fetchedAt \in 0 .. now
  /\ calls \in [Calls -> Call]
  /\ faults \in 0 .. MaxFaults
  /\ cut \subseteq DOMAIN documents
  /\ overlapped \subseteq Flights

\* Redelivery, repeated arrivals and manual requests create no second turnaround
\* for a flight, unless two of them were creating it at the same time.
OneTurnaroundPerFlight ==
  \A i, j \in DOMAIN documents :
    documents[i].flight = documents[j].flight /\ documents[i].flight \notin overlapped
    => i = j

\* A turnaround is announced, or its call is about to, unless that very call was cut off
\* between the insert and the publish: the insert was applied but answered by an error,
\* the publish failed, or the process died.  Nothing else costs a turnaround its
\* turnaround.started: no command that fails unapplied, no requeued or repeated arrival,
\* no other call for the flight, and no fault that strikes another call.
UnannouncedMeansCut ==
  \A i \in DOMAIN documents \ cut :
    \/ i \in announced
    \/ \E c \in Calls : calls[c].pc = "publish" /\ calls[c].document = i

\* The task list createTurnaround builds is sound for every type and weather,
\* whatever became of the cache between its awaits.
TaskListsAreSound ==
  /\ EveryTaskListIsSound
  /\ \A i \in DOMAIN documents :
       SoundTaskList(TasksOf(documents[i]), TypeOf[documents[i].flight],
                     NeedsDeIcing(documents[i].decided))

\* The two look-ups of createTurnaround and the holdover see one report, unless
\* the cache was refilled by another call, ran out, or the provider refused.
OneReportPerPlan ==
  \A i \in DOMAIN documents :
    documents[i].calm => /\ documents[i].decided = documents[i].scaled
                         /\ documents[i].holdover = documents[i].scaled

\* The service keeps the promise of ArrivalHandling.
Promise == INSTANCE ArrivalHandling WITH
  arrivals <- [a \in Arrivals |->
                 CASE calls[a].pc = "expected" -> "expected"
                   [] calls[a].pc = "done"     -> "handled"
                   [] OTHER                    -> "announced"],
  served <- {documents[i].flight : i \in DOMAIN documents}

\* No arrival is lost to failing commands, restarts or interleavings: each is
\* handled in the end, and only when its flight has a turnaround.
NoArrivalForgotten == Promise!Spec
=============================================================================
