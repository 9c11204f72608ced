# SkyTurn in TLA+

SkyTurn is an airport turnaround platform made of six services and a dashboard
that talk through RabbitMQ. This directory holds TLA+ modules of its stateful
logic, the configurations that model-check them with TLC, and theorems about
them that TLAPS proves.

Contents: [the system](#the-system), [the modules](#the-modules),
[runs and bounds](#runs-and-bounds), [fairness](#fairness),
[proofs](#proofs), [findings](#findings), [not modelled](#not-modelled),
[plan](#plan).

## The system

| Service | Language, store | State | Operations | Talks to |
|---|---|---|---|---|
| Flight Service | Go, PostgreSQL | flights, gates | create, update, list; gate conflicts | publishes `flight.*` |
| Turnaround Service | NestJS, MongoDB | one document per turnaround with its tasks and A-CDM milestones; a weather cache | create, updateTask, updateMilestones | consumes `flight.arrived`, `crew.assigned`, `equipment.assigned`; publishes `turnaround.*` |
| Crew Service | FastAPI, PostgreSQL | crew, certifications, shifts, task assignments, equipment, equipment assignments | auto-assignment, freeing, CRUD | consumes `turnaround.started`, `turnaround.task.completed`; publishes `crew.*`, `equipment.*` |
| Ops Hub | Rust, PostgreSQL | event log, alerts, users; live event stream | log and broadcast every event, three periodic jobs, acknowledge alerts | consumes everything, polls the other services |
| Data Ingestion | FastAPI | none | ingest flights from a provider, weather | calls the Flight Service |
| Dashboard | React | session, query cache, event stream connection | log in and out, fetch and display, acknowledge and resolve alerts | calls every service, follows the event stream |

The flow that ties them together: a flight is set to `arrived`, the Flight
Service publishes `flight.arrived`, the Turnaround Service creates a turnaround
and publishes `turnaround.started`, the Crew Service assigns crew and equipment
to its tasks and publishes what it assigned, the Turnaround Service notes it in
the tasks; clients complete tasks, each completion frees crew and equipment, and
the last one completes the turnaround.

What makes it hard:

- Every handler is a coroutine whose awaits (database commands, publishes) let
  other handlers run; prefetch is 10 in the Turnaround and Crew Services, and
  REST requests run beside them. Nothing locks, and no uniqueness constraint
  backs the checks.
- A message is delivered again after a restart, and after a reconnection while
  its first handler still runs. The Turnaround Service requeues what it fails
  to handle; the Crew Service and the Ops Hub ack it.
- A publish that fails is logged and forgotten; there is no outbox. A restart
  between a commit and the publish that reports it loses the event.
- Events of different exchanges and queues have no common order.

### What would make each part correct

- *Task updates*: concurrent updates do not undo each other; the turnaround
  completes exactly when its tasks are finished, and says so.
- *Creation*: one turnaround per flight, each announced once.
- *Milestones*: TOBT, TSAT and AOBT stay ordered.
- *Crew and equipment assignment*: no person and no unit serves two open tasks;
  redelivery assigns nothing twice; a finished task holds nothing; every task is
  answered by an event; events tell the truth.
- *Flights and gates*: an arrival is announced once; concurrent updates keep
  each other's fields; gate conflicts are reported.
- *Flight publisher*: it reconnects as often as the connection is lost.
- *Ops Hub*: every event is in the log; one open alert per cause.
- *Ingestion*: each flight is created once and counted for what happened to it.
- *Dashboard*: a tab acts as the account it shows; what it shows catches up with what
  happened; its pages agree with each other, with the data, and on who may see what.

PROJECT.json lists the hazards at their lines, with the properties that cover
them, or why none does.

## The modules

### Turnaround

One turnaround document and any number of concurrent calls of
`TurnaroundService.updateTask` (`turnaround.service.ts:139-217`), made by PATCH
requests and by the consumers of `crew.assigned` and `equipment.assigned`.

| TLA+ | Code |
|---|---|
| `tasks`, `status`, `progress`, `ardt`, `completedAt` | the document's fields |
| `calls[r]` | the local variables of one running call: `pc` is the await it resumes from, `seen` the document of `findById`, `status` and `count` what it keeps of the document its write returned |
| `events`, `swallowed` | events the broker took, and events whose publish failed and was logged |
| `FindTask` | `findById` and the look-up of the task |
| `WriteTask` | `repo.updateTask`, one atomic `findOneAndUpdate` |
| `WriteProgress` | `repo.updateStatus(turnaroundId, updated.status, {progressPercent})` |
| `PublishTaskCompleted` | `publishTaskCompleted` |
| `WriteArdt`, `WriteCompleted`, `PublishTurnaroundCompleted` | the auto-completion block |
| `DatabaseError`, `Restart` | a rejected MongoDB command; the process dies |

A Node process runs one call between two awaits, so each action is the code from
one await to the next. Timestamps are the call that wrote them: the properties
ask who wrote a time and whether it is set, never how late it is. `notes` and
`assignedEquipmentId` are written exactly as `assignedCrewId` is, and one field
stands for the three. The milestone `ardt` may also be set by a client through
`PATCH /milestones`; that operation is not part of this module.

Properties: `CompletionAnnounced` (no interleaving loses the completion),
`CompletionJustified` (it is never early), `AnnouncedAfterRecorded` (it is
announced only after it was recorded), `NoLostTaskUpdate` (a task has a status
one of its own writers gave it). `DoneMeansCompleted`, what the comment on `updateTask`
promises, does not hold.

### CrewDispatch

The Crew Service's consumer of `crew-turnaround-queue` with the crew half of its
two handlers (`consumer.py:60-163`, `assignment_service.py`). The equipment half
runs after it in the same coroutine on other tables; the ack at the end of the
module's handlers stands for the end of the whole handler.

| TLA+ | Code |
|---|---|
| `queue`, `unacked` | RabbitMQ: messages not acked, and those handed out |
| `handlers[s]` | one coroutine of `_handle_message`; `live` is whether its delivery's connection still exists |
| `rows` | table `task_assignments` |
| `sent` | events handed to the publisher |
| `Deliver` | the broker hands the first waiting message to a free coroutine |
| `Check`, `Find`, `Insert` | the idempotency check, `find_available_crew`, insert and commit of `auto_assign_crew` |
| `PublishResult` | the publish loop after `auto_assign_crew` returned |
| `Free` | `free_crew_member` |
| `InsertRefreshFails` | the assignment is committed, but the `COMMIT` is answered by an error or `db.refresh` fails |
| `Ack`, `SqlError`, `Restart`, `ConnectionLoss` | `message.process(requeue=False)`; a statement fails and the handler's `except` acks; the process dies; `connect_robust` reconnects under running coroutines |

`PublishCompleted` sends as many completions of one task as `Copies` allows: the
Turnaround Service publishes one for every PATCH to `completed`
(`turnaround.service.ts:191-197`). Sessions are READ COMMITTED, so a query sees every
earlier commit. Who is certified and on shift is the constant `Qualified`; `LastName`
orders the search and may have ties, which the database resolves either way. Tasks
without a certificate are skipped by the loop and left out. `restarts`, `drops`,
`aborted` and `overtaken` are history variables the properties condition on.

Properties: `AtMostOneOpenPerTask` and `NoDoubleBookingWithinTurnaround` (as long
as no connection is lost), `AssignedEventsAreTrue` (always), `EveryTaskAnswered`
(without restart, loss or exception: a restart between the commits and the
publishes loses the events, because the check skips what is committed),
`FreedUnlessOvertaken`, `AssignedOnceUnlessOvertaken` (no redelivery assigns a task
twice, finished or not, unless its completion was handled before the start was acked),
and the liveness property `QueueDrains`. `NoDoubleBooking` and `CompletionFreesCrew`,
which a docstring and the README promise, do not hold.

### EquipmentDispatch

The equipment half of the same two handlers (`consumer.py:124-141`, `165-185`,
`equipment_service.py`) beside the REST operations that assign, release and PATCH
a unit. Every message and every request is one call with a session of its own.

| TLA+ | Code |
|---|---|
| `status`, `rows` | tables `equipment` and `equipment_assignments` |
| `calls[c]` | one coroutine and its session: `held` and `loaded` are what the session keeps of a unit it has read |
| `Check`, `Find`, `Assign` | the loop of `auto_assign_equipment`, with `find_available_equipment` and `assign_equipment` |
| `AssignRefreshFails` | the assignment is committed, but the `COMMIT` is answered by an error or `db.refresh` fails |
| `PublishResults` | the publish loop behind it |
| `PublishCompleted` | one `task.completed` for every PATCH to `completed`, so that a task may have several |
| `Lookup`, `StartRelease`; `Load`, `Select`, `Release` | `_handle_task_completed`; `release_equipment`, for handlers and requests |
| `RequestAssign`/`CommitAssign`, `RequestPatch`/`CommitPatch`, `RequestRelease` | the routers |
| `BeginHandler`, `CrewHalfFails` | the crew half of the handler is over, or has raised |
| `Ack`, `SqlError`, `Restart` | as in `CrewDispatch` |
| `ConnectionLoss`, `Left` | `connect_robust` (`consumer.py:34`): the handlers of the delivered messages run on as `Left(m, g)`, their acks count for nothing, and the messages are delivered again |

The session matters. A unit stays as it was first loaded for as long as the code
holds the object (`expire_on_commit=False`), so `assign_equipment`'s own check of
the status reads what the search has just loaded and cannot see another
coroutine's commit; and a flush writes an attribute only when it differs from
what was loaded, so `status = "available"` on a unit loaded as available writes
nothing. `CrewDispatch` has the broker's queue; here a message may be handled at
any time after it was published, in any order, which allows every order the
queue and the crew half allow.

`manual`, `dropped`, `doubled` and `overlapped` are history variables the properties
condition on: what clients have done, whether the connection was lost, the units that two
handlers were releasing at a time for one task (of two completions, or of one delivered
again), whether calls overlapped.

Properties: `AtMostOneOpenPerTask` (redelivery after restarts and exceptions assigns
nothing twice; after the loss of a connection two coroutines handle one message, and
do), `AssignedEventsAreTrue` (always), `NoUnitLostByHandlers` and
`OnlyOwnAssignmentReleased` (while no client interferes, and but for the units in
`doubled`; lost connections are no exception), `ConsistentWhenSerial` (status and
assignments agree but for races; with races two turnarounds share a unit, as
`NoDoubleBooking` shows for crew).
`ReleasedIsAvailable`, the docstring of
`release_equipment`, does not hold.

### TurnaroundCreation, TaskTemplates and ArrivalHandling

`TurnaroundCreation` is `TurnaroundService.createTurnaround`
(`turnaround.service.ts:34-118`), called by the consumer of `flight.arrived` and by
`POST /api/turnarounds`, with `WeatherService`'s cache that all calls share. Each
action is the code from one await to the next.

| TLA+ | Code |
|---|---|
| `documents`, `announced` | the collection, and the turnarounds whose `turnaround.started` was published |
| `cache`, `fetchedAt`, `now` | `cachedWeather`, `lastFetchAt`, `Date.now()` in units of the five minutes a report is kept |
| `calls[c]` | one call: its place, when its fetch began, and the reports its plan rests on |
| `Find` | `findByFlightId`: an existing turnaround ends the call |
| `AskWeather`, `Fetched`, `FetchRefused` | `getCurrentWeather`: the cache, or a fetch that ends with a report, an error status or an exception |
| `Create`, `PublishStarted` | `repo.create`, `publishTurnaroundStarted` |
| `DatabaseError`, `CreateUnanswered` | `Nack(true)` or a 500: the command was not applied; the insert was applied, but answered by an error |
| `Restart` | the process dies and the broker redelivers |

Weather is asked twice, for de-icing and for the duration factor, and read a third time,
without a fetch, for the holdover; `decided`, `scaled` and `holdover` are what each saw.
`calm`, `cut` and `overlapped` are history variables the properties condition on; `cut`
has the documents whose call ended after the insert and before the announcement, by a
restart or because the insert was answered by an error. The index on `flightId` is not
unique, so two calls that overlap do create two turnarounds: `OneTurnaroundPerFlight`
says that nothing else does.

`TaskTemplates` holds the templates, their scaling and the injection of de-icing as
operators; a turnaround's tasks are computed from its plan by `TasksOf`. The sort of the
code is stable and by the number of a task: `ByOrder` puts each task at the place that
the tasks preceding it leave (`Preceding`). `SoundTaskList` is what a list must look like:
the template of its type, numbered in order, with de-icing right before boarding exactly
when the report asks for it, each task with a time.

`ArrivalHandling` is the promise: an arrival is announced, its flight gets a
turnaround, the arrival is handled; each announced arrival is handled in the end.
`TurnaroundCreation` implements it (`NoArrivalForgotten`) with the mapping in
`Promise`: a message is announced from its publish until its handler ends, and the
flights served are those with a document.

Properties: `OneTurnaroundPerFlight`, `UnannouncedMeansCut` (nothing else leaves a
turnaround unannounced: failing look-ups, refused fetches and commands that were not
applied cost no announcement, nor does a redelivery that finds another call's document),
`TaskListsAreSound`, `OneReportPerPlan`, `NoArrivalForgotten`.

### Milestones

`TurnaroundService.updateMilestones` (`turnaround.service.ts:219-261`): any number of
PATCH requests for the milestones of one turnaround, each a read with the order
checks (`Find`), an atomic write of the request's fields alone (`Write`) and the
event (`Publish`). The module has the three milestones that are compared; the other
four are written alike and compared with nothing. Unset milestones, in the document
or in a request, are `Unset`.

Properties: `OrderedWhenSerial` (the two comparisons suffice to keep TOBT, TSAT and
AOBT in order, whichever fields successive requests set; calls that overlap can break
the order, since each is checked against what it read), `ChangedByOwnerOnly` (calls
that overlap bring back nothing). AOBT is not compared with TOBT while TSAT is
missing, and the module follows the code in this.

### FlightUpdates

The Flight Service's creation and PATCH of flights (`flight_service.go:30-210`,
`flight_repo.go`, `gate_repo.go:46-69`). Each action is one SQL statement or one
publish of a request's goroutine; requests run beside each other without locks.

| TLA+ | Code |
|---|---|
| `flights` | table `flights`: status, `actual_arrival`, gate and scheduled times of a row |
| `calls[c]` | one PATCH: `before` and `after` are `existing` and `flight` of `UpdateFlight`, `found` the conflicting flights still to be reported |
| `told`, `moved`, `conflicts` | status events in the order of publishing, gate events, gate conflicts |
| `CreateFlight` | `CreateFlight`: one insert, no event |
| `Begin`, `Update` | `GetByID`; `repo.Update`, which writes the fields of the request alone |
| `PublishStatus`, `PublishGate` | `publishStatusEvents` |
| `Check`, `PublishConflict` | `checkGateConflicts` |
| `DatabaseError`, `Crash` | a statement fails: 422 before the write, logged after it; the process dies |
| `UpdateUnanswered` | the `UPDATE` was committed, but answered by an error: 422, and no event |

A row without a time has `None`, as the query's `COALESCE` and comparisons with `NULL`
have it. `cut`, `overlapped`, `reached` and `unchecked` are history variables: flights of
which an event was lost, flights whose updates ran at the same time, the statuses a
flight was given, and flights that came to their gate, or back to work at it, without a
search. The last one is there because `CreateFlight` never searches and a PATCH searches
only when it changes the gate. `cut` has the flights an event of which was lost by a
failed publish, a failed query, or a crash or an error between the write and its events
(`Losing`, `UpdateUnanswered`): there is no outbox, so such an event is lost for good,
and what is said of events is said of all other flights.

Properties: `EventsTellTheStory` (updates of a flight that come one at a time leave
an unbroken chain of status events; racing ones need not, as both may start from the
same old status), `EveryStatusAnnounced` (even racing updates announce each new
status), `GateConflictsReported` (two flights at one gate at one time are reported
although nothing locks: each searches after its own committed write, so the later
search sees both), `FieldsChangeByRequest` (racing updates of different fields keep
both).

### EventPipeline: EventBroker, FlightPublisher, EventAudit, Session, QueryCache and LiveStream

The way of an event from a request of the Flight Service through RabbitMQ to the
audit log of the Ops Hub and to a browser tab, with the session of the tab and what
its pages show. `EventPipeline` composes the six modules, and has the faults that
two of them share: the broker stops, a connection breaks, a process is started
again.

| TLA+ | Code |
|---|---|
| `up`, `bound`, `queue` (`EventBroker`) | RabbitMQ: whether it answers, whether `ops-hub-all-queue` is declared and bound, its ready messages |
| `conn`, `fresh`, `watcher`, `attempt` (`FlightPublisher`) | `p.conn`; the connection that `connect` is setting up; where `connect` and `handleReconnect` are; failed dials |
| `DialSucceeds`, `DialFails`, `Setup`, `SetupFails` | `connect`, at start and after a loss; at start an error ends the process |
| `Register`, `Notified` | `NotifyClose`, the `select` |
| `request[e]`; `TakeChannel`, `PublishReturnsNil`, `PublishFails` | one `Publish`: it copies `p.channel` under the lock and uses the copy outside |
| `task`, `tries`, `link` (`EventAudit`) | where `start_consumer` is, failed attempts, its connection |
| `buffer`, `unacked`, `orphaned` | messages in the client; messages the broker has sent on this connection; those of lost connections it has not yet taken back |
| `Connect`, `SetupChannel`, `NextDelivery`, `Insert`, `InsertFails`, `Air`, `Ack`, `StreamEnds` | `start_consumer` from one await to the next |
| `logged`, `aired` | rows of `event_log`; what the broadcast channel was sent |
| `token`, `user`, `restoring`, `submitted` (`Session`) | the stored token, the state of `AuthProvider`, the requests of `loadUser` and of the login form |
| `path`; `AppRoutes`, `ProtectedRoute`, `Redirect` | the location of the router; where the routes of `App.tsx` lead; one `Navigate` |
| `navItems`, `filteredItems`, `FollowLink` | the links of the sidebar and the roles they are shown to |
| `LoadSession`, `Restored`, `RestoreFails` | the tab is loaded anew; `loadUser` and the two ends of its request |
| `SubmitLogin`, `LoginSucceeds`, `LoginFails`, `Logout`, `TokenExpires`, `OtherTab` | `handleSubmit`, `login`, `logout`; the clock; another tab writes `localStorage` |
| `data[q]`, `fetch[q]`, `invalid`, `mounted` (`QueryCache`) | the cache of TanStack Query: the last answer, the request on its way with what its answer would be now, queries to fetch when they are mounted, queries in use |
| `useFlights`, `useCrew`, `useEvents`, ...; `OverviewPage`, `CrewPage`, `EventsPage`, `TopBar`, `UsedAt` | the hooks with their keys and arguments; the hooks each page uses |
| `Mount`, `Poll`, `ReadLater`, `Answered`, `FetchFails` | a fetch on mounting, at `refetchInterval`, and its end |
| `KeysOf`, `Invalidate` | the keys `onmessage` invalidates, and what that does |
| `OpenAlertsTab`, `canResolve`, `ClickResolve`, `PatchServed`, `PatchAnswered`, `PatchFails` | `EventsPage`: tabs, and `handleResolve` with its `refetch` |
| `stream`, `current`, `timers`, `connected`, `effect` (`LiveStream`) | the EventSource objects, `eventSourceRef`, pending `setTimeout(connect)`, LIVE, `isAuthenticated` when the effect ran last |
| `Accepted`, `cursor`, `Oldest` | `event_stream`: token check, subscription, lagging subscribers that skip what has left the channel |
| `RunEffect`, `TimerFires`, `OnError`, `OnMessage` | the effect of `SSEProvider`, the timer, the handlers of the EventSource |

A broken connection has three stages, as for the amqp library: `up`, `broken`
(nobody has noticed: a write may still succeed and is lost) and `closed` (noticed:
who asked with `NotifyClose` before gets the error, who asks now gets a closed
channel). What a publish on a `broken` connection or without a bound queue loses
is in `dropped`; `losses` and `unlogged` count lost connections and failed
inserts. EventSource objects are a small set of names used again.

An answer is the set of changes its table has taken when it was read: events logged,
flights changed, alerts resolved, or a count of changes that no event tells of. What
TanStack Query does is external: one fetch at a time for each query; an invalidation
starts another one, except beside the first fetch of a query; data outlives pages
and logouts. `told` and `overtaken` are history variables: the changes because of
which a query was to be fetched, and whether another tab or a late answer to
`loadUser` has meddled since the last login, logout or reload.

Properties: `OpenIsWatched` (a connection that is in use is always waited on: the
goroutine serves the next connection too), `DeliveredAtLeastOnce` (the pipeline
implements `EventDelivery`, see below; it follows that a publish without an error, on a
sound connection and with the queue bound, is logged, or its insert failed, or the
broker still holds it, which is `EveryPublishAccountedFor`), `DuplicatesOnlyAfterLoss`,
`FetchSeesChange` (a query fetched because of an event or of a resolved alert shows
it, whatever older requests were on their way), `StreamIsKept` (logins, logouts,
errors and timers in any order leave neither two streams nor none), `SessionIsOwn`
(the account shown is the one requests are made for, and the login form keeps no
token), `RoutesAgree` (redirects end, and no link of the sidebar leads elsewhere:
`Sidebar.tsx` and `App.tsx` keep the roles twice), and the liveness properties
`SentIsAudited` and `ScreenCatchesUp` (once nothing changes any more, every query on
the screen comes to show what the services hold, also those that no event
invalidates).

`EventDelivery` is the promise of at least one delivery: a publish without an error hands
its event to the broker or loses it; the broker keeps an event until it has been logged
or logging it has failed; what it does not keep is never logged. `EventPipeline`
implements it with the mapping in `Delivery`: an event is published when its request has
been answered, kept while a copy of it is in the queue or unacked on any connection, and
lost when it is `dropped` or its insert failed. Outages, losses, restarts, redelivery and
the tab are stutters of it; an insert out of a message that the broker has taken back is
a step only because the copy in the queue keeps the event.

### Monitoring: FlightStore, FlightIngestion, AlertScheduler, StandPlan and Pages

`FlightIngestion` is `run_ingestion` (`ingestion.py:25-102`), started by the trigger,
which refuses while `is_running` is set, and by the scheduler, which does not look.
`AlertScheduler` is the three jobs of the Ops Hub (`jobs.rs`) beside operators who
create, close and reopen alerts. Both meet in the flights table (`FlightStore`),
with its partial unique index and its answer 422 to a flight that exists.

| TLA+ | Code |
|---|---|
| `rows` | table `flights` |
| `running`, `runs[r]` | `_status.is_running`; one call of `run_ingestion` with the flights it has left and what it has counted |
| `Trigger`, `Tick`, `FetchArrivals`, `SkipIncomplete`, `Post`, `Answered`, `Unanswered`, `Finish`, `FetchFails` | `trigger_ingestion`, `scheduled_ingestion`, and `run_ingestion` from one await to the next |
| `Handled`, `HandledLate`, `late` | the Flight Service creates the flight, in time or after the client has given up |
| `turnarounds`, `crewed` | what the other services answer: turnarounds in progress, certifications with somebody available |
| `jobs[j]` | one run of a job: `todo` is what it found in the one answer it works from |
| `CheckTurnaroundDelays`, `CheckStuckTasks`, `CheckCrewShortage` | the fetch and the conditions of each job |
| `CrewAvailable`, `NoCrewAvailable`, `CrewUnknown` | one query of `check_crew_shortage`; a failed one counts as no crew |
| `Count`, `CountFails`, `Insert`, `InsertFails` | the `SELECT COUNT`, `unwrap_or(0)`, the `INSERT` whose result is ignored |
| `Close`, `Reopen`, `CreateAlert` | `update_alert`, `create_alert` |

An alert is known by its cause: kind, turnaround or flight, and the task or
certification in its description. `Names` is `LIKE '%name%'` on the names that
occur; the one name that contains another is `deboarding`. An operator may describe an
alert in any words, and so name every task (`AnyText`). Times are minutes ago,
and a `Situation` is what a job may find in a turnaround. A run of a job stays with
the answer it fetched while turnarounds change. `doubted`, `unraised` and `handled`
are history variables: causes whose count failed or was overtaken, causes whose
insert failed, causes a job is done with.

Properties: `StatusIsTrue` (the status and the results of overlapping, interrupted
and repeated runs say what happened to the flights), `OneOpenAlertPerCause` (only a
failed count, a run beside it or an operator makes two), `FoundMeansAlerted` (no
finding is lost but by a failed insert, or behind the alert of a deboarding task, or
behind an operator's alert whose words name it).

`StandPlan` and `Pages` are what pages of the dashboard make of an answer.

| TLA+ | Code |
|---|---|
| `occupancy`; `Row` | the answer of `GET /api/gates/occupancy`; the flights of a gate |
| `Conflict`, `conflictFlightIds` | `StandPlanPage.tsx:62-81` |
| `left`, `barEnd`, `width`, `Bar` | the block that is drawn, with its least width |
| `crew`, `assignments`; `filteredCrew`, `Availability` | the two answers of `CrewPage`; what its filters leave, and what its rows say |
| `equipment`; `filtered`, `counts`, `typeGroups` | `EquipmentPage`: the table, the cards, the overview by type |
| `services`, `answers`; `OpenSettings`, `HealthAnswered` | `SystemHealthPanel`: the four lights, its effect, an answer |

A time of the stand plan is in units of 7.2 minutes, so that a day is 200 of them,
three hours are 25 and the least width of a bar is 2. A block may end before it starts:
`gate_repo.go:78` takes the departure as it is stored, which for an ingested flight is
the departure from its origin (`mapper.py:70-71`).

Properties: `BarsTellConflicts` (two flights whose blocks are drawn as they are,
`AsDrawn`, conflict exactly when their bars overlap; bars of flights that began before
midnight keep their whole width, and for these only one direction holds), `RostersAgree`
(filters, rows, cards and groups of the crew and the equipment page say the same of each
row, though the two tables behind the crew page are read at different times),
`LightsAreAnswers` (each light shows the answer to its own request, in any order).

## Runs and bounds

| Run | Instance | Result |
|---|---|---|
| `turnaround` | 2 tasks, 3 calls, every status but `blocked` and `pending`, a crew body and an unknown task; 1 database error or restart; symmetry in calls and tasks | holds, about 91,000 states |
| `turnaround_race` | 2 tasks, 2 calls that complete tasks or note crew, no failure | `DoneMeansCompleted` violated |
| `crew` | 2 turnarounds of 2 tasks, 2 crew members with the same name, 2 coroutines, up to 2 completions (of one task or of two), 1 fault of any kind, 2 of these in all | holds, about 1.5 million states |
| `crew_double_booking` | 2 turnarounds of 1 task, 1 crew member, 2 coroutines, no fault | `NoDoubleBooking` violated |
| `crew_late_assignment` | the same | `CompletionFreesCrew` violated |
| `equipment` | 2 turnarounds of 2 tasks, 1 unit, up to 2 completions (of one task or of two), 1 request of any kind, 1 fault, 2 of these in all; symmetry in turnarounds | holds, about 515,000 states |
| `equipment_release` | 2 turnarounds of 1 task, 1 unit, 1 completion, 1 request, no fault | `ReleasedIsAvailable` violated |
| `creation` | 1 message and 1 request for 1 flight of a scaled type, 3 reports (cold and low visibility, icing, no temperature), 2 units of time, 2 faults | holds, about 351,000 states |
| `flights` | 2 flights with and without scheduled times, 3 PATCH requests with 4 bodies, 2 gates, 1 fault; symmetry in flights, requests and gates | holds, about 799,000 states |
| `pipeline` | 2 requests, 2 EventSource names; 2 dials and 2 connection attempts (5 in the code), prefetch 2 (10), channel capacity 1 (256); 2 roles, 1 alert, 3 queries followed; 9 budgets | holds, about 332,000 states |
| `monitoring` | 3 flights (one without arrival, one incomplete), 2 triggered and 1 scheduled run; 2 turnarounds, answers of 1 turnaround (100), 2 certifications, 2 runs of jobs at a time; 3 blocks at 2 gates; 2 crew members, 2 units; 4 budgets; symmetry in runs | holds, about 489,000 states |
| `milestones` | 3 calls, every request over 2 times; symmetry in calls | holds, about 1.27 million states |

Why these are enough. In `Turnaround` calls interact through one document; two tasks give
a last and a last but one task, three calls let two of them race to the end while a third
reopens or skips. `blocked` and `pending` are treated by the code like any unfinished
status. In `CrewDispatch` the races are between two coroutines, two tasks give a
turnaround with a first and a last task, two crew members let a task find someone while
another finds nobody, and one fault lets a message be handled once in part and once more
in full. Two completions may be those of one task, sent for two PATCH requests. In
`EquipmentDispatch` all tasks compete for one unit, the scarcest case: the same unit is
freed and found again between two tasks of one loop, which is where the session's copy is
stale, and is held by one, two or no assignments. Two completions of one task are what
the lost unit of `doubled` takes, and one handler left behind what a double assignment
after a lost connection takes. In `TurnaroundCreation` calls meet in one collection and
one cache; two calls let one refill the cache between two look-ups of the other, two
units of time let a report run out and a fetch end late, and two faults let an arrival be
redelivered twice, in any phase. In `Milestones` two times give order and its violation,
and the third call lets one finish while two overlap. In `FlightUpdates` two flights meet
at a gate, and three requests let two of them race on one flight while the third moves
the other; a flight created without a scheduled time gets one by its arrival. The two
compositions bound what may happen by `Budgets`: a behaviour starts with one of a few
budgets and spends it, so that the run covers a union of scenarios and not the product of
all of them. For `pipeline`: trouble between the Flight Service and the audit log (two
outages and breaks on both sides with one publish, an outage and a break of the Ops Hub
with two); three faults of the Ops Hub alone; two logins with a fault behind the stream;
three logins, logins of another tab and reloads; three clicks, for a page that is opened,
an alert that is resolved and a request that fails; a change that no event tells of
beside a click; one event beside a click, and two events for a channel of capacity one.
The services start disconnected only in the first two (`start`). `Followed` names the
queries that are followed: the event list, the list of alerts and the assignments, one
for each way a query is fetched (by a message, by a click, only at intervals); the other
queries are made alike. One PATCH is on its way at a time. Two roles see different links
and pages. With two dials the last one is not the first, with two outages a reconnection
is itself lost, and a prefetch of two leaves a message in the client behind the one in
hand. For `monitoring`: three runs of the ingestion with two faults, three runs of jobs
with two changes of the world, a failure and an operator, and an ingestion whose flights
the jobs then see. The situations lie on both sides of the limits of 50 and 75 percent
and of 1.5 times the estimate, and an answer of one turnaround out of two is an answer
that is cut. The three blocks of a stand plan begin before, at and after midnight and
late, and end before they meet, when they meet, after that, at once, before they began,
or not at all.

`TypeOK` is not part of the runs: it is a theorem, as are `AtMostOneOpenPerTask` of
`CrewDispatch`, `EveryPublishAccountedFor` of `EventPipeline` and `LightsAreAnswers` of
`Pages`. Of `Monitoring` the theorem leaves out one conjunct, that a job's `todo`
is a sequence of causes, which held on the instance above; the run spends its time on
the properties behind it.

The theorems hold for every value of the bounds. `MaxFailures`, `MaxFaults`, `MaxTime`,
`MaxEvents` (faults, completions and requests together), `Copies` (completions of one
task) and `MaxLeft` (handlers that a lost connection leaves behind) bound counters; each
is named in its module. Deadlock is not checked: when every call has ended,
or every message is handled, the instance has nothing left to do.

## Fairness

`FairSpec` of `CrewDispatch` assumes weak fairness of `Deliver(s)` and
`Handle(s)` for every slot: RabbitMQ hands a waiting message to a consumer with
prefetch left, and asyncio resumes a coroutine whose await is done. Faults are
never assumed. `QueueDrains` needs nothing stronger, since every action of
`Handle` stays enabled until it is taken or the slot is reset by a restart. The
run checks it with the faults on: an exception acks its message.

`FairSpec` of `TurnaroundCreation` assumes weak fairness of `Handle(c)` for every
message: the broker delivers what it holds, and a database command, a fetch or a
publish ends. Requests, the clock and faults are not assumed to go on. That
`NoArrivalForgotten` holds under it rests on the faults being finitely many
(`MaxFaults`): a database that fails for ever requeues for ever.

`Spec` of `EventPipeline` assumes weak fairness of the reconnecting goroutine, of a
publish that has begun, of the return of the broker after an outage, of its
deliveries and requeueing, and of the consumer task; and, in the tab, of `Mount` and,
for each query, of `Poll` or `Answered`: React renders, timers of TanStack Query fire
and a request is answered, or fails. Nothing is assumed of users, publishing requests
and faults. `ScreenCatchesUp` rests on changes and failing requests being finitely
many, which the budgets see to. `SentIsAudited` allows for the end of the consumer, which
nothing but a restart of the process undoes.

## Proofs

`TurnaroundProofs`, `CrewDispatchProofs`, `EquipmentDispatchProofs`,
`MilestonesProofs`, `TurnaroundCreationProofs`, `FlightUpdatesProofs` and
`EventPipelineProofs` each prove an inductive invariant `IInv` in the form Init => IInv,
one lemma per action, and the theorems from it; `MonitoringProofs` has one invariant for
each part of `Monitoring`. They assume only the named assumptions of the modules
(`ConstantsAssumption`, `DispatchAssumption`, `EquipmentAssumption`,
`MilestonesAssumption`, `CreationAssumption`, `FlightsAssumption`; for the pipeline
`BrokerAssumption`, `PublisherAssumption`, `AuditAssumption`, `SessionAssumption` and
`StreamAssumption`; for `Monitoring` `StoreAssumption`, `IngestionAssumption`,
`SchedulerAssumption`, `OccupancyAssumption` and `PagesAssumption`); tasks, calls,
turnarounds, crew, slots, flights, times, events, accounts, queries, streams, runs,
alerts and the bounds are arbitrary. Most of an assumption sets values apart that stand
for the absence of something. Two say something of the code: `OccupancyAssumption`, that
a flight has one block, since a flight has one gate and the query joins on its key
(`gate_repo.go:75-86`), and that the block starts before the day is over and ends, by
its departure or three hours after its arrival, after the day began, as the query has
it (nothing about its end coming after its start); and `PagesAssumption`, that
the units are finitely many. One theorem, `FetchesSeeChanges`, states a hypothesis of
its own: `None`, which stands for no answer, is not itself a set of changes.

- *Turnaround.* The properties are not inductive: they speak of the document and
  the events, while the reason they hold lies in what running calls have seen.
  `IInv` adds that a call's count is consistent with its place in the code, that a
  call that counted all tasks saw them finished (unless one was reopened), that
  all tasks finished implies some call counted them, and that status, ARDT and
  announcements come from such a call. The count of finished tasks is handled by
  one lemma on cardinalities (`CountOfFinished`), rounding by `ProgressInRange`.
  `NoLostTaskUpdate` follows from `HasSource`: the status of a task that was written is
  that of a call of its own writers. Proved: `TypeOK`, `CompletionAnnounced`,
  `CompletionJustified`, `AnnouncedAfterRecorded`, `NoLostTaskUpdate`.
- *CrewDispatch.* `IInv` says for each coroutine that its local variables are set,
  that every assignment it will report has a row, and, while no connection was
  lost, that its message is unacked and handled by nobody else, its task has no
  open row between check and insert, and the crew member it found has none in
  this turnaround. The lemma `SlotMoves` reduces a step to the slot that moves.
  `HandledInv`, relative to `IInv`, follows a first delivery through its tasks: those it
  has passed have a result or their event, those to come have no row (`Covers`). What a
  handled message leaves behind is `Settled`; a task once freed stays free, since nobody
  inserts for a turnaround whose start is acked.
  `OnceInv` says that the row of a task that was completed is one of those overtaken, or
  its start is acked and stays so (`AckedStays`); a coroutine that inserts has the start
  unacked, so that another row of its task can only be one of the overtaken.
  Proved: `TypeOK`, `AtMostOneOpenPerTask`, `NoDoubleBookingWithinTurnaround`,
  `AssignedEventsAreTrue`, `EveryTaskAnswered`, `FreedUnlessOvertaken`,
  `AssignedOnceUnlessOvertaken`.
- *EquipmentDispatch.* `CallInv` says of each call that its local variables are set, that
  what it will report has a row (`Backed`), that its task has no open row between check
  and insert (`Unbooked`), and that a completion on its way to release has an open row of
  its own on its unit (`Owning`): so the one open row it selects is its own. That row is
  not closed under it because whoever else could close it would be releasing the unit for
  the same task, which `doubled` tells (`Alone`). `NoneLeft` says that no handler is left
  behind before a connection is lost, `InOrder` that the first completion of a task is
  published before the others. `NoUnitLostByHandlers` needs `Guarded` besides: a
  completion that loaded its unit as available, and so will not write the status, finds
  it `in_use` only while another row holds the unit, and no running release can select
  that row, since the completion's own is open beside it (`Shared`). A connection loss
  moves the state of a handler to its left behind copy, under which both still hold
  (`Continues`, `LossContinues`). `ConsistentWhenSerial` is kept by a longer invariant,
  `SerialInv`: as long as calls were serial one call at most is active, its copy of the
  unit is current, and a unit has one holder at most (`LossSerial` for a lost
  connection). Proved: `TypeOK`, `AtMostOneOpenPerTask`, `AssignedEventsAreTrue`,
  `OnlyOwnAssignmentReleased`, `NoUnitLostByHandlers`, `ConsistentWhenSerial`.
- *Milestones.* `IInv` adds that a call that has written saw its own fields in the
  document it will publish (`WrittenFields`), and that without overlap the document
  is still the one a call at its write was checked against (`Serial`). Proved:
  `TypeOK`, `OrderedWhenSerial`, `ChangedByOwnerOnly`.
- *TurnaroundCreation.* `IInv` says that a call plans for its own flight, that no
  fetch starts in the future, that what a call will announce is a document of its
  flight (`Placed`), what a calm call knows of the cache (`Calm`), and that a flight
  without overlap has at most one call at work, and no document while that call
  creates one (`Dedup`). `QuietStep` reduces the steps of one call, `WideStep` those
  that touch every call. Proved: `TypeOK`, `OneTurnaroundPerFlight`,
  `UnannouncedMeansCut`, `OneReportPerPlan`, and `PromiseKept`, the step simulation
  of `ArrivalHandling`: `Stages` and `Served` are the mapped state, and `Mapped`
  restates the abstract actions on them. That the lists
  themselves are sound, `TaskListsAreSound`, is computed symbolically: `OrderIsPlace`
  says that sorting tasks that are numbered by their places changes nothing,
  `DeIcingPlace` where the injected task goes among a template's, `RoundedIsHalfAtLeast`
  and `ScalingKeepsTasks` that scaling leaves every task some time, and
  `TypeHasTemplate` and `JoinedLists` join them to the list of each type (`ListIsSound`).
- *FlightUpdates.* `IInv` says what a request has read and written (`Prepared`), that a
  row has a status of its history, and that each status of the history is announced or
  about to be. `GateConflictsReported` is about requests at rest and not inductive:
  `SerialInv` says that a request which updates a flight alone knows its row, and
  `Watched` that two flights that share a gate are reported or a request of one of them
  has still to search or to report (`Seeks`). An update that leaves the gate alone
  leaves the sharing as it was (`OverlapByTimes`), one that changes it seeks, and a
  search made for the row as it is finds every flight that shares it
  (`SharedIsFound`). `StoryInv` is about flights whose requests came one at a time and
  lost no event: their status events chain (`Chained`), the last ends at the status
  (`Latest`), or the one request at work is about to publish the change between
  (`Announcing`). Proved: `TypeOK`, `EveryStatusAnnounced`, `GateConflictsReported`,
  `FieldsChangeByRequest`, `EventsTellTheStory`.
- *EventPipeline.* `IInv` has one part for each component. `AuditInv`: while the link is
  up the client holds just what the broker has sent and not seen acked, and the message
  in hand has been logged, or its insert has failed, before it is broadcast and acked;
  hence an ack never takes an event from the broker too early. `SessionInv` is
  `SessionIsOwn` with its types. `StreamInv`: only the current stream can be live, and
  while the user is logged in it is, or a timer is pending. Relative to `IInv`,
  `CacheInv` says where a query keeps what it was told of: in its table, in the answer on
  its way, and in its data once nothing is to be fetched. `CopiesInv` says that the
  broker has an event once at most in the queue and in both kinds of unacked messages,
  and that rows, copies to be delivered and copies the consumer has yet to insert are at
  most one more than the connections lost: a loss gives one copy back, an insert makes a
  row of one. `DeliveryIsKept` is the step simulation of `EventDelivery`: `Mapped`
  restates its actions on `Sent`, `Kept` and `Lost`, one lemma for each component says
  what its steps become, and `HeldInv` that what is in the client is still kept by the
  broker when it is inserted, because a lost connection moves it to `orphaned` and from
  there to the queue, and nothing but its ack takes it out. `Once` and the `Items` of
  `Append`, `Tail` and `\o` have lemmas of their own. Proved: `TypeOK`, `OpenIsWatched`,
  `EveryPublishAccountedFor`, `DuplicatesOnlyAfterLoss`, `StreamIsKept`, `SessionIsOwn`,
  `RoutesAgree`, `FetchSeesChange`, `DeliveredAtLeastOnce`.
- *Monitoring.* The parts share the flights table, which only the ingestion writes, and
  the budget, so that their invariants are kept apart. `CountedInv`: a run has a result
  for each flight it has taken off its listing and is at the one after (`Progress`), its
  results are true of the table (`Reports`), `is_running` tells whether a run goes on
  until two have overlapped (`Busy`), and a flight has as many rows at least as there
  are places of listings for which one was made, reported or about to be (`CountedIn`);
  the answer 201 adds one to both. `AlertsInv`: a run that is about to insert does so
  for a cause without an open alert, and no two are for one cause, unless its count is
  in doubt (`Inserting`); what was handled has an alert, failed, or is hidden
  (`Explained`). `ShownInv` says what the pages hold; `BarsTellConflicts` is then
  arithmetic on two blocks (`BlockBar`), and `RostersAgree` counts units by status and
  by type (`TypesSplit`, `SumOfTwo`). Proved: `StatusIsTrue`, `OneOpenAlertPerCause`,
  `FoundMeansAlerted`, `BarsTellConflicts`, `RostersAgree`, `LightsAreAnswers`, and
  `TypeOK` but for `todo`.

Only model-checked, since out of the prover's reach: that `todo` of a job is a sequence
of causes, which rests on the recursive `FlattenSeq`; and liveness under fairness, which
is `QueueDrains`, `SentIsAudited`, `ScreenCatchesUp` and the fairness of
`ArrivalHandling` in `NoArrivalForgotten`.

## Findings

1. `turnaround.service.ts:186`: the progress write carries the status the call
   read, and can turn a completed turnaround back to `in_progress` for good
   (run `turnaround_race`).
2. `assignment_service.py:112`: two concurrent `turnaround.started` messages book
   the same person (run `crew_double_booking`).
3. `assignment_service.py:177`: a completion handled before the assignment of its
   task is committed frees nobody, and the crew member stays busy for good (run
   `crew_late_assignment`).
4. `equipment_service.py:156`: a manual release that loaded the unit before a
   handler assigned it closes the new assignment without writing the status; the
   unit stays `in_use` for good (run `equipment_release`).

Seen while modelling, and part of the models, but without a run of their own:

- `assignment_service.py:89` says "Idempotent: skips tasks that already have an
  assignment for this turnaround"; the check looks for open assignments only. A task
  that is assigned, completed and freed before its `turnaround.started` is acked is
  assigned anew when a restart makes the broker deliver that message again, and nothing
  frees that crew member any more. `AssignedOnceUnlessOvertaken` says that this is the
  only way: without its exception for `overtaken` tasks it does not hold.
- `turnaround.service.ts:96`: an insert that MongoDB has applied but answers with an error
  makes the consumer requeue the arrival (`flight-event.consumer.ts:77-83`); delivered
  again, it finds the turnaround and is acked. That turnaround is never announced, so it
  gets neither crew nor equipment. A restart between insert and publish does the same.
  `UnannouncedMeansCut` excepts both, and says that nothing else does.
- `turnaround.service.ts:191`: each PATCH to `completed` publishes a completion, the
  second one too. When two of one task are handled at a time, both find its row; after
  the first has released the unit another turnaround may be assigned it, and the second
  closes that assignment (`equipment_service.py:143`), leaving the unit `in_use` for good
  if it had loaded it as available. `NoUnitLostByHandlers` and
  `OnlyOwnAssignmentReleased` except the units in `doubled` for this alone.
- `consumer.py:34`: after a lost connection the broker delivers again what is still being
  handled, and two coroutines assign one task twice, crew and equipment alike
  (`equipment_service.py:198`): both check before either inserts. From then on
  `scalar_one_or_none` raises for that task, at its completion too, which therefore
  closes neither row. `AtMostOneOpenPerTask` of both modules excepts lost connections.
- `mapper.py:70-71` stores the departure from the origin as the flight's
  `scheduled_departure`. On the stand plan such a flight ends before it begins: its block
  is drawn at the least width and it is marked as in conflict only with flights that are
  at the gate all the time between. `BarsTellConflicts` is exact only for bars `AsDrawn`.
- `rabbitmq_publisher.go:103` says of `handleReconnect` "Runs until Close() is
  called". After five failed dials it goes round its loop with the connection that
  is closed; `NotifyClose` then returns a closed channel, the receive gives `nil`,
  and the goroutine ends as if `Close` had been called. The same happens when the
  new connection is closed between `connect` and `NotifyClose`. The service
  publishes nothing until it is started again. `OpenIsWatched` is about connections
  that are open, and holds.
- `consumer.rs:2` says "Every event is logged". An event whose insert fails is
  acked and broadcast; the task also ends for good when its stream ends
  (`unlogged`, `task = "ended"`).
- `ingestion.py:72` expects a flight that exists to be answered with 409, or 500 and
  "duplicate"; the Flight Service answers every error with 422
  (`flight_handler.go:50`), so such flights are counted as errors at each run.
- `jobs.rs:218` says the alert of a stuck task is found "by turnaround_id + task
  name". The pattern for `boarding` also matches `deboarding`, whose open alert
  hides it.
- `jobs.rs:3` says the jobs are tolerant of errors. A failed crew query counts as no
  crew and raises a critical alert, and a failed count as no alert.
- Answers are limited to the 100 newest turnarounds (`jobs.rs:115`): older ones in
  progress are never looked at.
- `AuthContext.tsx:26-29`: the answer to `loadUser` is applied whenever it comes. A
  late one brings back the account of the old token over a newer login, or a failed
  one clears the token of that login; then the tab shows one account and makes its
  requests as another, or as nobody. `SessionIsOwn` excepts just this (`overtaken`),
  and what other tabs do.
- `SSEContext.tsx:45-54` invalidates `["upcoming-arrivals"]`, a key that no query has,
  and neither `["assignments"]` nor `["gate-occupancy"]`; a message that comes while a
  query is fetched for the first time starts no other fetch. The interval makes up
  for all of this (`ScreenCatchesUp`).
- `StandPlanPage.tsx:97` counts conflicts as half of the flights in conflict: 1.5 for
  three flights of which each meets another. A bar that begins before midnight is cut
  on the left and keeps its width (`StandPlanPage.tsx:152`), so that it reaches too
  far to the right.
- Pages show a failed first query as an empty list, and the query cache is not cleared
  at a logout: the next account sees the data of the one before until it is fetched.
- `SSEContext.tsx:62-66`: a refused token, like an error, starts the timer; a tab
  whose token has expired tries again every three seconds for ever.

## Not modelled

- Authentication, health and metrics endpoints, read-only queries, and CRUD of crew
  members, certifications and shifts: single statements that nothing else relies on.
- Of the dashboard: the filters of the flights and turnarounds pages, Ingest Now, the
  ingestion and user panels of the settings, the weather widget, charts and
  formatting. They render what queries return, or send one request.
- The weather update of the Data Ingestion Service, which replaces one variable,
  and its configuration.
- Wording and layout of payloads, logging, backoff times.
- The composition of all services from an arrival to a completed turnaround. The
  state spaces of its parts are at a million states each; the interfaces are in the
  modules instead, as the messages and bodies a component may get from another: any
  order, any repetition that the broker and the publishers allow.

## Plan

1. What is left of the dashboard: the filters of the flights and turnarounds pages,
   Ingest Now and the ingestion panel.
