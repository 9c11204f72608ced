----------------------------- MODULE Turnaround -----------------------------
(***************************************************************************)
(* One turnaround document of the Turnaround Service and the calls of      *)
(* TurnaroundService.updateTask that run on it: PATCH requests of clients  *)
(* and the crew.assigned / equipment.assigned consumers.  The service is a *)
(* Node process, so a call runs alone between two awaits, and every await  *)
(* (a MongoDB command, a publish) is a point where other calls run.  Each  *)
(* MongoDB command is atomic on the document.                              *)
(*                                                                         *)
(* Timestamps are modelled by the call that wrote them.  notes and         *)
(* assignedEquipmentId are written exactly as assignedCrewId is, so one    *)
(* field, crew, stands for the three.                                      *)
(***************************************************************************)
EXTENDS Integers, FiniteSets

CONSTANTS
  Tasks,        \* the embedded tasks of the turnaround
  Requests,     \* the calls of updateTask; each runs once
  Crews,        \* values of assignedCrewId
  Dtos,         \* the UpdateTaskDto bodies the callers send
  Unknown,      \* a task id the turnaround does not have
  None,         \* an absent field
  MaxFailures   \* bound on database errors and restarts

TaskStatus == {"pending", "in_progress", "completed", "blocked", "skipped"}

ASSUME ConstantsAssumption ==
  /\ IsFiniteSet(Tasks) /\ Tasks # {}
  /\ Unknown \notin Tasks
  /\ None \notin TaskStatus \cup Requests \cup Crews \cup Dtos
  /\ Dtos \subseteq [task : Tasks \cup {Unknown},
                     status : TaskStatus \cup {None},
                     crew : Crews \cup {None}]
  /\ MaxFailures \in Nat

VARIABLES
  tasks,        \* the tasks array
  status,       \* the turnaround's status
  progress,     \* progressPercent
  ardt,         \* milestones.ardt
  completedAt,  \* the turnaround's completedAt
  calls,        \* the local state of each call
  events,       \* events the broker took
  swallowed,    \* events whose publish failed; the error is only logged
  failures,     \* database errors and restarts so far
  reopened      \* history: a finished task was set back to an unfinished status

vars == <<tasks, status, progress, ardt, completedAt,
          calls, events, swallowed, failures, reopened>>

record == <<status, progress, ardt, completedAt>>

Time == Requests \cup {None}

TaskRecord == [status : TaskStatus, startedAt : Time, completedAt : Time,
               crew : Crews \cup {None}]

\* create() leaves the document in_progress; no code ever writes pending,
\* delayed or cancelled.
TurnaroundStatus == {"in_progress", "completed"}

Event == [type : {"turnaround.task.completed", "turnaround.completed"},
          by : Requests]

\* Where a call stands: the await it resumes from next.
Pc == {"idle", "write", "progress", "taskEvent", "ardt", "complete",
       "announce", "done", "rejected", "failed"}

CallState == [pc : Pc,
              dto : Dtos \cup {None},
              seen : [Tasks -> TaskRecord] \cup {None},
              status : TurnaroundStatus,
              count : Nat]

----------------------------------------------------------------------------

Finished(task) == task.status \in {"completed", "skipped"}

CompletedCount(ts) == Cardinality({t \in DOMAIN ts : Finished(ts[t])})

Total == Cardinality(Tasks)

\* Math.round(count / total * 100)
Progress(count) == (200 * count + Total) \div (2 * Total)

\* Every task was finished in the document the call's write returned.
SawAllFinishedOffByOne(c) == c.count + 1 >= Total

SawAllFinished(c) == c.count = Total

\* The task after $set of the fields built from dto.  startedAt is decided on
\* the document read before, everything else on dto alone.
WrittenTask(task, dto, before, r) ==
  [status |-> IF dto.status = None THEN task.status ELSE dto.status,
   startedAt |-> IF dto.status = "in_progress" /\ before.startedAt = None
                 THEN r ELSE task.startedAt,
   completedAt |-> IF dto.status = "completed" THEN r ELSE task.completedAt,
   crew |-> IF dto.crew = None THEN task.crew ELSE dto.crew]

\* Where a call goes once its task event, if any, has been published.
AfterTaskEventAnnounce(c) == IF SawAllFinished(c) THEN "announce" ELSE "done"

AfterTaskEvent(c) == IF SawAllFinished(c) THEN "ardt" ELSE "done"

AfterProgress(c) ==
  IF c.dto.status = "completed" THEN "taskEvent" ELSE AfterTaskEvent(c)

\* The publisher hands the event to the broker, or logs the failure and goes on.
Publish(event) ==
  \/ events' = events \cup {event} /\ UNCHANGED swallowed
  \/ swallowed' = swallowed \cup {event} /\ UNCHANGED events

Goto(r, pc) == calls' = [calls EXCEPT ![r].pc = pc]

Announcement(r) == [type |-> "turnaround.completed", by |-> r]

----------------------------------------------------------------------------

Init ==
  /\ tasks = [t \in Tasks |-> [status |-> "pending", startedAt |-> None,
                               completedAt |-> None, crew |-> None]]
  /\ status = "in_progress"
  /\ progress = 0
  /\ ardt = None
  /\ completedAt = None
  /\ calls = [r \in Requests |-> [pc |-> "idle", dto |-> None, seen |-> None,
                                  status |-> "in_progress", count |-> 0]]
  /\ events = {}
  /\ swallowed = {}
  /\ failures = 0
  /\ reopened = FALSE

\* findById and the lookup of the task in the document it returned.
FindTask(r) ==
  /\ calls[r].pc = "idle"
  /\ \E dto \in Dtos :
       \/ /\ dto.task \in Tasks
          /\ calls' = [calls EXCEPT ![r].pc = "write", ![r].dto = dto,
                                    ![r].seen = tasks]
       \/ /\ dto.task \notin Tasks
          /\ calls' = [calls EXCEPT ![r].pc = "rejected", ![r].dto = dto]
  /\ UNCHANGED <<tasks, record, events, swallowed, failures, reopened>>

\* findOneAndUpdate on the one task, returning the document after the update;
\* the call keeps that document's status and its count of finished tasks.
WriteTaskCountingBefore(r) ==
  LET dto == calls[r].dto
      t == dto.task
      new == WrittenTask(tasks[t], dto, calls[r].seen[t], r)
  IN  /\ calls[r].pc = "write"
      /\ tasks' = [tasks EXCEPT ![t] = new]
      /\ reopened' = (reopened \/ (Finished(tasks[t]) /\ ~Finished(new)))
      /\ calls' = [calls EXCEPT ![r].pc = "progress", ![r].seen = None,
                                ![r].status = status,
                                ![r].count = CompletedCount(tasks)]
      /\ UNCHANGED <<record, events, swallowed, failures>>

WriteTaskWholeArray(r) ==
  LET dto == calls[r].dto
      t == dto.task
      seen == calls[r].seen
      new == WrittenTask(seen[t], dto, seen[t], r)
  IN  /\ calls[r].pc = "write"
      /\ tasks' = [seen EXCEPT ![t] = new]
      /\ reopened' = (reopened \/ (Finished(tasks[t]) /\ ~Finished(new)))
      /\ calls' = [calls EXCEPT ![r].pc = "progress", ![r].seen = None,
                                ![r].status = status,
                                ![r].count = CompletedCount(tasks')]
      /\ UNCHANGED <<record, events, swallowed, failures>>

WriteTask(r) ==
  LET dto == calls[r].dto
      t == dto.task
      new == WrittenTask(tasks[t], dto, calls[r].seen[t], r)
  IN  /\ calls[r].pc = "write"
      /\ tasks' = [tasks EXCEPT ![t] = new]
      /\ reopened' = (reopened \/ (Finished(tasks[t]) /\ ~Finished(new)))
      /\ calls' = [calls EXCEPT ![r].pc = "progress", ![r].seen = None,
                                ![r].status = status,
                                ![r].count = CompletedCount(tasks')]
      /\ UNCHANGED <<record, events, swallowed, failures>>

\* updateStatus(turnaroundId, updated.status, {progressPercent}): both values
\* come from the document WriteTask returned, whatever was written since.
WriteProgress(r) ==
  /\ calls[r].pc = "progress"
  /\ status' = calls[r].status
  /\ progress' = Progress(calls[r].count)
  /\ Goto(r, AfterProgress(calls[r]))
  /\ UNCHANGED <<tasks, ardt, completedAt, events, swallowed, failures, reopened>>

PublishTaskCompleted(r) ==
  /\ calls[r].pc = "taskEvent"
  /\ Publish([type |-> "turnaround.task.completed", by |-> r])
  /\ Goto(r, AfterTaskEvent(calls[r]))
  /\ UNCHANGED <<tasks, record, failures, reopened>>

WriteArdt(r) ==
  /\ calls[r].pc = "ardt"
  /\ ardt' = r
  /\ Goto(r, "complete")
  /\ UNCHANGED <<tasks, status, progress, completedAt,
                 events, swallowed, failures, reopened>>

WriteCompleted(r) ==
  /\ calls[r].pc = "complete"
  /\ status' = "completed"
  /\ progress' = 100
  /\ completedAt' = r
  /\ Goto(r, "announce")
  /\ UNCHANGED <<tasks, ardt, events, swallowed, failures, reopened>>

PublishTurnaroundCompleted(r) ==
  /\ calls[r].pc = "announce"
  /\ Publish(Announcement(r))
  /\ Goto(r, "done")
  /\ UNCHANGED <<tasks, record, failures, reopened>>

Running(r) == calls[r].pc \notin {"idle", "done", "rejected", "failed"}

\* A MongoDB command of the call rejects.  The client gets an error; a consumer
\* answers Nack(true), and its redelivery is another call with the same dto.
DatabaseError(r) ==
  /\ calls[r].pc \in {"write", "progress", "ardt", "complete"}
  /\ failures < MaxFailures
  /\ failures' = failures + 1
  /\ calls' = [calls EXCEPT ![r].pc = "failed", ![r].seen = None]
  /\ UNCHANGED <<tasks, record, events, swallowed, reopened>>

\* The process dies: every call it was running ends where it stands.
Restart ==
  /\ failures < MaxFailures
  /\ \E r \in Requests : Running(r)
  /\ failures' = failures + 1
  /\ calls' = [r \in Requests |->
                 IF Running(r)
                 THEN [calls[r] EXCEPT !.pc = "failed", !.seen = None]
                 ELSE calls[r]]
  /\ UNCHANGED <<tasks, record, events, swallowed, reopened>>

Step(r) ==
  \/ FindTask(r)
  \/ WriteTask(r)
  \/ WriteProgress(r)
  \/ PublishTaskCompleted(r)
  \/ WriteArdt(r)
  \/ WriteCompleted(r)
  \/ PublishTurnaroundCompleted(r)

Next == Restart \/ \E r \in Requests : Step(r) \/ DatabaseError(r)

Spec == Init /\ [][Next]_vars

----------------------------------------------------------------------------

\* Types of the document, the calls and the events.
TypeOK ==
  /\ tasks \in [Tasks -> TaskRecord]
  /\ status \in TurnaroundStatus
  /\ progress \in 0..100
  /\ ardt \in Time
  /\ completedAt \in Time
  /\ calls \in [Requests -> CallState]
  /\ events \subseteq Event
  /\ swallowed \subseteq Event
  /\ failures \in Nat
  /\ reopened \in BOOLEAN

AllFinished == \A t \in Tasks : Finished(tasks[t])

Announced == \E r \in Requests : Announcement(r) \in events \cup swallowed

\* However the calls interleave, once every task is finished some call has
\* handed turnaround.completed to the publisher, or is still on its way there,
\* or was cut short by a database error or a restart after it had seen every
\* task finished: no order of concurrent updates loses the completion.
CompletionAnnounced ==
  AllFinished =>
    \/ Announced
    \/ \E r \in Requests : calls[r].pc = "failed" /\ calls[r].count = Total
    \/ \E r \in Requests : Running(r) /\ calls[r].count = Total

\* The turnaround is never declared over too early: while no finished task has
\* been reopened, a completed status, an ARDT milestone or a turnaround.completed
\* event means that every task is finished now.
CompletionJustified ==
  \/ reopened
  \/ AllFinished
  \/ /\ status = "in_progress"
     /\ ardt = None
     /\ ~Announced

\* turnaround.completed leaves the service only after the document it describes
\* was recorded: ARDT and completedAt are both set by then.
AnnouncedAfterRecorded ==
  Announced => ardt # None /\ completedAt # None

\* The calls whose write of the task's status took effect.
StatusWriters(t) ==
  {r \in Requests : /\ calls[r].dto # None
                    /\ calls[r].dto.task = t
                    /\ calls[r].dto.status # None
                    /\ calls[r].pc \notin {"write", "failed"}}

\* The positional update never undoes another call's work: a task some call has
\* set has the status one of its own writers gave it, never a value copied back
\* from a document read before.  (A failed call may or may not have written.)
NoLostTaskUpdate ==
  \A t \in Tasks :
    StatusWriters(t) # {} =>
      \E r \in Requests : /\ calls[r].dto # None
                          /\ calls[r].dto.task = t
                          /\ calls[r].dto.status = tasks[t].status
                          /\ calls[r].pc # "write"

\* "Auto-completing the turnaround when all tasks are done": with every call
\* ended, none of them cut short, and every task finished, the turnaround is
\* completed at 100 percent.
DoneMeansCompleted ==
  (/\ AllFinished
   /\ failures = 0
   /\ \A r \in Requests : calls[r].pc \in {"idle", "done", "rejected"})
  => status = "completed" /\ progress = 100
=============================================================================
