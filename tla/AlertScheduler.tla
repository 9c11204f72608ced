--------------------------- MODULE AlertScheduler ---------------------------
(***************************************************************************)
(* The jobs of the Ops Hub that look for delayed turnarounds, stuck tasks  *)
(* and missing crew, and the alerts they and the operators keep.  A job    *)
(* takes what it finds from one answer of another service, and then for    *)
(* one cause after the other counts the open alerts and inserts one if     *)
(* there is none.  The cron scheduler does not wait for an earlier run.    *)
(*                                                                         *)
(* An alert is known by its cause: its kind, what it is of (a turnaround   *)
(* or a flight), and the task or certification in its description.         *)
(***************************************************************************)
EXTENDS FlightStore, SequencesExt

CONSTANTS
  Jobs,          \* runs of jobs at a time
  Turnarounds,   \* numbers, in the order of their creation
  Situations,    \* what a turnaround in progress may be found in
  Limit,         \* turnarounds in an answer
  Certs,         \* the certifications that are looked for, in order
  None           \* not in progress, no time, no name

\* Times are in minutes, started is how long ago.  A turnaround has its tasks in the
\* order of its template.
Situation == [progress : 0..100, started : Nat \cup {None},
              tasks : Seq([name : STRING, status : STRING, estimate : Nat,
                           started : Nat \cup {None}])]

\* What an operator describes an alert by may name every task or certification.  (One
\* that names none of them is never counted.)
AnyText == "any text"

ASSUME SchedulerAssumption ==
  /\ Turnarounds \subseteq Nat
  /\ Limit \in Nat \ {0}
  /\ None \notin ToSet(Certs) \cup {AnyText}
  /\ \A s \in Situations :
       /\ s.progress \in 0..100
       /\ s.started \in Nat \cup {None}
       /\ \A i \in DOMAIN s.tasks : /\ s.tasks[i].started \in Nat \cup {None}
                                    /\ s.tasks[i].name # None

VARIABLES
  turnarounds,   \* the turnarounds of the Turnaround Service
  crewed,        \* the certifications that someone has who is available
  jobs,          \* the local state of each run of a job
  alerts,        \* the table: [open, closed], how many alerts of each cause
  doubted,       \* history: causes whose count was lost or overtaken
  unraised,      \* history: causes whose insert failed
  handled        \* history: causes that a job has found and dealt with

alerting == <<turnarounds, crewed, jobs, alerts, doubted, unraised, handled>>

TaskNames ==
  UNION {{s.tasks[i].name : i \in DOMAIN s.tasks} : s \in Situations}

Cause(kind, of, what) == [kind |-> kind, of |-> of, what |-> what]

Causes ==
  {Cause("turnaround_delayed", t, None) : t \in Turnarounds}
  \cup {Cause("task_stuck", t, n) : t \in Turnarounds, n \in TaskNames \cup {AnyText}}
  \cup {Cause("crew_shortage", f, cert) : f \in Dated, cert \in ToSet(Certs) \cup {AnyText}}

SchedulerTypeOK ==
  /\ turnarounds \in [Turnarounds -> Situations \cup {None}]
  /\ crewed \subseteq ToSet(Certs)
  /\ jobs \in [Jobs -> [pc : {"idle", "query", "count", "insert"}, todo : Seq(Causes)]]
  /\ alerts \in [Causes -> [open : Nat, closed : Nat]]
  /\ {doubted, unraised, handled} \subseteq SUBSET Causes

SchedulerInit ==
  /\ turnarounds = [t \in Turnarounds |-> None]
  /\ crewed = {}
  /\ jobs = [j \in Jobs |-> [pc |-> "idle", todo |-> <<>>]]
  /\ alerts = [c \in Causes |-> [open |-> 0, closed |-> 0]]
  /\ doubted = {}
  /\ unraised = {}
  /\ handled = {}

----------------------------------------------------------------------------

Minutes(tasks) == FoldLeft(LAMBDA sum, task : sum + task.estimate, 0, tasks)

\* progress < 50 and elapsed / total > 0.75
Delayed(s) ==
  /\ Minutes(s.tasks) > 0
  /\ s.started # None
  /\ s.progress < 50
  /\ 4 * s.started > 3 * Minutes(s.tasks)

\* elapsed > estimated * 1.5
Stuck(task) ==
  /\ task.status = "in_progress"
  /\ task.started # None
  /\ 2 * task.started > 3 * task.estimate
  /\ task.estimate > 0

InProgress == {t \in Turnarounds : turnarounds[t] # None}

\* GET /api/turnarounds?status=in_progress&limit=100: the newest ones.
Listed ==
  SetToSortSeq({t \in InProgress : Cardinality({u \in InProgress : u > t}) < Limit}, >)

DelaysFound ==
  LET delayed == SelectSeq(Listed, LAMBDA t : Delayed(turnarounds[t]))
  IN  [i \in DOMAIN delayed |-> Cause("turnaround_delayed", delayed[i], None)]

StuckIn(t) ==
  LET stuck == SelectSeq(turnarounds[t].tasks, Stuck)
  IN  [i \in DOMAIN stuck |-> Cause("task_stuck", t, stuck[i].name)]

StuckFound == FlattenSeq([i \in DOMAIN Listed |-> StuckIn(Listed[i])])

\* One question to the Crew Service for each flight and certification.
ShortagesToCheck(upcoming) ==
  LET flights == SetToSeq(upcoming)
  IN  FlattenSeq([i \in DOMAIN flights |->
        [k \in DOMAIN Certs |-> Cause("crew_shortage", flights[i], Certs[k])]])

----------------------------------------------------------------------------

\* The job goes on with the causes of todo.
With(todo) ==
  [pc |-> IF todo = <<>> THEN "idle"
          ELSE IF Head(todo).kind = "crew_shortage" THEN "query" ELSE "count",
   todo |-> todo]

StartJob(j, todo) ==
  /\ jobs[j].pc = "idle" /\ Spend("job")
  /\ jobs' = [jobs EXCEPT ![j] = With(todo)]
  /\ UNCHANGED <<rows, turnarounds, crewed, alerts, doubted, unraised, handled>>

\* The answer is used as it was, whatever changes while the job runs.
CheckTurnaroundDelays(j) == StartJob(j, DelaysFound)

CheckStuckTasks(j) == StartJob(j, StuckFound)

CheckCrewShortage(j) ==
  \E upcoming \in SUBSET MayBeUpcoming : StartJob(j, ShortagesToCheck(upcoming))

Advance(j) == [jobs EXCEPT ![j] = With(Tail(jobs[j].todo))]

\* The job j deals with cause c.
At(j, pc, c) == jobs[j].pc = pc /\ Head(jobs[j].todo) = c

CrewAvailable(j, c) ==
  /\ At(j, "query", c) /\ c.what \in crewed
  /\ jobs' = Advance(j)
  /\ UNCHANGED <<rows, budget, turnarounds, crewed, alerts, doubted, unraised, handled>>

NoCrewAvailable(j, c) ==
  /\ At(j, "query", c) /\ c.what \notin crewed
  /\ jobs' = [jobs EXCEPT ![j].pc = "count"]
  /\ UNCHANGED <<rows, budget, turnarounds, crewed, alerts, doubted, unraised, handled>>

\* An error of the Crew Service counts as no crew.
CrewUnknown(j, c) ==
  /\ At(j, "query", c) /\ c.what \in crewed /\ Spend("query")
  /\ jobs' = [jobs EXCEPT ![j].pc = "count"]
  /\ UNCHANGED <<rows, turnarounds, crewed, alerts, doubted, unraised, handled>>

\* description LIKE '%name%': deboarding is the one name that contains another.
Names(d, name) ==
  \/ d.what \in {name, AnyText}
  \/ d.what = "deboarding" /\ name = "boarding"

AlikeByOrigin(c, d) == d.kind = c.kind /\ d.of = c.of

\* The alerts that the count for cause c looks at are those of the causes d.
Alike(c, d) ==
  /\ d.kind = c.kind
  /\ d.of = c.of
  /\ c.what # None => Names(d, c.what)

ExistsClosed(c) == \E d \in Causes : Alike(c, d) /\ alerts[d].closed > 0

Exists(c) == \E d \in Causes : Alike(c, d) /\ alerts[d].open > 0

\* Another run of a job has counted and is about to insert.
Overtaken(j, c) == \E k \in Jobs \ {j} : jobs[k].pc = "insert" /\ Head(jobs[k].todo) = c

Counted(j, c, exists) ==
  /\ At(j, "count", c)
  /\ jobs' = IF exists THEN Advance(j) ELSE [jobs EXCEPT ![j].pc = "insert"]
  /\ handled' = IF exists THEN handled \cup {c} ELSE handled
  /\ UNCHANGED <<rows, turnarounds, crewed, alerts, unraised>>

Count(j, c) ==
  /\ Counted(j, c, Exists(c))
  /\ doubted' = IF Overtaken(j, c) THEN doubted \cup {c} ELSE doubted
  /\ UNCHANGED budget

\* unwrap_or(0)
CountFails(j, c) ==
  /\ Spend("query")
  /\ Counted(j, c, FALSE)
  /\ doubted' = doubted \cup {c}

Insert(j, c) ==
  /\ At(j, "insert", c)
  /\ alerts' = [alerts EXCEPT ![c].open = @ + 1]
  /\ jobs' = Advance(j)
  /\ handled' = handled \cup {c}
  /\ UNCHANGED <<rows, budget, turnarounds, crewed, doubted, unraised>>

\* The result of the insert is ignored.
InsertFails(j, c) ==
  /\ At(j, "insert", c) /\ Spend("query")
  /\ unraised' = unraised \cup {c}
  /\ jobs' = Advance(j)
  /\ handled' = handled \cup {c}
  /\ UNCHANGED <<rows, turnarounds, crewed, alerts, doubted>>

----------------------------------------------------------------------------

\* PATCH of an alert to a status that is not open.
Close(c) ==
  /\ alerts[c].open > 0 /\ Spend("operator")
  /\ alerts' = [alerts EXCEPT ![c] = [open |-> @.open - 1, closed |-> @.closed + 1]]
  /\ UNCHANGED <<rows, turnarounds, crewed, jobs, doubted, unraised, handled>>

\* PATCH back to open; nothing checks the transition.
Reopen(c) ==
  /\ alerts[c].closed > 0 /\ Spend("operator")
  /\ alerts' = [alerts EXCEPT ![c] = [open |-> @.open + 1, closed |-> @.closed - 1]]
  /\ doubted' = doubted \cup {c}
  /\ UNCHANGED <<rows, turnarounds, crewed, jobs, unraised, handled>>

\* POST /api/alerts, with what a job would insert or in words of one's own.
CreateAlert(c) ==
  /\ Spend("operator")
  /\ alerts' = [alerts EXCEPT ![c].open = @ + 1]
  /\ doubted' = doubted \cup {c}
  /\ UNCHANGED <<rows, turnarounds, crewed, jobs, unraised, handled>>

TurnaroundChanges(t, s) ==
  /\ Spend("world")
  /\ turnarounds' = [turnarounds EXCEPT ![t] = s]
  /\ UNCHANGED <<rows, crewed, jobs, alerts, doubted, unraised, handled>>

CrewChanges ==
  /\ Spend("world")
  /\ crewed' \in SUBSET ToSet(Certs)
  /\ UNCHANGED <<rows, turnarounds, jobs, alerts, doubted, unraised, handled>>

\* A restart of the Ops Hub: the runs of its jobs are gone.
SchedulerRestarts ==
  /\ Spend("query")
  /\ jobs' = [j \in Jobs |-> With(<<>>)]
  /\ UNCHANGED <<rows, turnarounds, crewed, alerts, doubted, unraised, handled>>

SchedulerNext ==
  \/ \E j \in Jobs : CheckTurnaroundDelays(j) \/ CheckStuckTasks(j) \/ CheckCrewShortage(j)
  \/ \E j \in Jobs, c \in Causes :
       \/ CrewAvailable(j, c)
       \/ NoCrewAvailable(j, c)
       \/ CrewUnknown(j, c)
       \/ Count(j, c)
       \/ CountFails(j, c)
       \/ Insert(j, c)
       \/ InsertFails(j, c)
  \/ \E c \in Causes : Close(c) \/ Reopen(c) \/ CreateAlert(c)
  \/ \E t \in Turnarounds, s \in Situations \cup {None} : TurnaroundChanges(t, s)
  \/ CrewChanges
  \/ SchedulerRestarts

----------------------------------------------------------------------------

Raised(c) == alerts[c].open + alerts[c].closed > 0

\* No cause has two open alerts, unless the count of one was lost, or overtaken by
\* another run of the job or by an operator: count and insert are not one step.
OneOpenAlertPerCause ==
  \A c \in Causes : alerts[c].open > 1 => c \in doubted

\* What a job has found has had an alert by the time the job goes on, unless its insert
\* failed, or another alert hides it: that of a deboarding task one for boarding, and one
\* of an operator whatever it names.
FoundMeansAlerted ==
  \A c \in handled :
    \/ Raised(c)
    \/ c \in unraised
    \/ c.what = "boarding" /\ Raised([c EXCEPT !.what = "deboarding"])
    \/ c.kind # "turnaround_delayed" /\ Raised([c EXCEPT !.what = AnyText])
=============================================================================
