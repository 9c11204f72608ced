---------------------------- MODULE CrewDispatch ----------------------------
(***************************************************************************)
(* The Crew Service's consumer of crew-turnaround-queue: auto-assignment   *)
(* of crew on turnaround.started, freeing of crew on                       *)
(* turnaround.task.completed, and the crew.assigned / crew.unavailable     *)
(* events it publishes.                                                    *)
(*                                                                         *)
(* The broker hands out up to prefetch_count messages and the service runs *)
(* one coroutine per message, here a slot of Slots; every SQL statement is *)
(* an await.  The session is READ COMMITTED, so a query sees what has been *)
(* committed before it, whoever wrote it.  Messages that are not acked     *)
(* when the process dies or the connection drops keep their place in the   *)
(* queue and are delivered again; after a mere connection loss the old     *)
(* coroutines run on.                                                      *)
(*                                                                         *)
(* Tasks without a required certification are skipped by the code and left *)
(* out; the others are the jobs 1 .. Jobs of each turnaround, in order.    *)
(* Who holds a valid certificate and is on shift is fixed (Qualified).     *)
(***************************************************************************)
EXTENDS Integers, FiniteSets, Sequences, SequencesExt

CONSTANTS
  Turnarounds,    \* turnarounds announced to the service
  Jobs,           \* number of tasks per turnaround that need a certificate
  Crew,           \* crew members
  Qualified,      \* [1..Jobs -> SUBSET Crew]: active, certified, on shift
  LastName,       \* [Crew -> Nat]: the order of last names; ties are possible
  Slots,          \* coroutines that may handle messages at the same time
  None,           \* no crew member
  Copies,         \* bound on the task.completed messages of one task
  MaxFaults,      \* bound on restarts, connection losses and SQL errors
  MaxEvents       \* bound on these and the task.completed messages together

Job == 1 .. Jobs

Copy == 1 .. Copies

ASSUME DispatchAssumption ==
  /\ Jobs \in Nat \ {0}
  /\ Qualified \in [Job -> SUBSET Crew]
  /\ LastName \in [Crew -> Nat]
  /\ None \notin Crew
  /\ Copies \in Nat \ {0}
  /\ MaxFaults \in Nat
  /\ MaxEvents \in Nat

Started(t) == [kind |-> "started", turnaround |-> t, job |-> 0, copy |-> 0]

\* The n-th task.completed of a task: there is one for every PATCH of its status.
Completed(t, k, n) == [kind |-> "completed", turnaround |-> t, job |-> k, copy |-> n]

Message == {Started(t) : t \in Turnarounds}
             \cup {Completed(t, k, n) : t \in Turnarounds, k \in Job, n \in Copy}

VARIABLES
  published,  \* messages the Turnaround Service has published
  queue,      \* messages not acked yet, in order
  unacked,    \* those of them handed to this consumer
  handlers,   \* the coroutine in each slot
  rows,       \* table task_assignments
  sent,       \* crew events handed to the publisher
  restarts,   \* times the process died
  drops,      \* times the connection was lost
  aborted,    \* history: messages whose handler ended in an exception
  overtaken   \* history: jobs freed while their turnaround.started was unacked

vars == <<published, queue, unacked, handlers, rows, sent,
          restarts, drops, aborted, overtaken>>

history == <<restarts, drops, aborted, overtaken>>

broker == <<published, queue, unacked>>

Idle == [pc |-> "idle", msg |-> None, live |-> FALSE, job |-> 0,
         found |-> None, results |-> {}]

Result == [job : Job, crew : Crew \cup {None}]

Handler == [pc : {"idle", "check", "find", "insert", "publish", "free", "ack"},
            msg : Message \cup {None},
            live : BOOLEAN,
            job : 0 .. Jobs,
            found : Crew \cup {None},
            results : SUBSET Result]

Row == [id : Nat, turnaround : Turnarounds, job : Job, crew : Crew,
        status : {"assigned", "completed"}]

\* crew is None in a crew.unavailable event.
CrewEvent == [turnaround : Turnarounds, job : Job, crew : Crew \cup {None}]

Faults == restarts + drops + Cardinality(aborted)

Completions == Cardinality({m \in published : m.kind = "completed"})

\* Bounds.
FaultAllowed == Faults < MaxFaults /\ Faults + Completions < MaxEvents

CompletionAllowed == Faults + Completions < MaxEvents

----------------------------------------------------------------------------

OpenRows(t, k) == {row \in rows : /\ row.turnaround = t
                                  /\ row.job = k
                                  /\ row.status = "assigned"}

\* NOT IN (crew of assigned rows); the status 'active' is never written.
Busy == {row.crew : row \in {x \in rows : x.status = "assigned"}}

AvailableIgnoringBusy(k) == Qualified[k]

Available(k) == Qualified[k] \ Busy

\* ORDER BY last_name LIMIT 1
FirstByName(S) == {c \in S : \A d \in S : LastName[c] <= LastName[d]}

\* The loop of auto_assign_crew goes to its next task, or to the publishing of
\* its results.
Advance(h, results) ==
  IF h.job < Jobs
  THEN [h EXCEPT !.pc = "check", !.job = @ + 1, !.found = None,
                 !.results = results]
  ELSE [h EXCEPT !.pc = IF results = {} THEN "ack" ELSE "publish",
                 !.found = None, !.results = results]

\* An exception leaves the handler; _handle_message logs it and acks.
AbortWithoutAck(s) ==
  /\ handlers' = [handlers EXCEPT ![s] = Idle]
  /\ aborted' = aborted \cup {handlers[s].msg}

Abort(s) ==
  /\ handlers' = [handlers EXCEPT ![s].pc = "ack", ![s].results = {}]
  /\ aborted' = aborted \cup {handlers[s].msg}

----------------------------------------------------------------------------

Init ==
  /\ published = {}
  /\ queue = <<>>
  /\ unacked = {}
  /\ handlers = [s \in Slots |-> Idle]
  /\ rows = {}
  /\ sent = {}
  /\ restarts = 0
  /\ drops = 0
  /\ aborted = {}
  /\ overtaken = {}

\* The Turnaround Service: a turnaround starts, later its tasks complete.
Publish(m) ==
  /\ m \notin published
  /\ published' = published \cup {m}
  /\ queue' = Append(queue, m)
  /\ UNCHANGED <<unacked, handlers, rows, sent, history>>

PublishStarted(t) == Publish(Started(t))

\* updateTask publishes at every PATCH with status completed, a repeated one too.
PublishCompleted(t, k, n) ==
  /\ IF n = 1 THEN Started(t) \in published ELSE Completed(t, k, n - 1) \in published
  /\ CompletionAllowed
  /\ Publish(Completed(t, k, n))

\* The broker hands the first waiting message to a free coroutine.
Deliver(s) ==
  /\ handlers[s].pc = "idle"
  /\ \E i \in DOMAIN queue :
       LET m == queue[i]
       IN  /\ m \notin unacked
           /\ \A j \in 1 .. i - 1 : queue[j] \in unacked
           /\ unacked' = unacked \cup {m}
           /\ handlers' = [handlers EXCEPT ![s] =
                [Idle EXCEPT !.msg = m, !.live = TRUE,
                             !.pc = IF m.kind = "started" THEN "check" ELSE "free",
                             !.job = IF m.kind = "started" THEN 1 ELSE m.job]]
  /\ UNCHANGED <<published, queue, rows, sent, history>>

CheckActiveOnly(s) ==
  /\ handlers[s].pc = "check"
  /\ handlers' = [handlers EXCEPT ![s].pc = "find"]
  /\ UNCHANGED <<broker, rows, sent, history>>

\* The idempotency check; scalar_one_or_none raises on two rows.
Check(s) ==
  LET h == handlers[s]
      open == OpenRows(h.msg.turnaround, h.job)
  IN  /\ h.pc = "check"
      /\ \/ /\ open = {}
            /\ handlers' = [handlers EXCEPT ![s].pc = "find"]
            /\ UNCHANGED aborted
         \/ /\ Cardinality(open) = 1
            /\ handlers' = [handlers EXCEPT ![s] = Advance(h, h.results)]
            /\ UNCHANGED aborted
         \/ /\ Cardinality(open) > 1
            /\ Abort(s)
      /\ UNCHANGED <<broker, rows, sent, restarts, drops, overtaken>>

\* find_available_crew
FindStopping(s) ==
  LET h == handlers[s]
      free == Available(h.job)
  IN  /\ h.pc = "find"
      /\ \/ /\ free = {}
            /\ handlers' = [handlers EXCEPT ![s].pc = "publish",
                 ![s].results = @ \cup {[job |-> h.job, crew |-> None]}]
         \/ \E c \in FirstByName(free) :
              handlers' = [handlers EXCEPT ![s].pc = "insert", ![s].found = c]
      /\ UNCHANGED <<broker, rows, sent, history>>

FindAnnouncing(s) ==
  LET h == handlers[s]
  IN  /\ h.pc = "find"
      /\ \E c \in FirstByName(Available(h.job)) :
           /\ handlers' = [handlers EXCEPT ![s].pc = "insert", ![s].found = c]
           /\ sent' = sent \cup {[turnaround |-> h.msg.turnaround,
                                  job |-> h.job, crew |-> c]}
      /\ UNCHANGED <<broker, rows, history>>

Find(s) ==
  LET h == handlers[s]
      free == Available(h.job)
  IN  /\ h.pc = "find"
      /\ \/ /\ free = {}
            /\ handlers' = [handlers EXCEPT ![s] =
                 Advance(h, h.results \cup {[job |-> h.job, crew |-> None]})]
         \/ \E c \in FirstByName(free) :
              handlers' = [handlers EXCEPT ![s].pc = "insert", ![s].found = c]
      /\ UNCHANGED <<broker, rows, sent, history>>

\* INSERT and COMMIT of the assignment found a statement earlier.
CommitAssignment(h) ==
  /\ h.pc = "insert"
  /\ rows' = rows \cup {[id |-> Cardinality(rows) + 1,
                         turnaround |-> h.msg.turnaround, job |-> h.job,
                         crew |-> h.found, status |-> "assigned"]}

Insert(s) ==
  LET h == handlers[s]
  IN  /\ CommitAssignment(h)
      /\ handlers' = [handlers EXCEPT ![s] =
           Advance(h, h.results \cup {[job |-> h.job, crew |-> h.found]})]
      /\ UNCHANGED <<broker, sent, history>>

\* The assignment is committed, but the COMMIT is answered by an error or the refresh
\* after it fails.
InsertRefreshFails(s) ==
  /\ CommitAssignment(handlers[s])
  /\ FaultAllowed
  /\ Abort(s)
  /\ UNCHANGED <<broker, sent, restarts, drops, overtaken>>

\* The results are published in the order of the tasks, after the whole loop.
\* A publish that fails is logged and forgotten, so sent holds the attempts.
PublishResult(s) ==
  LET h == handlers[s]
  IN  /\ h.pc = "publish"
      /\ \E r \in h.results :
           /\ \A q \in h.results : r.job <= q.job
           /\ sent' = sent \cup {[turnaround |-> h.msg.turnaround,
                                  job |-> r.job, crew |-> r.crew]}
           /\ handlers' = [handlers EXCEPT
                ![s].results = @ \ {r},
                ![s].pc = IF h.results = {r} THEN "ack" ELSE @]
      /\ UNCHANGED <<broker, rows, history>>

\* free_crew_member: one open row is completed, none is left alone, two raise.
\* Between its SELECT and its UPDATE only another completion of the task may write
\* the row, and writes the same, so the two are one step.
FreeActiveOnly(s) ==
  /\ handlers[s].pc = "free"
  /\ handlers' = [handlers EXCEPT ![s].pc = "ack"]
  /\ UNCHANGED <<broker, rows, sent, history>>

Free(s) ==
  LET h == handlers[s]
      t == h.msg.turnaround
      open == OpenRows(t, h.job)
  IN  /\ h.pc = "free"
      /\ \/ /\ Cardinality(open) < 2
            /\ rows' = (rows \ open) \cup {[x EXCEPT !.status = "completed"] : x \in open}
            /\ handlers' = [handlers EXCEPT ![s].pc = "ack"]
            /\ UNCHANGED aborted
         \/ /\ Cardinality(open) > 1
            /\ Abort(s)
            /\ UNCHANGED rows
      /\ overtaken' = IF \E i \in DOMAIN queue : queue[i] = Started(t)
                      THEN overtaken \cup {<<t, h.job>>}
                      ELSE overtaken
      /\ UNCHANGED <<broker, sent, restarts, drops>>

\* The handler returns and the message is acked, whatever happened to it.  An
\* ack over a connection that was lost since the delivery does not count.
Ack(s) ==
  LET h == handlers[s]
  IN  /\ h.pc = "ack"
      /\ handlers' = [handlers EXCEPT ![s] = Idle]
      /\ IF h.live
         THEN /\ unacked' = unacked \ {h.msg}
              /\ \E i \in DOMAIN queue : /\ queue[i] = h.msg
                                        /\ queue' = RemoveAt(queue, i)
         ELSE UNCHANGED <<unacked, queue>>
      /\ UNCHANGED <<published, rows, sent, history>>

\* A SQL statement fails.
SqlError(s) ==
  /\ handlers[s].pc \in {"check", "find", "insert", "free"}
  /\ FaultAllowed
  /\ Abort(s)
  /\ UNCHANGED <<broker, rows, sent, restarts, drops, overtaken>>

\* The process dies and is started again; unacked messages wait once more.
Restart ==
  /\ \E s \in Slots : handlers[s] # Idle
  /\ FaultAllowed
  /\ restarts' = restarts + 1
  /\ unacked' = {}
  /\ handlers' = [s \in Slots |-> Idle]
  /\ UNCHANGED <<published, queue, rows, sent, drops, aborted, overtaken>>

\* The connection is lost and made again under running coroutines.
ConnectionLoss ==
  /\ unacked # {}
  /\ FaultAllowed
  /\ drops' = drops + 1
  /\ unacked' = {}
  /\ handlers' = [s \in Slots |-> [handlers[s] EXCEPT !.live = FALSE]]
  /\ UNCHANGED <<published, queue, rows, sent, restarts, aborted, overtaken>>

Handle(s) ==
  \/ Check(s)
  \/ Find(s)
  \/ Insert(s)
  \/ PublishResult(s)
  \/ Free(s)
  \/ Ack(s)

Next ==
  \/ \E t \in Turnarounds : PublishStarted(t)
  \/ \E t \in Turnarounds, k \in Job, n \in Copy : PublishCompleted(t, k, n)
  \/ \E s \in Slots : Deliver(s) \/ Handle(s) \/ InsertRefreshFails(s) \/ SqlError(s)
  \/ Restart
  \/ ConnectionLoss

Spec == Init /\ [][Next]_vars

\* The broker keeps delivering and the event loop keeps running coroutines.
FairSpec == Spec /\ \A s \in Slots : WF_vars(Deliver(s)) /\ WF_vars(Handle(s))

----------------------------------------------------------------------------

\* Types of the broker, the coroutines, the table and the events.
TypeOK ==
  /\ published \subseteq Message
  /\ queue \in Seq(published)
  /\ unacked \subseteq published
  /\ handlers \in [Slots -> Handler]
  /\ rows \subseteq Row
  /\ sent \subseteq CrewEvent
  /\ restarts \in Nat
  /\ drops \in Nat
  /\ aborted \subseteq Message
  /\ overtaken \subseteq Turnarounds \X Job

\* Redelivery after a restart or an error never gives a task a second open
\* assignment: the idempotency check of auto_assign_crew holds up as long as no
\* connection loss lets two coroutines work on one message.
AtMostOneOpenPerTask ==
  drops = 0 =>
    \A x, y \in rows :
      /\ x.status = "assigned" /\ y.status = "assigned"
      /\ x.turnaround = y.turnaround /\ x.job = y.job
      => x = y

\* Restarts and errors never make a finished task be assigned anew either, unless its
\* completion was handled while its turnaround.started was still unacked: a delivery of
\* turnaround.started after that finds no open assignment.
AssignedOnceUnlessOvertaken ==
  drops = 0 =>
    \A x, y \in rows :
      x.turnaround = y.turnaround /\ x.job = y.job =>
        x = y \/ <<x.turnaround, x.job>> \in overtaken

\* One turnaround never books the same crew member for two of its tasks at once,
\* restarts included: its tasks are assigned one commit after the other.
NoDoubleBookingWithinTurnaround ==
  drops = 0 =>
    \A x, y \in rows :
      /\ x.status = "assigned" /\ y.status = "assigned"
      /\ x.turnaround = y.turnaround /\ x.crew = y.crew
      => x = y

\* crew.assigned is never published for an assignment that was not committed.
AssignedEventsAreTrue ==
  \A e \in sent :
    e.crew # None =>
      \E row \in rows : /\ row.turnaround = e.turnaround
                        /\ row.job = e.job
                        /\ row.crew = e.crew

Acked(m) == m \in published /\ \A i \in DOMAIN queue : queue[i] # m

\* A turnaround.started that was handled without a restart, a connection loss or
\* an exception is answered for every task, by crew.assigned or crew.unavailable.
EveryTaskAnswered ==
  restarts = 0 /\ drops = 0 =>
    \A t \in Turnarounds :
      Acked(Started(t)) /\ Started(t) \notin aborted =>
        \A k \in Job : \E e \in sent : e.turnaround = t /\ e.job = k

\* A completed task holds no crew, unless its completion was handled while its
\* turnaround.started was still being handled, or ended in an exception.
FreedUnlessOvertaken ==
  drops = 0 =>
    \A t \in Turnarounds, k \in Job, n \in Copy :
      /\ Acked(Completed(t, k, n))
      /\ Completed(t, k, n) \notin aborted
      /\ <<t, k>> \notin overtaken
      => OpenRows(t, k) = {}

\* Whatever is restarted, lost or raised, every message is handled in the end
\* and none circulates for ever: a handler acks even when it fails.
QueueDrains == <>[](queue = <<>>)

\* "not already assigned to an active task": no crew member has two open
\* assignments.
NoDoubleBooking ==
  \A x, y \in rows :
    x.status = "assigned" /\ y.status = "assigned" /\ x.crew = y.crew => x = y

\* "Frees the crew member for reassignment": once the service is at rest, without
\* a fault, no task whose completion it has handled holds a crew member.
CompletionFreesCrew ==
  Faults = 0 /\ queue = <<>> =>
    \A t \in Turnarounds, k \in Job :
      Completed(t, k, 1) \in published => OpenRows(t, k) = {}
=============================================================================
