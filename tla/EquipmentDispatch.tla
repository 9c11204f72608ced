------------------------- MODULE EquipmentDispatch -------------------------
(***************************************************************************)
(* Ground support equipment in the Crew Service: the equipment half of the *)
(* handlers of turnaround.started and turnaround.task.completed, beside    *)
(* the REST operations that assign, release and update a unit.             *)
(*                                                                         *)
(* Every call, a message's handler or a request, is a coroutine of its own *)
(* with its own session, and every SQL statement is an await.  A delivered *)
(* message may wait arbitrarily long before its handler's first statement, *)
(* so no order between messages is left of the queue.  When the connection *)
(* is lost and made again, the handlers run on and their messages are      *)
(* delivered anew.                                                         *)
(*                                                                         *)
(* A session that has loaded a unit keeps the attributes it loaded: a      *)
(* later SELECT of the unit does not refresh them, and a flush writes an   *)
(* attribute only when it differs from what was loaded.                    *)
(*                                                                         *)
(* Only the tasks that need equipment are modelled, as the jobs 1 .. Jobs  *)
(* of each turnaround; units are numbered in the order of registrations.   *)
(* out_of_service is treated by the code as maintenance is.                *)
(***************************************************************************)
EXTENDS Integers, FiniteSets, Sequences

CONSTANTS
  Turnarounds,    \* turnarounds announced to the service
  Jobs,           \* number of tasks per turnaround that need a unit
  Units,          \* the units
  Suitable,       \* [1..Jobs -> SUBSET Units]: units of the type a task needs
  Clients,        \* REST requests; each runs once
  PatchStatuses,  \* statuses clients set with PATCH
  None,           \* no unit
  Copies,         \* bound on the task.completed messages of one task
  MaxLeft,        \* bound on the handlers that a connection loss leaves behind
  MaxFaults,      \* bound on restarts, connection losses and exceptions
  MaxEvents       \* bound on these, the task.completed messages and the requests

Job == 1 .. Jobs

Copy == 1 .. Copies

Started(t) == [kind |-> "started", turnaround |-> t, job |-> 0, copy |-> 0, left |-> 0]

\* The n-th task.completed of a task: there is one for every PATCH of its status.
Completed(t, k, n) ==
  [kind |-> "completed", turnaround |-> t, job |-> k, copy |-> n, left |-> 0]

StartedMessages == {Started(t) : t \in Turnarounds}

CompletedMessages == {Completed(t, k, n) : t \in Turnarounds, k \in Job, n \in Copy}

Messages == StartedMessages \cup CompletedMessages

\* The handler of m that fault g, the loss of the connection, left behind; for g = 0 the
\* one that the broker waits for, which is m itself.
Left(m, g) == [m EXCEPT !.left = g]

StartedHandlers == {Left(m, g) : m \in StartedMessages, g \in 0 .. MaxFaults}

CompletedHandlers == {Left(m, g) : m \in CompletedMessages, g \in 0 .. MaxFaults}

Handlers == StartedHandlers \cup CompletedHandlers

Calls == Handlers \cup Clients

ASSUME EquipmentAssumption ==
  /\ Jobs \in Nat \ {0}
  /\ Units \subseteq Nat
  /\ Suitable \in [Job -> SUBSET Units]
  /\ PatchStatuses \subseteq {"available", "in_use", "maintenance"}
  /\ None \notin Nat
  /\ Copies \in Nat \ {0}
  /\ MaxLeft \in Nat
  /\ MaxFaults \in Nat
  /\ MaxEvents \in Nat
  /\ Clients \cap Handlers = {}

VARIABLES
  status,      \* equipment.status of each unit
  rows,        \* table equipment_assignments; open is released_at IS NULL
  calls,       \* the local state of each call
  sent,        \* equipment events handed to the publisher
  faults,      \* restarts, connection losses and exceptions injected so far
  manual,      \* history: kinds of REST operations that took effect
  dropped,     \* history: the connection was lost
  doubled,     \* history: units that two completions of one task were releasing
  overlapped   \* history: two calls have run at the same time

vars == <<status, rows, calls, sent, faults, manual, dropped, doubled, overlapped>>

history == <<faults, manual, dropped, doubled, overlapped>>

Status == {"available", "in_use", "maintenance"}

Row == [unit : Units, turnaround : Turnarounds, job : Job, open : BOOLEAN]

Result == [job : Job, unit : Units \cup {None}]

\* unit is None in an equipment.unavailable event.
EquipmentEvent == [turnaround : Turnarounds, job : Job, unit : Units \cup {None}]

Pc == {"absent", "queued", "check", "find", "assign", "publish", "lookup",
       "load", "select", "release", "ack", "acked",
       "idle", "insert", "patch", "done"}

\* held is the unit whose object the loop of auto_assign_equipment still holds
\* from the task before, loaded what the session read as the unit's status.
Call == [pc : Pc,
         turnaround : Turnarounds \cup {None},
         job : 0 .. Jobs,
         unit : Units \cup {None},
         held : Units \cup {None},
         loaded : Status,
         row : Nat,
         results : SUBSET Result]

Fresh(pc, t, k) == [pc |-> pc, turnaround |-> t, job |-> k, unit |-> None,
                    held |-> None, loaded |-> "available", row |-> 0,
                    results |-> {}]

----------------------------------------------------------------------------

OpenOf(t, k) == {i \in DOMAIN rows : /\ rows[i].open
                                     /\ rows[i].turnaround = t
                                     /\ rows[i].job = k}

OpenOn(u) == {i \in DOMAIN rows : rows[i].open /\ rows[i].unit = u}

Resting(pc) == pc \in {"absent", "queued", "acked", "idle", "done"}

Running(c) == ~Resting(calls[c].pc)

\* Call c is releasing unit u for task k of turnaround t.
Releasing(c, t, k, u) ==
  /\ calls[c].pc \in {"load", "select", "release"}
  /\ calls[c].turnaround = t /\ calls[c].job = k /\ calls[c].unit = u

Completions == Cardinality({c \in CompletedMessages : calls[c].pc # "absent"})

Requests == Cardinality({c \in Clients : calls[c].pc # "idle"})

\* Bounds.
EventAllowed == faults + Completions + Requests < MaxEvents

FaultAllowed == faults < MaxFaults /\ EventAllowed

\* What find_available_equipment may return.
AvailableAny(k) == Suitable[k]

Available(k) == {u \in Suitable[k] : status[u] = "available"}

First(S) == {u \in S : \A v \in S : u <= v}

Advance(h, results) ==
  IF h.job < Jobs
  THEN [h EXCEPT !.pc = "check", !.job = @ + 1, !.results = results]
  ELSE [h EXCEPT !.pc = IF results = {} THEN "ack" ELSE "publish",
                 !.results = results]

\* Where a call goes when it is over: a message is acked, a request answered.
Over(c) == IF c \in Clients THEN "done" ELSE "ack"

Goto(c, pc) == calls' = [calls EXCEPT ![c].pc = pc]

Begin(c, h) ==
  /\ calls' = [calls EXCEPT ![c] = h]
  /\ overlapped' = (overlapped \/ \E d \in Calls : Running(d))

\* An exception leaves the handler; _handle_message logs it and acks, a router
\* answers 500.
Abort(c) == calls' = [calls EXCEPT ![c].pc = Over(c), ![c].results = {}]

----------------------------------------------------------------------------

Init ==
  /\ status = [u \in Units |-> "available"]
  /\ rows = <<>>
  /\ calls = [c \in Calls |->
                IF c \in Clients THEN Fresh("idle", None, 0)
                ELSE Fresh("absent", c.turnaround, c.job)]
  /\ sent = {}
  /\ faults = 0
  /\ manual = {}
  /\ dropped = FALSE
  /\ doubled = {}
  /\ overlapped = FALSE

\* The Turnaround Service publishes: a turnaround starts, later its tasks
\* complete.
Publish(c) ==
  /\ calls[c].pc = "absent"
  /\ Goto(c, "queued")
  /\ UNCHANGED <<status, rows, sent, history>>

PublishStarted(t) == Publish(Started(t))

\* updateTask publishes at every PATCH with status completed, a repeated one too.
PublishCompleted(t, k, n) ==
  /\ calls[IF n = 1 THEN Started(t) ELSE Completed(t, k, n - 1)].pc # "absent"
  /\ EventAllowed
  /\ Publish(Completed(t, k, n))

\* The crew half of the handler is over and the equipment half begins.
BeginHandler(c) ==
  /\ calls[c].pc = "queued"
  /\ Begin(c, IF c.kind = "started"
              THEN Fresh("check", c.turnaround, 1)
              ELSE Fresh("lookup", c.turnaround, c.job))
  /\ UNCHANGED <<status, rows, sent, faults, manual, dropped, doubled>>

\* The crew half raises: the equipment half is never reached.
CrewHalfFails(c) ==
  /\ calls[c].pc = "queued"
  /\ FaultAllowed
  /\ faults' = faults + 1
  /\ Abort(c)
  /\ UNCHANGED <<status, rows, sent, manual, dropped, doubled, overlapped>>

\* The idempotency check; scalar_one_or_none raises on two rows.
CheckNone(c) ==
  /\ calls[c].pc = "check"
  /\ Goto(c, "find")
  /\ UNCHANGED <<status, rows, sent, history>>

Check(c) ==
  LET h == calls[c]
      open == OpenOf(h.turnaround, h.job)
  IN  /\ h.pc = "check"
      /\ \/ /\ open = {}
            /\ Goto(c, "find")
         \/ /\ Cardinality(open) = 1
            /\ calls' = [calls EXCEPT ![c] = Advance(h, h.results)]
         \/ /\ Cardinality(open) > 1
            /\ Abort(c)
      /\ UNCHANGED <<status, rows, sent, history>>

\* find_available_equipment
FindAnnouncing(c) ==
  LET h == calls[c]
  IN  /\ h.pc = "find"
      /\ \E u \in First(Available(h.job)) :
           /\ calls' = [calls EXCEPT ![c].pc = "assign", ![c].unit = u]
           /\ sent' = sent \cup {[turnaround |-> h.turnaround,
                                  job |-> h.job, unit |-> u]}
      /\ UNCHANGED <<status, rows, history>>

Find(c) ==
  LET h == calls[c]
      free == Available(h.job)
  IN  /\ h.pc = "find"
      /\ \/ /\ free = {}
            /\ calls' = [calls EXCEPT ![c] =
                 Advance([h EXCEPT !.held = None],
                         h.results \cup {[job |-> h.job, unit |-> None]})]
         \/ \E u \in First(free) :
              calls' = [calls EXCEPT ![c].pc = "assign", ![c].unit = u]
      /\ UNCHANGED <<status, rows, sent, history>>

Insert(u, t, k) ==
  /\ rows' = Append(rows, [unit |-> u, turnaround |-> t, job |-> k, open |-> TRUE])
  /\ status' = [status EXCEPT ![u] = "in_use"]

\* assign_equipment, called by the loop.  Its get_equipment returns the object
\* the search loaded as available, so its check of the status can only fail for
\* the unit held from the task before, which this session has set in_use.
Assign(c) ==
  LET h == calls[c]
      u == h.unit
  IN  /\ h.pc = "assign"
      /\ \/ /\ u # h.held
            /\ Insert(u, h.turnaround, h.job)
            /\ calls' = [calls EXCEPT ![c] =
                 Advance([h EXCEPT !.held = u],
                         h.results \cup {[job |-> h.job, unit |-> u]})]
         \/ /\ u = h.held
            /\ calls' = [calls EXCEPT ![c] = Advance(h, h.results)]
            /\ UNCHANGED <<status, rows>>
      /\ UNCHANGED <<sent, history>>

\* The assignment is committed, but the COMMIT is answered by an error or the refresh
\* after it fails.  Of a release or a request nothing is left to do by then, so there
\* this is as if it had succeeded.
AssignRefreshFails(c) ==
  LET h == calls[c]
  IN  /\ h.pc = "assign"
      /\ h.unit # h.held
      /\ FaultAllowed
      /\ faults' = faults + 1
      /\ Insert(h.unit, h.turnaround, h.job)
      /\ Abort(c)
      /\ UNCHANGED <<sent, manual, dropped, doubled, overlapped>>

\* The results are published one after the other once the loop is over; no other
\* call sees how far this is, so it is one step.  A publish that fails is logged
\* and forgotten, and sent holds the attempts.
PublishResults(c) ==
  LET h == calls[c]
  IN  /\ h.pc = "publish"
      /\ sent' = sent \cup {[turnaround |-> h.turnaround,
                             job |-> r.job, unit |-> r.unit] : r \in h.results}
      /\ calls' = [calls EXCEPT ![c].pc = "ack", ![c].results = {}]
      /\ UNCHANGED <<status, rows, history>>

\* release_equipment is told the unit only.
StartRelease(c, u) ==
  LET h == calls[c]
  IN  /\ calls' = [calls EXCEPT ![c].pc = "load", ![c].unit = u]
      /\ doubled' = IF \E d \in Calls \ {c} : Releasing(d, h.turnaround, h.job, u)
                    THEN doubled \cup {u} ELSE doubled

\* _handle_task_completed looks for the open assignment of its task.
LookupOfUnitOnly(c) ==
  LET h == calls[c]
  IN  /\ h.pc = "lookup"
      /\ \E i \in {j \in DOMAIN rows : rows[j].open /\ rows[j].job = h.job} :
           StartRelease(c, rows[i].unit)
      /\ UNCHANGED <<status, rows, sent, faults, manual, dropped, overlapped>>

Lookup(c) ==
  LET h == calls[c]
      open == OpenOf(h.turnaround, h.job)
  IN  /\ h.pc = "lookup"
      /\ \/ /\ open = {}
            /\ Goto(c, "ack")
            /\ UNCHANGED doubled
         \/ \E i \in open :
              /\ open = {i}
              /\ StartRelease(c, rows[i].unit)
         \/ /\ Cardinality(open) > 1
            /\ Abort(c)
            /\ UNCHANGED doubled
      /\ UNCHANGED <<status, rows, sent, faults, manual, dropped, overlapped>>

\* release_equipment: the unit, its open assignment, and the commit.
Load(c) ==
  /\ calls[c].pc = "load"
  /\ calls' = [calls EXCEPT ![c].pc = "select",
                            ![c].loaded = status[calls[c].unit]]
  /\ UNCHANGED <<status, rows, sent, history>>

Select(c) ==
  LET open == OpenOn(calls[c].unit)
  IN  /\ calls[c].pc = "select"
      /\ \/ /\ open = {}
            /\ Goto(c, Over(c))
         \/ \E i \in open :
              /\ open = {i}
              /\ calls' = [calls EXCEPT ![c].pc = "release", ![c].row = i]
         \/ /\ Cardinality(open) > 1
            /\ Abort(c)
      /\ UNCHANGED <<status, rows, sent, history>>

\* The status is written only if it was not loaded as available.
ReleaseRowOnly(c) ==
  LET h == calls[c]
  IN  /\ h.pc = "release"
      /\ rows' = [rows EXCEPT ![h.row].open = FALSE]
      /\ Goto(c, Over(c))
      /\ manual' = IF c \in Clients THEN manual \cup {"release"} ELSE manual
      /\ UNCHANGED <<status, sent, faults, dropped, doubled, overlapped>>

Release(c) ==
  LET h == calls[c]
  IN  /\ h.pc = "release"
      /\ rows' = [rows EXCEPT ![h.row].open = FALSE]
      /\ status' = IF h.loaded = "available" THEN status
                   ELSE [status EXCEPT ![h.unit] = "available"]
      /\ Goto(c, Over(c))
      /\ manual' = IF c \in Clients THEN manual \cup {"release"} ELSE manual
      /\ UNCHANGED <<sent, faults, dropped, doubled, overlapped>>

\* POST /api/equipment/{id}/release
RequestRelease(c, u) ==
  /\ calls[c].pc = "idle"
  /\ EventAllowed
  /\ Begin(c, [Fresh("load", None, 0) EXCEPT !.unit = u])
  /\ UNCHANGED <<status, rows, sent, faults, manual, dropped, doubled>>

\* POST /api/equipment/{id}/assign: 409 unless the unit is read as available.
RequestAssign(c, u, t, k) ==
  /\ calls[c].pc = "idle"
  /\ EventAllowed
  /\ Begin(c, [Fresh("insert", t, k) EXCEPT
                 !.unit = u,
                 !.pc = IF status[u] = "available" THEN @ ELSE "done"])
  /\ UNCHANGED <<status, rows, sent, faults, manual, dropped, doubled>>

CommitAssign(c) ==
  LET h == calls[c]
  IN  /\ h.pc = "insert"
      /\ Insert(h.unit, h.turnaround, h.job)
      /\ Goto(c, "done")
      /\ manual' = manual \cup {"assign"}
      /\ UNCHANGED <<sent, faults, dropped, doubled, overlapped>>

\* PATCH /api/equipment/{id} with a status: read, then commit what differs.
RequestPatch(c, u) ==
  /\ calls[c].pc = "idle"
  /\ EventAllowed
  /\ Begin(c, [Fresh("patch", None, 0) EXCEPT
                 !.unit = u, !.loaded = status[u]])
  /\ UNCHANGED <<status, rows, sent, faults, manual, dropped, doubled>>

CommitPatch(c, s) ==
  LET h == calls[c]
  IN  /\ h.pc = "patch"
      /\ status' = IF s = h.loaded THEN status
                   ELSE [status EXCEPT ![h.unit] = s]
      /\ Goto(c, "done")
      /\ manual' = manual \cup {"patch"}
      /\ UNCHANGED <<rows, sent, faults, dropped, doubled, overlapped>>

\* An ack over the connection that was lost does not count.
Ack(c) ==
  /\ calls[c].pc = "ack"
  /\ calls' = [calls EXCEPT ![c] = Fresh(IF c \in Messages THEN "acked" ELSE "absent",
                                         c.turnaround, c.job)]
  /\ UNCHANGED <<status, rows, sent, history>>

\* A SQL statement fails.
SqlError(c) ==
  /\ calls[c].pc \in {"check", "find", "assign", "lookup", "load", "select",
                      "release", "insert", "patch"}
  /\ FaultAllowed
  /\ faults' = faults + 1
  /\ Abort(c)
  /\ UNCHANGED <<status, rows, sent, manual, dropped, doubled, overlapped>>

\* The process dies and is started again: messages not acked wait once more,
\* requests end.
Restart ==
  /\ \E c \in Calls : Running(c)
  /\ FaultAllowed
  /\ faults' = faults + 1
  /\ calls' = [c \in Calls |->
                 IF c \in Handlers \ Messages THEN Fresh("absent", c.turnaround, c.job)
                 ELSE IF Resting(calls[c].pc) THEN calls[c]
                 ELSE IF c \in Clients THEN Fresh("done", None, 0)
                 ELSE Fresh("queued", c.turnaround, c.job)]
  /\ UNCHANGED <<status, rows, sent, manual, dropped, doubled, overlapped>>

\* The connection is lost and made again.  The handlers of the delivered messages run
\* on, those still in their crew half too, and the messages wait once more.
ConnectionLoss ==
  /\ FaultAllowed
  /\ faults' = faults + 1
  /\ dropped' = TRUE
  /\ \E delivered \in SUBSET {m \in Messages : calls[m].pc \notin {"absent", "acked"}} :
       /\ Cardinality(delivered) \in 1 .. MaxLeft
       /\ {m \in Messages : Running(m)} \subseteq delivered
       /\ calls' = [c \in Calls |->
            IF c \in delivered THEN Fresh("queued", c.turnaround, c.job)
            ELSE IF c \in {Left(m, faults') : m \in delivered} THEN calls[[c EXCEPT !.left = 0]]
            ELSE calls[c]]
  /\ UNCHANGED <<status, rows, sent, manual, doubled, overlapped>>

HandleStarted(c) ==
  Check(c) \/ Find(c) \/ Assign(c) \/ AssignRefreshFails(c) \/ PublishResults(c)

HandleRelease(c) ==
  Lookup(c) \/ Load(c) \/ Select(c) \/ Release(c)

Request(c) ==
  \/ \E u \in Units :
       \/ RequestRelease(c, u)
       \/ RequestPatch(c, u)
       \/ \E t \in Turnarounds, k \in Job : RequestAssign(c, u, t, k)
  \/ CommitAssign(c)
  \/ \E s \in PatchStatuses : CommitPatch(c, s)

Next ==
  \/ \E t \in Turnarounds : PublishStarted(t)
  \/ \E t \in Turnarounds, k \in Job, n \in Copy : PublishCompleted(t, k, n)
  \/ \E c \in Handlers : BeginHandler(c) \/ CrewHalfFails(c) \/ Ack(c)
  \/ \E c \in StartedHandlers : HandleStarted(c)
  \/ \E c \in CompletedHandlers \cup Clients : HandleRelease(c)
  \/ \E c \in Clients : Request(c)
  \/ \E c \in Calls : SqlError(c)
  \/ Restart
  \/ ConnectionLoss

Spec == Init /\ [][Next]_vars

----------------------------------------------------------------------------

\* Types of the units, the table, the calls and the events.
TypeOK ==
  /\ status \in [Units -> Status]
  /\ rows \in Seq(Row)
  /\ calls \in [Calls -> Call]
  /\ sent \subseteq EquipmentEvent
  /\ faults \in Nat
  /\ manual \subseteq {"assign", "release", "patch"}
  /\ dropped \in BOOLEAN
  /\ doubled \subseteq Units
  /\ overlapped \in BOOLEAN

\* Redelivery after a restart or an exception never assigns a second unit to a
\* task: the idempotency check of auto_assign_equipment holds up, as long as no
\* connection loss lets two coroutines handle one turnaround.started and no client
\* assigns units by hand.
AtMostOneOpenPerTask ==
  "assign" \notin manual /\ ~dropped =>
    \A i, j \in DOMAIN rows :
      /\ rows[i].open /\ rows[j].open
      /\ rows[i].turnaround = rows[j].turnaround /\ rows[i].job = rows[j].job
      => i = j

\* equipment.assigned is never published for an assignment that was not made.
AssignedEventsAreTrue ==
  \A e \in sent :
    e.unit # None =>
      \E i \in DOMAIN rows : /\ rows[i].turnaround = e.turnaround
                             /\ rows[i].job = e.job
                             /\ rows[i].unit = e.unit

\* The handlers lose a unit only where two completions of one task were releasing it at
\* a time: while no client has interfered, any other unit in_use is one some assignment
\* still holds, however handlers race and fail and connections are lost.
NoUnitLostByHandlers ==
  manual = {} =>
    \A u \in Units \ doubled : status[u] = "in_use" => OpenOn(u) # {}

\* A completion releases the assignment of its own task and no other, although
\* release_equipment is told the unit and not the assignment; only where two completions
\* of one task were releasing a unit at a time may one of them hit what came after.
OnlyOwnAssignmentReleased ==
  manual = {} =>
    \A i \in DOMAIN rows :
      ~rows[i].open /\ rows[i].unit \notin doubled =>
        calls[Completed(rows[i].turnaround, rows[i].job, 1)].pc # "absent"

\* The logic is right but for its races: while calls have run one after the
\* other, with restarts and exceptions and without PATCH, a unit is in_use
\* exactly when one assignment holds it.
ConsistentWhenSerial ==
  ~overlapped /\ "patch" \notin manual =>
    \A u \in Units :
      /\ Cardinality(OpenOn(u)) <= 1
      /\ status[u] = "in_use" <=> OpenOn(u) # {}

\* "Sets status back to available": no unit stays in_use when no assignment
\* holds it, whoever released it.
ReleasedIsAvailable ==
  "patch" \notin manual =>
    \A u \in Units : status[u] = "in_use" => OpenOn(u) # {}
=============================================================================
