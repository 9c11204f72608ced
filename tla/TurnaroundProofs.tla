-------------------------- MODULE TurnaroundProofs --------------------------
(***************************************************************************)
(* Proofs about Turnaround for any finite set of tasks, any set of calls   *)
(* and any request bodies.                                                 *)
(*                                                                         *)
(* The inductive invariant says what the pc of a call implies about the    *)
(* document.  Its core is the count a call keeps: it is Total exactly when *)
(* the call's own write left every task finished, so the call that makes   *)
(* the last task finished always learns of it (SomeCallSawIt), and a call  *)
(* that believes the turnaround finished is right unless a task has been   *)
(* reopened since (SeenMeansFinished).                                     *)
(***************************************************************************)
EXTENDS Turnaround, FiniteSetTheorems, TLAPS

Active == {"write", "progress", "taskEvent", "ardt", "complete", "announce"}

Completing == {"ardt", "complete", "announce"}

\* The dto and the snapshot of an active call are there when a step needs them.
CallHasData(r) ==
  /\ calls[r].pc \in Active =>
       /\ calls[r].dto \in Dtos
       /\ calls[r].dto.task \in Tasks
  /\ calls[r].pc = "write" => calls[r].seen \in [Tasks -> TaskRecord]

\* Only a call whose write returned a fully finished turnaround completes it,
\* and it does not end before the announcement.
CallFollowsCount(r) ==
  /\ calls[r].count \in 0..Total
  /\ calls[r].pc \in {"idle", "write", "rejected"} => calls[r].count = 0
  /\ calls[r].pc \in Completing => calls[r].count = Total
  /\ calls[r].pc = "done" /\ calls[r].count = Total =>
       Announcement(r) \in events \cup swallowed

SomeCallSawIt == AllFinished => \E r \in Requests : calls[r].count = Total

SeenMeansFinished ==
  (\E r \in Requests : calls[r].count = Total) => AllFinished \/ reopened

\* The marks of completion come from calls that saw every task finished.
MarksHaveASource ==
  /\ (\/ status = "completed"
      \/ ardt # None
      \/ completedAt # None
      \/ Announced
      \/ \E r \in Requests : calls[r].status = "completed")
     => \E r \in Requests : calls[r].count = Total

\* The order of the completing writes.
RecordedInOrder ==
  /\ \A r \in Requests : calls[r].pc \in {"complete", "announce"} => ardt # None
  /\ \A r \in Requests : calls[r].pc = "announce" => completedAt # None
  /\ Announced => ardt # None /\ completedAt # None

IInv ==
  /\ TypeOK
  /\ \A r \in Requests : CallHasData(r) /\ CallFollowsCount(r)
  /\ SomeCallSawIt
  /\ SeenMeansFinished
  /\ MarksHaveASource
  /\ RecordedInOrder

----------------------------------------------------------------------------

\* There is at least one task, and finitely many.
LEMMA TotalPositive == Total \in Nat /\ Total > 0
BY ConstantsAssumption, FS_CardinalityType, FS_EmptySet DEF Total

\* The count of finished tasks is the total exactly when all are finished.
LEMMA CountOfFinished ==
  ASSUME NEW ts \in [Tasks -> TaskRecord]
  PROVE  /\ CompletedCount(ts) \in 0..Total
         /\ CompletedCount(ts) = Total <=> \A t \in Tasks : Finished(ts[t])
<1> DEFINE F == {t \in Tasks : Finished(ts[t])}
<1>1. CompletedCount(ts) = Cardinality(F)
  <2>1. DOMAIN ts = Tasks
    OBVIOUS
  <2>2. QED
    BY <2>1 DEF CompletedCount
<1>2. F \in SUBSET Tasks
  OBVIOUS
<1>3. /\ IsFiniteSet(F)
      /\ Cardinality(F) <= Cardinality(Tasks)
      /\ Cardinality(Tasks) = Cardinality(F) => Tasks = F
  BY <1>2, ConstantsAssumption, FS_Subset
<1>4. Cardinality(F) \in Nat
  BY <1>3, FS_CardinalityType
<1>5. Cardinality(F) = Cardinality(Tasks) <=> F = Tasks
  BY <1>3
<1>6. F = Tasks <=> \A t \in Tasks : Finished(ts[t])
  OBVIOUS
<1>7. QED
  BY <1>1, <1>3, <1>4, <1>5, <1>6, TotalPositive DEF Total

\* The rounded percentage of a count stays a percentage.
LEMMA ProgressInRange ==
  ASSUME NEW count \in 0..Total
  PROVE  Progress(count) \in 0..100
<1> DEFINE d == 2 * Total
           n == 200 * count + Total
<1>1. d \in Nat /\ d > 0 /\ n \in Nat /\ n < 101 * d
  BY TotalPositive
<1>2. ASSUME NEW a \in Nat, NEW b \in Nat, b > 0, a < 101 * b
      PROVE  a \div b \in 0..100
  BY <1>2
<1> HIDE DEF d, n
<1>3. n \div d \in 0..100
  BY <1>1, <1>2
<1>4. QED
  BY <1>3 DEF Progress, d, n

\* What a write makes of a task is a task.
LEMMA WrittenTaskType ==
  ASSUME NEW task \in TaskRecord, NEW before \in TaskRecord,
         NEW dto \in Dtos, NEW r \in Requests
  PROVE  WrittenTask(task, dto, before, r) \in TaskRecord
BY ConstantsAssumption DEF WrittenTask, TaskRecord, Time

LEMMA InitInv == Init => IInv
<1> SUFFICES ASSUME Init PROVE IInv
  OBVIOUS
<1> USE TotalPositive, ConstantsAssumption DEF Init
<1>1. TypeOK
  <2>1. tasks \in [Tasks -> TaskRecord]
    BY DEF TaskRecord, TaskStatus, Time
  <2>2. calls \in [Requests -> CallState]
    BY DEF CallState, TurnaroundStatus, Pc
  <2>3. status \in TurnaroundStatus /\ progress \in 0..100 /\ failures \in Nat
    BY DEF TurnaroundStatus
  <2>4. QED
    BY <2>1, <2>2, <2>3 DEF TypeOK, Time
<1>2. \A r \in Requests : CallHasData(r) /\ CallFollowsCount(r)
  BY DEF CallHasData, CallFollowsCount, Active, Completing
<1>3. ~AllFinished
  BY DEF AllFinished, Finished
<1>4. ~Announced
  BY DEF Announced
<1>5. \A r \in Requests : calls[r].count # Total /\ calls[r].status # "completed"
  OBVIOUS
<1>6. QED
  BY <1>1, <1>2, <1>3, <1>4, <1>5
     DEF IInv, SomeCallSawIt, SeenMeansFinished, MarksHaveASource, RecordedInOrder

\* A step that moves the pc of one call, keeps the tasks and every count, and
\* lets events and swallowed grow, keeps what SomeCallSawIt and
\* SeenMeansFinished say.
LEMMA CountsKept ==
  ASSUME IInv,
         UNCHANGED <<tasks, reopened>>,
         \A q \in Requests : calls'[q].count = calls[q].count
  PROVE  SomeCallSawIt' /\ SeenMeansFinished'
BY DEF IInv, SomeCallSawIt, SeenMeansFinished, AllFinished, Finished, Total

LEMMA FindTaskInv ==
  ASSUME IInv, NEW r \in Requests, FindTask(r)
  PROVE  IInv'
<1>1. calls \in [Requests -> CallState] /\ tasks \in [Tasks -> TaskRecord]
  BY DEF IInv, TypeOK
<1>2. /\ tasks' = tasks /\ status' = status /\ progress' = progress
      /\ ardt' = ardt /\ completedAt' = completedAt /\ events' = events
      /\ swallowed' = swallowed /\ failures' = failures
      /\ reopened' = reopened
  BY DEF FindTask, record
<1>3. calls' \in [Requests -> CallState]
  BY <1>1 DEF FindTask, CallState, Pc
<1>4. \A q \in Requests : q # r => calls'[q] = calls[q]
  BY <1>1 DEF FindTask
<1>5. \A q \in Requests : /\ calls'[q].count = calls[q].count
                         /\ calls'[q].status = calls[q].status
  BY <1>1 DEF FindTask, CallState
<1>6. calls[r].pc = "idle" /\ calls'[r].pc \in {"write", "rejected"}
  BY <1>1 DEF FindTask, CallState
<1>7. calls'[r].pc = "write" => /\ calls'[r].dto \in Dtos
                                /\ calls'[r].dto.task \in Tasks
                                /\ calls'[r].seen \in [Tasks -> TaskRecord]
  BY <1>1 DEF FindTask, CallState
<1>8. TypeOK'
  BY <1>2, <1>3 DEF IInv, TypeOK
<1>9. ASSUME NEW q \in Requests
      PROVE  CallHasData(q)' /\ CallFollowsCount(q)'
  <2>1. CASE q = r
    BY <2>1, <1>5, <1>6, <1>7
       DEF IInv, CallHasData, CallFollowsCount, Active, Completing, Total
  <2>2. CASE q # r
    BY <2>2, <1>2, <1>4
       DEF IInv, CallHasData, CallFollowsCount, Announcement, Total
  <2>3. QED
    BY <2>1, <2>2
<1>10. SomeCallSawIt' /\ SeenMeansFinished'
  BY <1>2, <1>5, CountsKept
<1>11. MarksHaveASource'
  BY <1>2, <1>5 DEF IInv, MarksHaveASource, Announced, Announcement, Total
<1>12. RecordedInOrder'
  BY <1>2, <1>4, <1>6 DEF IInv, RecordedInOrder, Announced, Announcement
<1>13. QED
  BY <1>8, <1>9, <1>10, <1>11, <1>12 DEF IInv

\* What Goto changes, and that it changes nothing else.
LEMMA GotoFacts ==
  ASSUME calls \in [Requests -> CallState], NEW r \in Requests,
         NEW pc \in Pc, Goto(r, pc)
  PROVE  /\ calls' \in [Requests -> CallState]
         /\ calls'[r].pc = pc
         /\ \A q \in Requests : q # r => calls'[q] = calls[q]
         /\ \A q \in Requests : /\ calls'[q].count = calls[q].count
                               /\ calls'[q].status = calls[q].status
                               /\ calls'[q].dto = calls[q].dto
BY DEF Goto, CallState

\* The calls other than r keep their part of the invariant.
LEMMA OthersKept ==
  ASSUME IInv, NEW r \in Requests, NEW q \in Requests, q # r,
         calls'[q] = calls[q],
         events \subseteq events', swallowed \subseteq swallowed'
  PROVE  CallHasData(q)' /\ CallFollowsCount(q)'
BY DEF IInv, CallHasData, CallFollowsCount, Announcement, Total

LEMMA WriteProgressInv ==
  ASSUME IInv, NEW r \in Requests, WriteProgress(r)
  PROVE  IInv'
<1> DEFINE next == AfterProgress(calls[r])
<1>1. calls \in [Requests -> CallState]
  BY DEF IInv, TypeOK
<1>2. /\ tasks' = tasks /\ ardt' = ardt /\ completedAt' = completedAt
      /\ events' = events /\ swallowed' = swallowed
      /\ failures' = failures /\ reopened' = reopened
  BY DEF WriteProgress
<1>3. /\ calls[r].pc = "progress"
      /\ next \in {"taskEvent", "ardt", "done"}
      /\ next = "ardt" => calls[r].count = Total
      /\ next = "done" => calls[r].count # Total
  BY DEF WriteProgress, AfterProgress, AfterTaskEvent, SawAllFinished
<1>4. next \in Pc /\ Goto(r, next)
  BY <1>3 DEF WriteProgress, Pc
<1> HIDE DEF next
<1>5. /\ calls' \in [Requests -> CallState]
      /\ calls'[r].pc = next
      /\ \A q \in Requests : q # r => calls'[q] = calls[q]
      /\ \A q \in Requests : /\ calls'[q].count = calls[q].count
                            /\ calls'[q].status = calls[q].status
                            /\ calls'[q].dto = calls[q].dto
  BY <1>1, <1>4, GotoFacts
<1>6. TypeOK'
  <2>1. status' \in TurnaroundStatus
    BY <1>1 DEF WriteProgress, CallState
  <2>2. progress' \in 0..100
    BY ProgressInRange DEF WriteProgress, IInv, CallFollowsCount
  <2>3. QED
    BY <1>2, <1>5, <2>1, <2>2 DEF IInv, TypeOK
<1>7. ASSUME NEW q \in Requests
      PROVE  CallHasData(q)' /\ CallFollowsCount(q)'
  <2>1. CASE q = r
    BY <2>1, <1>3, <1>5
       DEF IInv, CallHasData, CallFollowsCount, Active, Completing, Total
  <2>2. CASE q # r
    BY <2>2, <1>2, <1>5, OthersKept
  <2>3. QED
    BY <2>1, <2>2
<1>8. SomeCallSawIt' /\ SeenMeansFinished'
  BY <1>2, <1>5, CountsKept
<1>9. MarksHaveASource'
  <2>1. status' = calls[r].status
    BY DEF WriteProgress
  <2>2. QED
    BY <1>2, <1>5, <2>1
       DEF IInv, MarksHaveASource, Announced, Announcement, Total
<1>10. RecordedInOrder'
  BY <1>2, <1>3, <1>5 DEF IInv, RecordedInOrder, Announced, Announcement
<1>11. QED
  BY <1>6, <1>7, <1>8, <1>9, <1>10 DEF IInv

LEMMA PublishTaskCompletedInv ==
  ASSUME IInv, NEW r \in Requests, PublishTaskCompleted(r)
  PROVE  IInv'
<1> DEFINE next == AfterTaskEvent(calls[r])
           event == [type |-> "turnaround.task.completed", by |-> r]
<1>1. calls \in [Requests -> CallState]
  BY DEF IInv, TypeOK
<1>2. /\ tasks' = tasks /\ status' = status /\ progress' = progress
      /\ ardt' = ardt /\ completedAt' = completedAt
      /\ failures' = failures /\ reopened' = reopened
  BY DEF PublishTaskCompleted, record
<1>3. /\ calls[r].pc = "taskEvent"
      /\ next \in {"ardt", "done"}
      /\ next = "ardt" => calls[r].count = Total
      /\ next = "done" => calls[r].count # Total
  BY DEF PublishTaskCompleted, AfterTaskEvent, SawAllFinished
<1>4. next \in Pc /\ Goto(r, next)
  BY <1>3 DEF PublishTaskCompleted, Pc
<1> HIDE DEF next
<1>5. /\ calls' \in [Requests -> CallState]
      /\ calls'[r].pc = next
      /\ \A q \in Requests : q # r => calls'[q] = calls[q]
      /\ \A q \in Requests : /\ calls'[q].count = calls[q].count
                            /\ calls'[q].status = calls[q].status
                            /\ calls'[q].dto = calls[q].dto
  BY <1>1, <1>4, GotoFacts
<1>6. /\ events \subseteq events' /\ swallowed \subseteq swallowed'
      /\ event \in Event
      /\ events' \cup swallowed' = (events \cup swallowed) \cup {event}
  BY DEF PublishTaskCompleted, Publish, Event
<1>7. TypeOK'
  BY <1>2, <1>5, <1>6 DEF IInv, TypeOK
<1>8. ASSUME NEW q \in Requests
      PROVE  CallHasData(q)' /\ CallFollowsCount(q)'
  <2>1. CASE q = r
    BY <2>1, <1>3, <1>5
       DEF IInv, CallHasData, CallFollowsCount, Active, Completing, Total
  <2>2. CASE q # r
    BY <2>2, <1>5, <1>6, OthersKept
  <2>3. QED
    BY <2>1, <2>2
<1>9. SomeCallSawIt' /\ SeenMeansFinished'
  BY <1>2, <1>5, CountsKept
<1>10. Announced' => Announced
  BY <1>6 DEF Announced, Announcement
<1>11. MarksHaveASource'
  BY <1>2, <1>5, <1>10 DEF IInv, MarksHaveASource, Total
<1>12. RecordedInOrder'
  BY <1>2, <1>3, <1>5, <1>10 DEF IInv, RecordedInOrder
<1>13. QED
  BY <1>7, <1>8, <1>9, <1>11, <1>12 DEF IInv

LEMMA WriteArdtInv ==
  ASSUME IInv, NEW r \in Requests, WriteArdt(r)
  PROVE  IInv'
<1>1. calls \in [Requests -> CallState]
  BY DEF IInv, TypeOK
<1>2. /\ tasks' = tasks /\ status' = status /\ progress' = progress
      /\ ardt' = r /\ completedAt' = completedAt
      /\ events' = events /\ swallowed' = swallowed
      /\ failures' = failures /\ reopened' = reopened
  BY DEF WriteArdt
<1>3. calls[r].pc = "ardt" /\ calls[r].count = Total
  BY DEF WriteArdt, IInv, CallFollowsCount, Completing
<1>4. "complete" \in Pc /\ Goto(r, "complete")
  BY DEF WriteArdt, Pc
<1>5. /\ calls' \in [Requests -> CallState]
      /\ calls'[r].pc = "complete"
      /\ \A q \in Requests : q # r => calls'[q] = calls[q]
      /\ \A q \in Requests : /\ calls'[q].count = calls[q].count
                            /\ calls'[q].status = calls[q].status
                            /\ calls'[q].dto = calls[q].dto
  BY <1>1, <1>4, GotoFacts
<1>6. TypeOK'
  BY <1>2, <1>5 DEF IInv, TypeOK, Time
<1>7. ASSUME NEW q \in Requests
      PROVE  CallHasData(q)' /\ CallFollowsCount(q)'
  <2>1. CASE q = r
    BY <2>1, <1>3, <1>5
       DEF IInv, CallHasData, CallFollowsCount, Active, Completing, Total
  <2>2. CASE q # r
    BY <2>2, <1>2, <1>5, OthersKept
  <2>3. QED
    BY <2>1, <2>2
<1>8. SomeCallSawIt' /\ SeenMeansFinished'
  BY <1>2, <1>5, CountsKept
<1>9. MarksHaveASource'
  BY <1>3, <1>5 DEF MarksHaveASource, Total
<1>10. RecordedInOrder'
  <2>1. ardt' # None
    BY <1>2, ConstantsAssumption
  <2>2. QED
    BY <2>1, <1>2, <1>5 DEF IInv, RecordedInOrder, Announced, Announcement
<1>11. QED
  BY <1>6, <1>7, <1>8, <1>9, <1>10 DEF IInv

LEMMA WriteCompletedInv ==
  ASSUME IInv, NEW r \in Requests, WriteCompleted(r)
  PROVE  IInv'
<1>1. calls \in [Requests -> CallState]
  BY DEF IInv, TypeOK
<1>2. /\ tasks' = tasks /\ status' = "completed" /\ progress' = 100
      /\ ardt' = ardt /\ completedAt' = r
      /\ events' = events /\ swallowed' = swallowed
      /\ failures' = failures /\ reopened' = reopened
  BY DEF WriteCompleted
<1>3. /\ calls[r].pc = "complete" /\ calls[r].count = Total
      /\ ardt # None
  BY DEF WriteCompleted, IInv, CallFollowsCount, Completing, RecordedInOrder
<1>4. "announce" \in Pc /\ Goto(r, "announce")
  BY DEF WriteCompleted, Pc
<1>5. /\ calls' \in [Requests -> CallState]
      /\ calls'[r].pc = "announce"
      /\ \A q \in Requests : q # r => calls'[q] = calls[q]
      /\ \A q \in Requests : /\ calls'[q].count = calls[q].count
                            /\ calls'[q].status = calls[q].status
                            /\ calls'[q].dto = calls[q].dto
  BY <1>1, <1>4, GotoFacts
<1>6. TypeOK'
  BY <1>2, <1>5 DEF IInv, TypeOK, Time, TurnaroundStatus
<1>7. ASSUME NEW q \in Requests
      PROVE  CallHasData(q)' /\ CallFollowsCount(q)'
  <2>1. CASE q = r
    BY <2>1, <1>3, <1>5
       DEF IInv, CallHasData, CallFollowsCount, Active, Completing, Total
  <2>2. CASE q # r
    BY <2>2, <1>2, <1>5, OthersKept
  <2>3. QED
    BY <2>1, <2>2
<1>8. SomeCallSawIt' /\ SeenMeansFinished'
  BY <1>2, <1>5, CountsKept
<1>9. MarksHaveASource'
  BY <1>3, <1>5 DEF MarksHaveASource, Total
<1>10. RecordedInOrder'
  <2>1. completedAt' # None
    BY <1>2, ConstantsAssumption
  <2>2. QED
    BY <2>1, <1>2, <1>3, <1>5 DEF IInv, RecordedInOrder, Announced, Announcement
<1>11. QED
  BY <1>6, <1>7, <1>8, <1>9, <1>10 DEF IInv

LEMMA PublishTurnaroundCompletedInv ==
  ASSUME IInv, NEW r \in Requests, PublishTurnaroundCompleted(r)
  PROVE  IInv'
<1>1. calls \in [Requests -> CallState]
  BY DEF IInv, TypeOK
<1>2. /\ tasks' = tasks /\ status' = status /\ progress' = progress
      /\ ardt' = ardt /\ completedAt' = completedAt
      /\ failures' = failures /\ reopened' = reopened
  BY DEF PublishTurnaroundCompleted, record
<1>3. /\ calls[r].pc = "announce" /\ calls[r].count = Total
      /\ ardt # None /\ completedAt # None
  BY DEF PublishTurnaroundCompleted, IInv, CallFollowsCount, Completing,
         RecordedInOrder
<1>4. "done" \in Pc /\ Goto(r, "done")
  BY DEF PublishTurnaroundCompleted, Pc
<1>5. /\ calls' \in [Requests -> CallState]
      /\ calls'[r].pc = "done"
      /\ \A q \in Requests : q # r => calls'[q] = calls[q]
      /\ \A q \in Requests : /\ calls'[q].count = calls[q].count
                            /\ calls'[q].status = calls[q].status
                            /\ calls'[q].dto = calls[q].dto
  BY <1>1, <1>4, GotoFacts
<1>6. /\ events \subseteq events' /\ swallowed \subseteq swallowed'
      /\ Announcement(r) \in Event
      /\ events' \cup swallowed' = (events \cup swallowed) \cup {Announcement(r)}
  BY DEF PublishTurnaroundCompleted, Publish, Event, Announcement
<1>7. TypeOK'
  BY <1>2, <1>5, <1>6 DEF IInv, TypeOK
<1>8. ASSUME NEW q \in Requests
      PROVE  CallHasData(q)' /\ CallFollowsCount(q)'
  <2>1. CASE q = r
    BY <2>1, <1>3, <1>5, <1>6
       DEF IInv, CallHasData, CallFollowsCount, Active, Completing, Total,
           Announcement
  <2>2. CASE q # r
    BY <2>2, <1>5, <1>6, OthersKept
  <2>3. QED
    BY <2>1, <2>2
<1>9. SomeCallSawIt' /\ SeenMeansFinished'
  BY <1>2, <1>5, CountsKept
<1>10. MarksHaveASource'
  BY <1>3, <1>5 DEF MarksHaveASource, Total
<1>11. RecordedInOrder'
  BY <1>2, <1>3, <1>5 DEF IInv, RecordedInOrder
<1>12. QED
  BY <1>7, <1>8, <1>9, <1>10, <1>11 DEF IInv

\* Calls that are cut short keep their count and their status.
LEMMA DatabaseErrorInv ==
  ASSUME IInv, NEW r \in Requests, DatabaseError(r)
  PROVE  IInv'
<1>1. calls \in [Requests -> CallState]
  BY DEF IInv, TypeOK
<1>2. /\ tasks' = tasks /\ status' = status /\ progress' = progress
      /\ ardt' = ardt /\ completedAt' = completedAt
      /\ events' = events /\ swallowed' = swallowed
      /\ failures' = failures + 1 /\ reopened' = reopened
  BY DEF DatabaseError, record
<1>3. /\ calls' \in [Requests -> CallState]
      /\ calls'[r].pc = "failed"
      /\ \A q \in Requests : q # r => calls'[q] = calls[q]
  BY <1>1 DEF DatabaseError, CallState, Pc
<1>4. \A q \in Requests : /\ calls'[q].count = calls[q].count
                         /\ calls'[q].status = calls[q].status
  BY <1>1 DEF DatabaseError, CallState
<1>5. TypeOK'
  BY <1>2, <1>3 DEF IInv, TypeOK
<1>6. ASSUME NEW q \in Requests
      PROVE  CallHasData(q)' /\ CallFollowsCount(q)'
  <2>1. CASE q = r
    BY <2>1, <1>3, <1>4
       DEF IInv, CallHasData, CallFollowsCount, Active, Completing, Total
  <2>2. CASE q # r
    BY <2>2, <1>2, <1>3, OthersKept
  <2>3. QED
    BY <2>1, <2>2
<1>7. SomeCallSawIt' /\ SeenMeansFinished'
  BY <1>2, <1>4, CountsKept
<1>8. MarksHaveASource'
  BY <1>2, <1>4 DEF IInv, MarksHaveASource, Announced, Announcement, Total
<1>9. RecordedInOrder'
  BY <1>2, <1>3 DEF IInv, RecordedInOrder, Announced, Announcement
<1>10. QED
  BY <1>5, <1>6, <1>7, <1>8, <1>9 DEF IInv

LEMMA RestartInv ==
  ASSUME IInv, Restart
  PROVE  IInv'
<1>1. calls \in [Requests -> CallState]
  BY DEF IInv, TypeOK
<1>2. /\ tasks' = tasks /\ status' = status /\ progress' = progress
      /\ ardt' = ardt /\ completedAt' = completedAt
      /\ events' = events /\ swallowed' = swallowed
      /\ failures' = failures + 1 /\ reopened' = reopened
  BY DEF Restart, record
<1>3. calls' \in [Requests -> CallState]
  BY <1>1 DEF Restart, CallState, Pc
<1>4. \A q \in Requests : /\ calls'[q].count = calls[q].count
                         /\ calls'[q].status = calls[q].status
  BY <1>1 DEF Restart, CallState
<1>5. \A q \in Requests : calls'[q] = calls[q] \/ calls'[q].pc = "failed"
  BY <1>1 DEF Restart, CallState
<1>6. TypeOK'
  BY <1>2, <1>3 DEF IInv, TypeOK
<1>7. ASSUME NEW q \in Requests
      PROVE  CallHasData(q)' /\ CallFollowsCount(q)'
  <2>1. CASE calls'[q].pc = "failed"
    BY <2>1, <1>4
       DEF IInv, CallHasData, CallFollowsCount, Active, Completing, Total
  <2>2. CASE calls'[q] = calls[q]
    BY <2>2, <1>2 DEF IInv, CallHasData, CallFollowsCount, Announcement, Total
  <2>3. QED
    BY <1>5, <2>1, <2>2
<1>8. SomeCallSawIt' /\ SeenMeansFinished'
  BY <1>2, <1>4, CountsKept
<1>9. MarksHaveASource'
  BY <1>2, <1>4 DEF IInv, MarksHaveASource, Announced, Announcement, Total
<1>10. RecordedInOrder'
  BY <1>2, <1>5 DEF IInv, RecordedInOrder, Announced, Announcement
<1>11. QED
  BY <1>6, <1>7, <1>8, <1>9, <1>10 DEF IInv

\* The one step that moves tasks and counts: the count the call takes along is
\* that of the document it has just written.
LEMMA WriteTaskInv ==
  ASSUME IInv, NEW r \in Requests, WriteTask(r)
  PROVE  IInv'
<1> DEFINE dto == calls[r].dto
           t == dto.task
           new == WrittenTask(tasks[t], dto, calls[r].seen[t], r)
<1>1. calls \in [Requests -> CallState] /\ tasks \in [Tasks -> TaskRecord]
  BY DEF IInv, TypeOK
<1>2. /\ status' = status /\ progress' = progress
      /\ ardt' = ardt /\ completedAt' = completedAt
      /\ events' = events /\ swallowed' = swallowed /\ failures' = failures
  BY DEF WriteTask, record
<1>3. calls[r].pc = "write" /\ calls[r].count = 0 /\ calls[r].count # Total
  BY TotalPositive DEF WriteTask, IInv, CallFollowsCount
<1>4. dto \in Dtos /\ t \in Tasks /\ calls[r].seen \in [Tasks -> TaskRecord]
  BY <1>3 DEF IInv, CallHasData, Active
<1>5. new \in TaskRecord
  BY <1>1, <1>4, WrittenTaskType
<1>6. /\ tasks' = [tasks EXCEPT ![t] = new]
      /\ reopened' = (reopened \/ (Finished(tasks[t]) /\ ~Finished(new)))
  BY DEF WriteTask
<1> HIDE DEF new
<1>7. tasks' \in [Tasks -> TaskRecord]
  BY <1>1, <1>4, <1>5, <1>6
<1>8. /\ CompletedCount(tasks') \in 0..Total
      /\ CompletedCount(tasks') = Total <=> AllFinished'
  BY <1>7, CountOfFinished DEF AllFinished, Finished
<1>9. CompletedCount(tasks') \in Nat
  BY <1>8, TotalPositive
<1>10. calls' \in [Requests -> CallState]
  <2>1. status \in TurnaroundStatus
    BY DEF IInv, TypeOK
  <2> DEFINE n == CompletedCount(tasks')
             call == [calls[r] EXCEPT !.pc = "progress", !.seen = None,
                                      !.status = status, !.count = n]
  <2>2. calls' = [calls EXCEPT ![r] = call]
    BY <1>1 DEF WriteTask, CallState
  <2> HIDE DEF n
  <2>3. call \in CallState
    BY <1>1, <1>9, <2>1 DEF CallState, Pc, n
  <2> HIDE DEF call
  <2>4. QED
    BY <1>1, <2>2, <2>3
<1>11. /\ calls'[r].pc = "progress"
       /\ calls'[r].count = CompletedCount(tasks')
       /\ calls'[r].status = status
       /\ calls'[r].dto = dto
  BY <1>1 DEF WriteTask, CallState
<1>12. \A q \in Requests : q # r => calls'[q] = calls[q]
  BY <1>1 DEF WriteTask
<1>13. TypeOK'
  <2>1. reopened' \in BOOLEAN
    BY <1>6
  <2>2. QED
    BY <1>2, <1>7, <1>10, <2>1 DEF IInv, TypeOK
<1>14. ASSUME NEW q \in Requests
       PROVE  CallHasData(q)' /\ CallFollowsCount(q)'
  <2>1. CASE q = r
    BY <2>1, <1>4, <1>8, <1>11
       DEF CallHasData, CallFollowsCount, Active, Completing, Total
  <2>2. CASE q # r
    BY <2>2, <1>2, <1>12, OthersKept
  <2>3. QED
    BY <2>1, <2>2
<1>15. SomeCallSawIt'
  BY <1>8, <1>11 DEF SomeCallSawIt, Total
<1>16. SeenMeansFinished'
  <2>1. SUFFICES ASSUME NEW q \in Requests, calls'[q].count = Total, ~reopened'
                 PROVE  AllFinished'
    BY DEF SeenMeansFinished, Total
  <2>2. CASE q = r
    BY <2>1, <2>2, <1>8, <1>11
  <2>3. CASE q # r
    <3>1. AllFinished
      BY <2>1, <2>3, <1>6, <1>12 DEF IInv, SeenMeansFinished
    <3>2. Finished(new)
      BY <2>1, <3>1, <1>4, <1>6 DEF AllFinished
    <3>3. \A u \in Tasks : Finished(tasks'[u])
      BY <3>1, <3>2, <1>1, <1>4, <1>6 DEF AllFinished
    <3>4. QED
      BY <3>3 DEF AllFinished, Finished
  <2>4. QED
    BY <2>2, <2>3
<1>17. MarksHaveASource'
  <2>1. SUFFICES ASSUME \E q \in Requests : calls[q].count = Total
                 PROVE  \E q \in Requests : calls'[q].count = Total
    <3>1. (\E q \in Requests : calls'[q].status = "completed")
            => status = "completed"
               \/ \E q \in Requests : calls[q].status = "completed"
      BY <1>11, <1>12
    <3>2. Announced' => Announced
      BY <1>2 DEF Announced, Announcement
    <3>3. QED
      BY <1>2, <3>1, <3>2 DEF IInv, MarksHaveASource, Total
  <2>2. QED
    BY <1>3, <1>12, <2>1
<1>18. RecordedInOrder'
  BY <1>2, <1>11, <1>12 DEF IInv, RecordedInOrder, Announced, Announcement
<1>19. QED
  BY <1>13, <1>14, <1>15, <1>16, <1>17, <1>18 DEF IInv

LEMMA StutterInv ==
  ASSUME IInv, UNCHANGED vars
  PROVE  IInv'
<1>1. /\ tasks' = tasks /\ status' = status /\ progress' = progress
      /\ ardt' = ardt /\ completedAt' = completedAt /\ calls' = calls
      /\ events' = events /\ swallowed' = swallowed
      /\ failures' = failures /\ reopened' = reopened
  BY DEF vars
<1>2. TypeOK'
  BY <1>1 DEF IInv, TypeOK
<1>3. \A q \in Requests : CallHasData(q)' /\ CallFollowsCount(q)'
  BY <1>1 DEF IInv, CallHasData, CallFollowsCount, Announcement, Total
<1>4. SomeCallSawIt' /\ SeenMeansFinished'
  BY <1>1, CountsKept
<1>5. MarksHaveASource'
  BY <1>1 DEF IInv, MarksHaveASource, Announced, Announcement, Total
<1>6. RecordedInOrder'
  BY <1>1 DEF IInv, RecordedInOrder, Announced, Announcement
<1>7. QED
  BY <1>2, <1>3, <1>4, <1>5, <1>6 DEF IInv

----------------------------------------------------------------------------

\* The inductive invariant holds throughout.
THEOREM InvariantHolds == Spec => []IInv
<1>1. Init => IInv
  BY InitInv
<1>2. IInv /\ [Next]_vars => IInv'
  <2>1. SUFFICES ASSUME IInv, [Next]_vars
                 PROVE  IInv'
    OBVIOUS
  <2>2. CASE Restart
    BY <2>1, <2>2, RestartInv
  <2>3. ASSUME NEW r \in Requests, DatabaseError(r)
        PROVE  IInv'
    BY <2>1, <2>3, DatabaseErrorInv
  <2>4. ASSUME NEW r \in Requests, Step(r)
        PROVE  IInv'
    <3>1. CASE FindTask(r)
      BY <2>1, <3>1, FindTaskInv
    <3>2. CASE WriteTask(r)
      BY <2>1, <3>2, WriteTaskInv
    <3>3. CASE WriteProgress(r)
      BY <2>1, <3>3, WriteProgressInv
    <3>4. CASE PublishTaskCompleted(r)
      BY <2>1, <3>4, PublishTaskCompletedInv
    <3>5. CASE WriteArdt(r)
      BY <2>1, <3>5, WriteArdtInv
    <3>6. CASE WriteCompleted(r)
      BY <2>1, <3>6, WriteCompletedInv
    <3>7. CASE PublishTurnaroundCompleted(r)
      BY <2>1, <3>7, PublishTurnaroundCompletedInv
    <3>8. QED
      BY <2>4, <3>1, <3>2, <3>3, <3>4, <3>5, <3>6, <3>7 DEF Step
  <2>5. CASE UNCHANGED vars
    BY <2>1, <2>5, StutterInv
  <2>6. QED
    BY <2>1, <2>2, <2>3, <2>4, <2>5 DEF Next
<1>3. QED
  BY <1>1, <1>2, PTL DEF Spec

\* The document, the calls and the events keep their types.
THEOREM TypeCorrect == Spec => []TypeOK
<1>1. IInv => TypeOK
  BY DEF IInv
<1>2. QED
  BY <1>1, InvariantHolds, PTL

\* However many calls run on a turnaround and however they interleave, the one
\* that makes its last task finished learns of it from the document its own
\* write returns, so turnaround.completed is handed to the publisher unless a
\* failure ends that call.
THEOREM CompletionIsAnnounced == Spec => []CompletionAnnounced
<1>1. IInv => CompletionAnnounced
  <2>1. SUFFICES ASSUME IInv, AllFinished
                 PROVE  \/ Announced
                        \/ \E r \in Requests : calls[r].pc = "failed"
                                               /\ calls[r].count = Total
                        \/ \E r \in Requests : Running(r) /\ calls[r].count = Total
    BY DEF CompletionAnnounced
  <2>2. PICK r \in Requests : calls[r].count = Total
    BY <2>1 DEF IInv, SomeCallSawIt
  <2>3. calls[r].pc \notin {"idle", "rejected"}
    BY <2>1, <2>2, TotalPositive DEF IInv, CallFollowsCount
  <2>4. CASE calls[r].pc = "done"
    BY <2>1, <2>2, <2>4 DEF IInv, CallFollowsCount, Announced
  <2>5. CASE calls[r].pc = "failed"
    BY <2>2, <2>5
  <2>6. CASE calls[r].pc \notin {"done", "failed"}
    BY <2>2, <2>3, <2>6 DEF Running
  <2>7. QED
    BY <2>4, <2>5, <2>6
<1>2. QED
  BY <1>1, InvariantHolds, PTL

\* A completed status, an ARDT or a turnaround.completed event is never early:
\* every task is finished, unless one was reopened.
THEOREM CompletionIsJustified == Spec => []CompletionJustified
<1>1. IInv => CompletionJustified
  <2>1. SUFFICES ASSUME IInv, ~reopened, ~AllFinished
                 PROVE  status = "in_progress" /\ ardt = None /\ ~Announced
    BY DEF CompletionJustified
  <2>2. ~ \E r \in Requests : calls[r].count = Total
    BY <2>1 DEF IInv, SeenMeansFinished
  <2>3. status # "completed" /\ ardt = None /\ ~Announced
    BY <2>1, <2>2 DEF IInv, MarksHaveASource
  <2>4. QED
    BY <2>1, <2>3 DEF IInv, TypeOK, TurnaroundStatus
<1>2. QED
  BY <1>1, InvariantHolds, PTL

\* turnaround.completed never overtakes the writes it reports.
THEOREM AnnouncementAfterRecord == Spec => []AnnouncedAfterRecorded
<1>1. IInv => AnnouncedAfterRecorded
  BY DEF IInv, RecordedInOrder, AnnouncedAfterRecorded
<1>2. QED
  BY <1>1, InvariantHolds, PTL

----------------------------------------------------------------------------

\* Some call that may have written has sent the status the task has.
HasSource(t) ==
  StatusWriters(t) # {} =>
    \E r \in Requests : /\ calls[r].dto # None
                        /\ calls[r].dto.task = t
                        /\ calls[r].dto.status = tasks[t].status
                        /\ calls[r].pc # "write"

IdleHasNoDto == \A r \in Requests : calls[r].pc = "idle" => calls[r].dto = None

\* Call r has nothing to say about the status of task t.
Foreign(r, t) ==
  calls[r].dto = None \/ calls[r].dto.task # t \/ calls[r].dto.status = None

\* The write of task t by call r does not come about in this step.
QuietAbout(r, t) ==
  \/ /\ calls'[r].dto = calls[r].dto
     /\ calls'[r].pc = "write" => calls[r].pc = "write"
     /\ calls[r].pc \in {"write", "failed"} => calls'[r].pc \in {"write", "failed"}
  \/ Foreign(r, t) /\ (Foreign(r, t)' \/ calls'[r].pc = "write")

LEMMA SourceKept ==
  ASSUME NEW t \in Tasks, HasSource(t), tasks[t].status \in TaskStatus,
         tasks'[t].status = tasks[t].status, \A r \in Requests : QuietAbout(r, t)
  PROVE  HasSource(t)'
<1>1. None \notin TaskStatus
  BY ConstantsAssumption
<1>2. StatusWriters(t)' \subseteq StatusWriters(t)
  BY DEF StatusWriters, QuietAbout, Foreign
<1>3. ASSUME NEW r \in Requests, calls[r].dto # None, calls[r].dto.task = t,
             calls[r].dto.status = tasks[t].status, calls[r].pc # "write"
      PROVE  /\ calls'[r].dto = calls[r].dto /\ calls'[r].pc # "write"
  BY <1>1, <1>3 DEF QuietAbout, Foreign
<1>4. QED
  BY <1>2, <1>3 DEF HasSource

LEMMA SourcesKept ==
  ASSUME IInv, IdleHasNoDto, NoLostTaskUpdate, [Next]_vars
  PROVE  NoLostTaskUpdate' /\ IdleHasNoDto'
<1>1. calls \in [Requests -> CallState] /\ tasks \in [Tasks -> TaskRecord]
  BY DEF IInv, TypeOK
<1>2. \A t \in Tasks : HasSource(t) /\ tasks[t].status \in TaskStatus
  BY <1>1 DEF NoLostTaskUpdate, HasSource, TaskRecord
<1>3. SUFFICES (\A t \in Tasks : HasSource(t)') /\ IdleHasNoDto'
  BY DEF NoLostTaskUpdate, HasSource
<1>4. CASE \/ Restart
           \/ UNCHANGED vars
           \/ \E r \in Requests :
                \/ DatabaseError(r)
                \/ WriteProgress(r)
                \/ PublishTaskCompleted(r)
                \/ WriteArdt(r)
                \/ WriteCompleted(r)
                \/ PublishTurnaroundCompleted(r)
  <2>1. tasks' = tasks
    BY <1>4 DEF Restart, DatabaseError, WriteProgress, PublishTaskCompleted, WriteArdt,
                WriteCompleted, PublishTurnaroundCompleted, vars
  <2>2. ASSUME NEW q \in Requests
        PROVE  /\ calls'[q].dto = calls[q].dto
               /\ calls'[q].pc = "write" => calls[q].pc = "write"
               /\ calls[q].pc \in {"write", "failed"} => calls'[q].pc \in {"write", "failed"}
               /\ calls'[q].pc = "idle" => calls[q].pc = "idle"
    <3>1. CASE Restart
      BY <1>1, <3>1 DEF Restart, Running, CallState
    <3>2. CASE UNCHANGED vars
      BY <3>2 DEF vars
    <3>3. ASSUME NEW r \in Requests, NEW pc \in Pc \ {"idle", "write"}, Goto(r, pc),
                 calls[r].pc \notin {"write", "failed"}
          PROVE  /\ calls'[q].dto = calls[q].dto
                 /\ calls'[q].pc = "write" => calls[q].pc = "write"
                 /\ calls[q].pc \in {"write", "failed"} => calls'[q].pc \in {"write", "failed"}
                 /\ calls'[q].pc = "idle" => calls[q].pc = "idle"
      BY <1>1, <3>3 DEF Goto, CallState
    <3>4. ASSUME NEW r \in Requests, DatabaseError(r)
          PROVE  /\ calls'[q].dto = calls[q].dto
                 /\ calls'[q].pc = "write" => calls[q].pc = "write"
                 /\ calls[q].pc \in {"write", "failed"} => calls'[q].pc \in {"write", "failed"}
                 /\ calls'[q].pc = "idle" => calls[q].pc = "idle"
      BY <1>1, <3>4 DEF DatabaseError, CallState
    <3>5. \A r \in Requests :
            /\ AfterProgress(calls[r]) \in Pc \ {"idle", "write"}
            /\ AfterTaskEvent(calls[r]) \in Pc \ {"idle", "write"}
      BY DEF AfterProgress, AfterTaskEvent, Pc
    <3>6. ASSUME NEW r \in Requests,
                 \/ WriteProgress(r)
                 \/ PublishTaskCompleted(r)
                 \/ WriteArdt(r)
                 \/ WriteCompleted(r)
                 \/ PublishTurnaroundCompleted(r)
          PROVE  /\ calls[r].pc \notin {"write", "failed"}
                 /\ \E pc \in Pc \ {"idle", "write"} : Goto(r, pc)
      <4>1. {"complete", "announce", "done"} \subseteq Pc \ {"idle", "write"}
        BY DEF Pc
      <4>2. QED
        BY <3>5, <3>6, <4>1 DEF WriteProgress, PublishTaskCompleted, WriteArdt,
           WriteCompleted, PublishTurnaroundCompleted
    <3>7. QED
      BY <1>4, <3>1, <3>2, <3>3, <3>4, <3>6
  <2>3. QED
    BY <1>2, <2>1, <2>2, SourceKept DEF QuietAbout, IdleHasNoDto
<1>5. ASSUME NEW r \in Requests, FindTask(r)
      PROVE  (\A t \in Tasks : HasSource(t)') /\ IdleHasNoDto'
  <2>1. /\ tasks' = tasks /\ calls[r].dto = None
        /\ \A q \in Requests \ {r} : calls'[q] = calls[q]
    BY <1>1, <1>5 DEF FindTask, IdleHasNoDto
  <2>2. PICK dto \in Dtos :
          \/ /\ dto.task \in Tasks
             /\ calls' = [calls EXCEPT ![r].pc = "write", ![r].dto = dto, ![r].seen = tasks]
          \/ /\ dto.task \notin Tasks
             /\ calls' = [calls EXCEPT ![r].pc = "rejected", ![r].dto = dto]
    BY <1>5 DEF FindTask
  <2>3. \/ calls'[r].pc = "write"
        \/ /\ calls'[r].pc = "rejected"
           /\ calls'[r].dto.task \notin Tasks
    BY <1>1, <2>2 DEF CallState
  <2>4. QED
    BY <1>2, <2>1, <2>3, SourceKept DEF QuietAbout, Foreign, IdleHasNoDto
<1>6. ASSUME NEW r \in Requests, WriteTask(r)
      PROVE  (\A t \in Tasks : HasSource(t)') /\ IdleHasNoDto'
  <2> DEFINE dto == calls[r].dto
             new == WrittenTask(tasks[dto.task], dto, calls[r].seen[dto.task], r)
  <2>1. calls[r].pc = "write" /\ dto \in Dtos /\ dto.task \in Tasks
    BY <1>6 DEF WriteTask, IInv, CallHasData, Active
  <2>2. /\ calls'[r].dto = dto /\ calls'[r].pc = "progress"
        /\ \A q \in Requests \ {r} : calls'[q] = calls[q]
    BY <1>1, <1>6 DEF WriteTask, CallState
  <2>3. /\ tasks'[dto.task] = new
        /\ \A t \in Tasks \ {dto.task} : tasks'[t] = tasks[t]
    BY <1>1, <1>6, <2>1 DEF WriteTask
  <2>4. new.status = IF dto.status = None THEN tasks[dto.task].status ELSE dto.status
    BY DEF WrittenTask
  <2>5. dto # None
    BY <2>1, ConstantsAssumption
  <2>6. ASSUME NEW t \in Tasks PROVE HasSource(t)'
    <3>1. CASE t = dto.task /\ dto.status # None
      <4>1. tasks'[t].status = dto.status
        BY <2>3, <2>4, <3>1
      <4>2. QED
        BY <2>2, <2>5, <3>1, <4>1 DEF HasSource
    <3>2. CASE t # dto.task \/ dto.status = None
      <4>1. tasks'[t].status = tasks[t].status
        BY <2>3, <2>4, <3>2
      <4>2. \A q \in Requests : QuietAbout(q, t)
        BY <2>2, <3>2 DEF QuietAbout, Foreign
      <4>3. QED
        BY <1>2, <4>1, <4>2, SourceKept
    <3>3. QED
      BY <3>1, <3>2
  <2>7. IdleHasNoDto'
    BY <2>2 DEF IdleHasNoDto
  <2>8. QED
    BY <2>6, <2>7
<1>7. QED
  BY <1>4, <1>5, <1>6 DEF Next, Step

\* The positional update never undoes another call's work: whatever calls interleave and
\* fail, a task that was written has a status that one of its own writers gave it.
THEOREM TaskUpdatesAreKept == Spec => []NoLostTaskUpdate
<1>1. Init => NoLostTaskUpdate /\ IdleHasNoDto
  BY DEF Init, NoLostTaskUpdate, StatusWriters, IdleHasNoDto
<1>2. QED
  BY <1>1, SourcesKept, InvariantHolds, PTL DEF Spec
=============================================================================
