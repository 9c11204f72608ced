---------------------- MODULE EquipmentDispatchProofs ----------------------
(***************************************************************************)
(* What holds of EquipmentDispatch for any turnarounds, jobs, units and    *)
(* requests.  The inductive invariant IInv says what a call's local state  *)
(* is worth while others run: its results have rows, its task has no open  *)
(* row between check and insert, and the row it releases is its own unless *)
(* another completion of the task is releasing the same unit (Alone).      *)
(* With Guarded, a stale copy of a unit's status does no harm; with        *)
(* SerialInv, nothing a call has read is stale while calls run one after   *)
(* the other.                                                              *)
(***************************************************************************)
EXTENDS EquipmentDispatch, FiniteSetTheorems, SequenceTheorems, TLAPS

\* A call on its way from the look-up to the commit of a release.
ReleasePcs == {"load", "select", "release"}

\* The local variables a call uses at its pc are set.
Equipped(c, h, R) ==
  /\ c \in StartedHandlers =>
       /\ h.pc \in {"absent", "queued", "check", "find", "assign", "publish",
                    "ack", "acked"}
       /\ h.turnaround = c.turnaround
  /\ c \in CompletedHandlers =>
       /\ h.pc \in {"absent", "queued", "lookup", "load", "select", "release",
                    "ack", "acked"}
       /\ h.turnaround = c.turnaround
       /\ h.job = c.job
  /\ c \in Clients =>
       h.pc \in {"idle", "load", "select", "release", "insert",
                 "patch", "done"}
  /\ h.pc \in {"check", "find", "assign", "insert"} => h.job \in Job
  /\ h.pc = "insert" => h.turnaround \in Turnarounds
  /\ h.pc \in {"assign", "load", "select", "release", "insert",
               "patch"} => h.unit \in Units
  /\ h.pc = "release" => h.row \in DOMAIN R /\ R[h.row].unit = h.unit

\* Every assignment the call is going to report has a row.
Backed(h, R) ==
  \A r \in h.results :
    r.unit # None => \E i \in DOMAIN R : /\ R[i].turnaround = h.turnaround
                                         /\ R[i].job = r.job
                                         /\ R[i].unit = r.unit

OfTask(row, t, k) == row.turnaround = t /\ row.job = k

\* Between check and insert the task of the call has no open row.
Unbooked(h, R, man, drop) ==
  "assign" \notin man /\ ~drop /\ h.pc \in {"find", "assign"} =>
    \A i \in DOMAIN R : ~(R[i].open /\ OfTask(R[i], h.turnaround, h.job))

\* A completion on its way to release has an open row of its own on its unit, and
\* the row it has selected is such a one.
Owning(c, h, R, man, dbl) ==
  /\ man = {} /\ c \in CompletedHandlers /\ h.pc \in ReleasePcs /\ h.unit \notin dbl
  => /\ \E i \in DOMAIN R : /\ R[i].open
                            /\ OfTask(R[i], c.turnaround, c.job)
                            /\ R[i].unit = h.unit
     /\ h.pc = "release" => /\ R[h.row].open
                            /\ OfTask(R[h.row], c.turnaround, c.job)

CallInv(c, h, R, man, drop, dbl) ==
  /\ Equipped(c, h, R)
  /\ Backed(h, R)
  /\ Unbooked(h, R, man, drop)
  /\ Owning(c, h, R, man, dbl)

CallsInv == \A c \in Calls : CallInv(c, calls[c], rows, manual, dropped, doubled)

\* Both are releasing the same unit for the same task.
Twins(g, h) ==
  /\ g.pc \in ReleasePcs /\ h.pc \in ReleasePcs
  /\ g.turnaround = h.turnaround /\ g.job = h.job /\ g.unit = h.unit

\* Where two completions of one task release a unit at a time, doubled tells.
Alone ==
  \A c, d \in CompletedHandlers :
    c # d /\ Twins(calls[c], calls[d]) => calls[c].unit \in doubled

\* Without a connection loss no handler is left behind.
NoneLeft == ~dropped => \A c \in Handlers \ Messages : calls[c].pc = "absent"

\* The first completion of the task of c has been published.
FirstSent(c) == calls[Completed(c.turnaround, c.job, 1)].pc # "absent"

InOrder == \A c \in CompletedHandlers : calls[c].pc # "absent" => FirstSent(c)

LocalInv == CallsInv /\ Alone /\ NoneLeft /\ InOrder

IInv ==
  /\ TypeOK
  /\ LocalInv
  /\ AtMostOneOpenPerTask
  /\ AssignedEventsAreTrue
  /\ OnlyOwnAssignmentReleased

----------------------------------------------------------------------------

\* Rows are appended and closed, never changed otherwise.
Grown(R, R2) ==
  /\ DOMAIN R \subseteq DOMAIN R2
  /\ \A i \in DOMAIN R : /\ R2[i].unit = R[i].unit
                         /\ R2[i].turnaround = R[i].turnaround
                         /\ R2[i].job = R[i].job
                         /\ R2[i].open => R[i].open

\* Messages name a turnaround and a task, and no call is of two sorts.
LEMMA Sorts ==
  /\ \A c \in StartedHandlers : c.turnaround \in Turnarounds /\ c.job = 0
  /\ \A c \in CompletedHandlers :
       /\ c.turnaround \in Turnarounds /\ c.job \in Job
       /\ Completed(c.turnaround, c.job, 1) \in CompletedMessages
  /\ \A c \in StartedMessages : c = Started(c.turnaround)
  /\ StartedHandlers \cap CompletedHandlers = {}
  /\ Clients \cap Handlers = {}
  /\ StartedMessages \subseteq StartedHandlers
  /\ CompletedMessages \subseteq CompletedHandlers
  /\ StartedHandlers \cap Messages \subseteq StartedMessages
  /\ Messages \subseteq Handlers
  /\ Handlers = StartedHandlers \cup CompletedHandlers
  /\ Calls = Handlers \cup Clients
  /\ Job \subseteq 0 .. Jobs /\ 1 \in Job /\ 0 \in 0 .. Jobs
<1>1. /\ \A c \in StartedMessages :
           /\ c.kind = "started" /\ c.turnaround \in Turnarounds /\ c.job = 0
           /\ c.left = 0 /\ c = Started(c.turnaround) /\ Left(c, 0) = c
      /\ \A c \in CompletedMessages :
           /\ c.kind = "completed" /\ c.turnaround \in Turnarounds /\ c.job \in Job
           /\ c.left = 0 /\ Left(c, 0) = c
  BY DEF StartedMessages, Started, CompletedMessages, Completed, Left
<1>2. \A c \in StartedHandlers :
        c.kind = "started" /\ c.turnaround \in Turnarounds /\ c.job = 0
  BY DEF StartedHandlers, StartedMessages, Started, Left
<1>3. \A c \in CompletedHandlers :
        c.kind = "completed" /\ c.turnaround \in Turnarounds /\ c.job \in Job
  BY DEF CompletedHandlers, CompletedMessages, Completed, Left
<1>4. 1 \in Copy /\ 0 \in 0 .. MaxFaults
  BY EquipmentAssumption DEF Copy
<1>5. \A c \in CompletedHandlers : Completed(c.turnaround, c.job, 1) \in CompletedMessages
  BY <1>3, <1>4 DEF CompletedMessages
<1>6. StartedMessages \subseteq StartedHandlers
  BY <1>1, <1>4 DEF StartedHandlers
<1>7. CompletedMessages \subseteq CompletedHandlers
  BY <1>1, <1>4 DEF CompletedHandlers
<1>8. StartedHandlers \cap CompletedHandlers = {}
  BY <1>2, <1>3
<1>9. StartedHandlers \cap Messages \subseteq StartedMessages
  BY <1>7, <1>8 DEF Messages
<1>10. Job \subseteq 0 .. Jobs /\ 1 \in Job /\ 0 \in 0 .. Jobs
  BY EquipmentAssumption DEF Job
<1>11. Messages \subseteq Handlers
  BY <1>6, <1>7 DEF Messages, Handlers
<1>12. QED
  BY <1>1, <1>2, <1>3, <1>5, <1>6, <1>7, <1>8, <1>9, <1>10, <1>11, EquipmentAssumption
     DEF Handlers, Calls

\* BeginHandler tells the sorts apart by their kind.
LEMMA Kinds ==
  /\ \A c \in StartedHandlers : c.kind = "started"
  /\ \A c \in CompletedHandlers : c.kind = "completed"
BY DEF StartedHandlers, StartedMessages, Started, CompletedHandlers, CompletedMessages,
       Completed, Left

\* The handler of m that fault g left behind is of the sort and for the task of m, and
\* no message is.
LEMMA LeftOnes ==
  ASSUME NEW m \in Messages, NEW g \in 1 .. MaxFaults
  PROVE  /\ Left(m, g) \in Handlers \ Messages
         /\ m \in StartedHandlers => Left(m, g) \in StartedHandlers
         /\ m \in CompletedHandlers => Left(m, g) \in CompletedHandlers
         /\ Left(m, g).turnaround = m.turnaround /\ Left(m, g).job = m.job
         /\ [Left(m, g) EXCEPT !.left = 0] = m
<1>1. g \in 0 .. MaxFaults /\ g # 0
  BY EquipmentAssumption
<1>2. \A x \in Messages : x.left = 0
  BY DEF Messages, StartedMessages, CompletedMessages, Started, Completed
<1>3. CASE m \in StartedMessages
  <2>1. /\ Left(m, g).turnaround = m.turnaround /\ Left(m, g).job = m.job
        /\ Left(m, g).left = g /\ [Left(m, g) EXCEPT !.left = 0] = m
    <3>1. PICK t \in Turnarounds : m = Started(t)
      BY <1>3 DEF StartedMessages
    <3>2. /\ m = [kind |-> "started", turnaround |-> t, job |-> 0, copy |-> 0, left |-> 0]
          /\ Left(m, g) = [kind |-> "started", turnaround |-> t, job |-> 0, copy |-> 0,
                           left |-> g]
      BY <3>1 DEF Started, Left
    <3>3. QED
      BY <3>2
  <2>2. Left(m, g) \in StartedHandlers
    BY <1>1, <1>3 DEF StartedHandlers
  <2>3. m \notin CompletedHandlers
    BY <1>3, Sorts
  <2>4. Left(m, g) \notin Messages
    BY <1>1, <1>2, <2>1
  <2>5. QED
    BY <2>1, <2>2, <2>3, <2>4 DEF Handlers
<1>4. CASE m \in CompletedMessages
  <2>1. /\ Left(m, g).turnaround = m.turnaround /\ Left(m, g).job = m.job
        /\ Left(m, g).left = g /\ [Left(m, g) EXCEPT !.left = 0] = m
    <3>1. PICK t \in Turnarounds, k \in Job, n \in Copy : m = Completed(t, k, n)
      BY <1>4 DEF CompletedMessages
    <3>2. /\ m = [kind |-> "completed", turnaround |-> t, job |-> k, copy |-> n, left |-> 0]
          /\ Left(m, g) = [kind |-> "completed", turnaround |-> t, job |-> k, copy |-> n,
                           left |-> g]
      BY <3>1 DEF Completed, Left
    <3>3. QED
      BY <3>2
  <2>2. Left(m, g) \in CompletedHandlers
    BY <1>1, <1>4 DEF CompletedHandlers
  <2>3. m \notin StartedHandlers
    BY <1>4, Sorts
  <2>4. Left(m, g) \notin Messages
    BY <1>1, <1>2, <2>1
  <2>5. QED
    BY <2>1, <2>2, <2>3, <2>4 DEF Handlers
<1>5. QED
  BY <1>3, <1>4 DEF Messages

\* What the invariant asks of a handler of turnaround.started, of one of
\* turnaround.task.completed, and of a request.
LEMMA StartedCall ==
  ASSUME NEW c \in StartedHandlers, NEW H, NEW R, NEW man, NEW drop, NEW dbl,
         H.pc \in {"absent", "queued", "check", "find", "assign", "publish",
                   "ack", "acked"},
         H.turnaround = c.turnaround,
         H.pc \in {"check", "find", "assign"} => H.job \in Job,
         H.pc = "assign" => H.unit \in Units,
         Backed(H, R), Unbooked(H, R, man, drop)
  PROVE  CallInv(c, H, R, man, drop, dbl)
<1>1. c \notin CompletedHandlers /\ c \notin Clients
  BY Sorts
<1>2. Equipped(c, H, R)
  BY <1>1 DEF Equipped
<1>3. Owning(c, H, R, man, dbl)
  BY <1>1 DEF Owning
<1>4. QED
  BY <1>2, <1>3 DEF CallInv

LEMMA CompletedCall ==
  ASSUME NEW c \in CompletedHandlers, NEW H, NEW R, NEW man, NEW drop, NEW dbl,
         H.pc \in {"absent", "queued", "lookup", "load", "select", "release",
                   "ack", "acked"},
         H.turnaround = c.turnaround, H.job = c.job,
         H.pc \in {"load", "select", "release"} => H.unit \in Units,
         H.pc = "release" => H.row \in DOMAIN R /\ R[H.row].unit = H.unit,
         Backed(H, R), Owning(c, H, R, man, dbl)
  PROVE  CallInv(c, H, R, man, drop, dbl)
<1>1. c \notin StartedHandlers /\ c \notin Clients
  BY Sorts
<1>2. Equipped(c, H, R)
  BY <1>1 DEF Equipped
<1>3. Unbooked(H, R, man, drop)
  BY <1>1 DEF Unbooked
<1>4. QED
  BY <1>2, <1>3 DEF CallInv

LEMMA ClientCall ==
  ASSUME NEW c \in Clients, NEW H, NEW R, NEW man, NEW drop, NEW dbl,
         H.pc \in {"idle", "load", "select", "release", "insert",
                   "patch", "done"},
         H.pc = "insert" => H.job \in Job /\ H.turnaround \in Turnarounds,
         H.pc \notin {"idle", "done"} => H.unit \in Units,
         H.pc = "release" => H.row \in DOMAIN R /\ R[H.row].unit = H.unit,
         Backed(H, R)
  PROVE  CallInv(c, H, R, man, drop, dbl)
<1>1. c \notin StartedHandlers /\ c \notin CompletedHandlers
  BY Sorts
<1>2. Equipped(c, H, R)
  BY <1>1 DEF Equipped
<1>3. Unbooked(H, R, man, drop) /\ Owning(c, H, R, man, dbl)
  BY <1>1 DEF Unbooked, Owning
<1>4. QED
  BY <1>2, <1>3 DEF CallInv

\* A call that does not move keeps its part of the invariant when rows only grow,
\* no open row of its task appears behind its check, and its own row stays open.
LEMMA CallKept ==
  ASSUME NEW c, NEW h, NEW R, NEW R2, NEW man, NEW man2, NEW drop, NEW dbl, NEW dbl2,
         CallInv(c, h, R, man, drop, dbl), Grown(R, R2),
         man \subseteq man2, dbl \subseteq dbl2,
         "assign" \notin man2 /\ ~drop /\ h.pc \in {"find", "assign"} =>
           \A j \in DOMAIN R2 : j \notin DOMAIN R => R2[j].turnaround # h.turnaround,
         man2 = {} /\ c \in CompletedHandlers /\ h.pc \in ReleasePcs /\ h.unit \notin dbl2 =>
           \A i \in DOMAIN R :
             R[i].open /\ OfTask(R[i], c.turnaround, c.job) /\ R[i].unit = h.unit
             => R2[i].open
  PROVE  CallInv(c, h, R2, man2, drop, dbl2)
<1>1. Equipped(c, h, R2)
  BY DEF CallInv, Equipped, Grown
<1>2. Backed(h, R2)
  BY DEF CallInv, Backed, Grown
<1>3. Unbooked(h, R2, man2, drop)
  BY DEF CallInv, Unbooked, Grown, OfTask
<1>4. Owning(c, h, R2, man2, dbl2)
  <2>1. SUFFICES ASSUME man2 = {}, c \in CompletedHandlers,
                        h.pc \in ReleasePcs, h.unit \notin dbl2
                 PROVE  /\ \E i \in DOMAIN R2 : /\ R2[i].open
                                               /\ OfTask(R2[i], c.turnaround, c.job)
                                               /\ R2[i].unit = h.unit
                        /\ h.pc = "release" =>
                             /\ R2[h.row].open
                             /\ OfTask(R2[h.row], c.turnaround, c.job)
    BY DEF Owning
  <2>2. man = {} /\ h.unit \notin dbl /\ Owning(c, h, R, man, dbl) /\ Equipped(c, h, R)
    BY <2>1 DEF CallInv
  <2>3. PICK i \in DOMAIN R : /\ R[i].open
                             /\ OfTask(R[i], c.turnaround, c.job)
                             /\ R[i].unit = h.unit
    BY <2>1, <2>2 DEF Owning
  <2>4. i \in DOMAIN R2 /\ R2[i].open /\ R2[i].unit = h.unit
    BY <2>1, <2>3 DEF Grown
  <2>5. OfTask(R2[i], c.turnaround, c.job)
    BY <2>3 DEF OfTask, Grown
  <2>6. h.pc = "release" => /\ R2[h.row].open
                            /\ OfTask(R2[h.row], c.turnaround, c.job)
    <3>1. SUFFICES ASSUME h.pc = "release"
                   PROVE  R2[h.row].open /\ OfTask(R2[h.row], c.turnaround, c.job)
      OBVIOUS
    <3>2. /\ h.row \in DOMAIN R /\ R[h.row].open /\ R[h.row].unit = h.unit
          /\ OfTask(R[h.row], c.turnaround, c.job)
      BY <2>1, <2>2, <3>1 DEF Owning, Equipped
    <3>3. QED
      BY <2>1, <3>2 DEF OfTask, Grown
  <2>7. QED
    BY <2>4, <2>5, <2>6
<1>5. QED
  BY <1>1, <1>2, <1>3, <1>4 DEF CallInv

\* A call may move on only once its message is there, and the first completion of a
\* task is the first to come.
Arrives(c) ==
  calls[c].pc = "absent" =>
    c \in Messages /\ (c \in CompletedHandlers /\ c # Completed(c.turnaround, c.job, 1)
                       => FirstSent(c))

\* In the state h no other completion of c's task releases the unit of c but a doubled one.
Joins(c, h, dbl) ==
  c \in CompletedHandlers =>
    \A d \in CompletedHandlers \ {c} : Twins(calls[d], h) => h.unit \in dbl

LEMMA StaysAlone ==
  ASSUME NEW c \in Calls, NEW H, NEW dbl, LocalInv, doubled \subseteq dbl,
         \/ H.pc \notin ReleasePcs
         \/ /\ calls[c].pc \in ReleasePcs /\ H.turnaround = calls[c].turnaround
            /\ H.job = calls[c].job /\ H.unit = calls[c].unit
  PROVE  Joins(c, H, dbl)
<1>1. Alone
  BY DEF LocalInv
<1>2. QED
  BY <1>1 DEF Joins, Alone, Twins

\* One call moves to H, and the others keep their part of the invariant.
LEMMA CallMoves ==
  ASSUME NEW c \in Calls, NEW H \in Call, TypeOK, LocalInv,
         calls' = [calls EXCEPT ![c] = H],
         Grown(rows, rows'), manual \subseteq manual', dropped' = dropped,
         doubled \subseteq doubled',
         CallInv(c, H, rows', manual', dropped, doubled'),
         Arrives(c), c \in Messages => H.pc # "absent", Joins(c, H, doubled'),
         \A d \in Calls \ {c} :
           "assign" \notin manual' /\ ~dropped /\ calls[d].pc \in {"find", "assign"} =>
             \A j \in DOMAIN rows' :
               j \notin DOMAIN rows => rows'[j].turnaround # calls[d].turnaround,
         \A d \in CompletedHandlers \ {c} :
           manual' = {} /\ calls[d].pc \in ReleasePcs /\ calls[d].unit \notin doubled' =>
             \A i \in DOMAIN rows :
               /\ rows[i].open /\ OfTask(rows[i], d.turnaround, d.job)
               /\ rows[i].unit = calls[d].unit
               => rows'[i].open
  PROVE  /\ calls' \in [Calls -> Call] /\ LocalInv'
         /\ \A m \in Messages : calls[m].pc # "absent" => calls'[m].pc # "absent"
<1>1. /\ calls \in [Calls -> Call]
      /\ CallsInv /\ Alone /\ NoneLeft /\ InOrder
  BY DEF TypeOK, LocalInv
<1>2. calls'[c] = H /\ \A d \in Calls \ {c} : calls'[d] = calls[d]
  BY <1>1
<1>3. ASSUME NEW d \in Calls \ {c}
      PROVE  CallInv(d, calls[d], rows', manual', dropped, doubled')
  <2>1. CallInv(d, calls[d], rows, manual, dropped, doubled)
    BY <1>1 DEF CallsInv
  <2>2. QED
    BY <2>1, CallKept
<1>4. CallsInv'
  BY <1>2, <1>3 DEF CallsInv
<1>5. CompletedHandlers \subseteq Calls /\ Messages \subseteq Calls /\ Handlers \subseteq Calls
  BY Sorts
<1>6. Alone'
  <2>1. SUFFICES ASSUME NEW d \in CompletedHandlers, NEW e \in CompletedHandlers,
                        d # e, Twins(calls'[d], calls'[e])
                 PROVE  calls'[d].unit \in doubled'
    BY DEF Alone, Twins
  <2>2. CASE d # c /\ e # c
    BY <1>1, <1>2, <1>5, <2>1, <2>2 DEF Alone
  <2>3. CASE d = c
    <3>1. Twins(calls[e], H) /\ calls'[d].unit = H.unit
      BY <1>2, <1>5, <2>1, <2>3 DEF Twins
    <3>2. QED
      BY <2>1, <2>3, <3>1 DEF Joins
  <2>4. CASE e = c
    <3>1. Twins(calls[d], H) /\ calls'[d].unit = H.unit
      BY <1>2, <1>5, <2>1, <2>4 DEF Twins
    <3>2. QED
      BY <2>1, <2>4, <3>1 DEF Joins
  <2>5. QED
    BY <2>2, <2>3, <2>4
<1>7. NoneLeft'
  <2>1. SUFFICES ASSUME ~dropped, NEW d \in Handlers \ Messages
                 PROVE  calls'[d].pc = "absent"
    BY DEF NoneLeft
  <2>2. calls[d].pc = "absent"
    BY <1>1, <2>1 DEF NoneLeft
  <2>3. d # c
    BY <2>2 DEF Arrives
  <2>4. QED
    BY <1>2, <1>5, <2>2, <2>3
<1>8. \A m \in Messages : calls[m].pc # "absent" => calls'[m].pc # "absent"
  BY <1>2, <1>5
<1>9. InOrder'
  <2>1. SUFFICES ASSUME NEW d \in CompletedHandlers, calls'[d].pc # "absent"
                 PROVE  calls'[Completed(d.turnaround, d.job, 1)].pc # "absent"
    BY DEF InOrder, FirstSent
  <2> DEFINE f == Completed(d.turnaround, d.job, 1)
  <2>2. f \in Messages
    BY Sorts DEF Messages
  <2>3. CASE calls[d].pc # "absent" \/ d # c
    <3>1. calls[d].pc # "absent"
      BY <1>2, <1>5, <2>1, <2>3
    <3>2. FirstSent(d)
      BY <1>1, <3>1 DEF InOrder
    <3>3. calls[f].pc # "absent"
      BY <3>2 DEF FirstSent
    <3> HIDE DEF f
    <3>4. calls'[f].pc # "absent"
      BY <1>8, <2>2, <3>3
    <3>5. QED
      BY <3>4 DEF f
  <2>4. CASE calls[d].pc = "absent" /\ d = c
    <3>1. c = f \/ calls[f].pc # "absent"
      BY <2>4 DEF Arrives, FirstSent
    <3> HIDE DEF f
    <3>2. calls'[f].pc # "absent"
      BY <1>8, <2>1, <2>2, <2>4, <3>1
    <3>3. QED
      BY <3>2 DEF f
  <2>5. QED
    BY <2>3, <2>4
<1>10. calls' \in [Calls -> Call]
  BY <1>1
<1>11. QED
  BY <1>4, <1>6, <1>7, <1>8, <1>9, <1>10 DEF LocalInv

\* Of closed rows only the unit's place in doubled and the first completion count.
LEMMA StillOwn ==
  ASSUME IInv, doubled \subseteq doubled', manual \subseteq manual', rows' \in Seq(Row),
         \A m \in Messages : calls[m].pc # "absent" => calls'[m].pc # "absent",
         manual' = {} =>
           \A i \in DOMAIN rows' :
             ~rows'[i].open /\ rows'[i].unit \notin doubled' =>
               \/ /\ i \in DOMAIN rows /\ ~rows[i].open /\ rows[i].unit = rows'[i].unit
                  /\ OfTask(rows[i], rows'[i].turnaround, rows'[i].job)
               \/ calls[Completed(rows'[i].turnaround, rows'[i].job, 1)].pc # "absent"
  PROVE  OnlyOwnAssignmentReleased'
<1>1. SUFFICES ASSUME manual' = {}, NEW i \in DOMAIN rows', ~rows'[i].open,
                      rows'[i].unit \notin doubled'
               PROVE  calls'[Completed(rows'[i].turnaround, rows'[i].job, 1)].pc # "absent"
  BY DEF OnlyOwnAssignmentReleased
<1> DEFINE d == Completed(rows'[i].turnaround, rows'[i].job, 1)
<1>2. d \in Messages
  <2>1. rows'[i] \in Row
    BY ElementOfSeq
  <2>2. 1 \in Copy
    BY EquipmentAssumption DEF Copy
  <2>3. QED
    BY <2>1, <2>2 DEF Row, Messages, CompletedMessages
<1>3. calls[d].pc # "absent"
  <2>1. CASE /\ i \in DOMAIN rows /\ ~rows[i].open /\ rows[i].unit = rows'[i].unit
             /\ OfTask(rows[i], rows'[i].turnaround, rows'[i].job)
    <3>1. d = Completed(rows[i].turnaround, rows[i].job, 1)
      BY <2>1 DEF OfTask
    <3>2. manual = {} /\ rows[i].unit \notin doubled
      BY <1>1, <2>1
    <3>3. calls[Completed(rows[i].turnaround, rows[i].job, 1)].pc # "absent"
      BY <2>1, <3>2 DEF IInv, OnlyOwnAssignmentReleased
    <3>4. QED
      BY <3>1, <3>3
  <2>2. QED
    BY <1>1, <2>1
<1> HIDE DEF d
<1>4. calls'[d].pc # "absent"
  BY <1>2, <1>3
<1>5. QED
  BY <1>4 DEF d

\* A step of one call that leaves table and events alone.
LEMMA QuietStep ==
  ASSUME IInv, NEW c \in Calls, NEW H \in Call,
         calls' = [calls EXCEPT ![c] = H],
         rows' = rows, sent' = sent,
         status' \in [Units -> Status], faults' \in Nat, overlapped' \in BOOLEAN,
         manual \subseteq manual', manual' \subseteq {"assign", "release", "patch"},
         dropped' = dropped, doubled \subseteq doubled', doubled' \subseteq Units,
         Arrives(c), c \in Messages => H.pc # "absent", Joins(c, H, doubled'),
         CallInv(c, H, rows, manual', dropped, doubled')
  PROVE  IInv'
<1>1. Grown(rows, rows') /\ TypeOK /\ LocalInv
  BY DEF Grown, IInv
<1>2. /\ calls' \in [Calls -> Call] /\ LocalInv'
      /\ \A m \in Messages : calls[m].pc # "absent" => calls'[m].pc # "absent"
  BY <1>1, CallMoves
<1>3. TypeOK'
  BY <1>1, <1>2 DEF TypeOK
<1>4. AtMostOneOpenPerTask' /\ AssignedEventsAreTrue'
  BY DEF IInv, AtMostOneOpenPerTask, AssignedEventsAreTrue
<1>5. OnlyOwnAssignmentReleased'
  <2>1. rows' \in Seq(Row)
    BY <1>3 DEF TypeOK
  <2>2. QED
    BY <1>2, <2>1, StillOwn DEF OfTask
<1>6. QED
  BY <1>2, <1>3, <1>4, <1>5 DEF IInv

\* What the invariant says of one call.
LEMMA CallOf ==
  ASSUME IInv, NEW c \in Calls
  PROVE  /\ calls[c] \in Call
         /\ CallInv(c, calls[c], rows, manual, dropped, doubled)
         /\ calls \in [Calls -> Call] /\ status \in [Units -> Status]
         /\ faults \in Nat /\ overlapped \in BOOLEAN /\ dropped \in BOOLEAN
         /\ doubled \subseteq Units
         /\ manual \subseteq {"assign", "release", "patch"}
BY DEF IInv, TypeOK, LocalInv, CallsInv

LEMMA FreshType ==
  ASSUME NEW pc \in Pc, NEW t \in Turnarounds \cup {None}, NEW k \in 0 .. Jobs
  PROVE  /\ Fresh(pc, t, k) \in Call
         /\ Fresh(pc, t, k).pc = pc /\ Fresh(pc, t, k).turnaround = t
         /\ Fresh(pc, t, k).job = k /\ Fresh(pc, t, k).results = {}
BY DEF Fresh, Call, Status, Result

\* A handler that starts anew, or has gone.
LEMMA FreshHandler ==
  ASSUME NEW c \in Handlers, NEW pc \in {"absent", "queued", "acked"},
         NEW R, NEW man, NEW drop, NEW dbl
  PROVE  /\ Fresh(pc, c.turnaround, c.job) \in Call
         /\ Fresh(pc, c.turnaround, c.job).pc = pc
         /\ CallInv(c, Fresh(pc, c.turnaround, c.job), R, man, drop, dbl)
<1> DEFINE F == Fresh(pc, c.turnaround, c.job)
<1>1. c.turnaround \in Turnarounds /\ c.job \in 0 .. Jobs /\ pc \in Pc
  BY Sorts DEF Pc
<1>2. /\ F \in Call /\ F.pc = pc /\ F.results = {}
      /\ F.turnaround = c.turnaround /\ F.job = c.job
  BY <1>1, FreshType
<1> HIDE DEF F
<1>3. Backed(F, R) /\ Unbooked(F, R, man, drop) /\ Owning(c, F, R, man, dbl)
  BY <1>2 DEF Backed, Unbooked, Owning, ReleasePcs
<1>4. CallInv(c, F, R, man, drop, dbl)
  <2>1. CASE c \in StartedHandlers
    BY <1>2, <1>3, <2>1, StartedCall
  <2>2. CASE c \in CompletedHandlers
    BY <1>2, <1>3, <2>2, CompletedCall
  <2>3. QED
    BY <2>1, <2>2 DEF Handlers
<1>5. QED
  BY <1>2, <1>4 DEF F

LEMMA InitInv == Init => IInv
<1> SUFFICES ASSUME Init PROVE IInv
  OBVIOUS
<1>1. ASSUME NEW c \in Calls
      PROVE  /\ calls[c] \in Call /\ calls[c].pc \in {"idle", "absent"}
             /\ c \in Handlers => calls[c].pc = "absent"
             /\ CallInv(c, calls[c], rows, manual, dropped, doubled)
  <2>1. CASE c \in Clients
    <3> DEFINE F == Fresh("idle", None, 0)
    <3>1. calls[c] = F /\ c \notin Handlers
      BY <2>1, Sorts DEF Init
    <3>2. F \in Call /\ F.pc = "idle" /\ F.results = {}
      <4>1. 0 \in 0 .. Jobs /\ "idle" \in Pc
        BY Sorts DEF Pc
      <4>2. QED
        BY <4>1, FreshType
    <3> HIDE DEF F
    <3>3. CallInv(c, F, rows, manual, dropped, doubled)
      BY <2>1, <3>2, ClientCall DEF Backed
    <3>4. QED
      BY <3>1, <3>2, <3>3
  <2>2. CASE c \in Handlers
    <3>1. calls[c] = Fresh("absent", c.turnaround, c.job)
      BY <2>2, Sorts DEF Init
    <3>2. QED
      BY <2>2, <3>1, FreshHandler
  <2>3. QED
    BY <2>1, <2>2, Sorts
<1>2. TypeOK
  <2>1. calls \in [Calls -> Call]
    BY <1>1 DEF Init
  <2>2. QED
    BY <2>1, EmptySeq DEF TypeOK, Status, Init
<1>3. LocalInv
  <2>1. \A c \in Handlers : calls[c].pc = "absent"
    BY <1>1, Sorts
  <2>2. QED
    BY <1>1, <2>1, Sorts DEF LocalInv, CallsInv, Alone, NoneLeft, InOrder, Twins, ReleasePcs
<1>4. AtMostOneOpenPerTask /\ AssignedEventsAreTrue /\ OnlyOwnAssignmentReleased
  BY DEF Init, AtMostOneOpenPerTask, AssignedEventsAreTrue, OnlyOwnAssignmentReleased
<1>5. QED
  BY <1>2, <1>3, <1>4 DEF IInv

----------------------------------------------------------------------------

\* A call at work goes on, outside the release.
LEMMA WorkStep ==
  ASSUME IInv, NEW c \in Calls, NEW H \in Call,
         calls' = [calls EXCEPT ![c] = H],
         rows' = rows, sent' = sent,
         status' \in [Units -> Status], faults' \in Nat, overlapped' \in BOOLEAN,
         manual \subseteq manual', manual' \subseteq {"assign", "release", "patch"},
         dropped' = dropped, doubled' = doubled,
         Arrives(c), H.pc \notin ReleasePcs, c \in Messages => H.pc # "absent",
         CallInv(c, H, rows, manual', dropped, doubled)
  PROVE  IInv'
<1>1. LocalInv /\ doubled \subseteq Units
  BY CallOf DEF IInv
<1>2. Joins(c, H, doubled)
  BY <1>1, StaysAlone
<1>3. QED
  BY <1>1, <1>2, QuietStep

\* A call goes to a place that needs nothing of its local variables.
LEMMA GotoInv ==
  ASSUME IInv, NEW c \in Calls, NEW pc \in Pc, Goto(c, pc),
         rows' = rows, sent' = sent, status' \in [Units -> Status],
         faults' \in Nat, overlapped' = overlapped,
         manual \subseteq manual', manual' \subseteq {"assign", "release", "patch"},
         dropped' = dropped, doubled' = doubled, Arrives(c),
         \/ c \in Handlers /\ pc \in {"queued", "ack"}
         \/ c \in Clients /\ pc = "done"
  PROVE  IInv'
<1> DEFINE h == calls[c]
           H == [h EXCEPT !.pc = pc]
<1>1. h \in Call /\ CallInv(c, h, rows, manual, dropped, doubled) /\ overlapped \in BOOLEAN
  BY CallOf
<1>2. /\ H \in Call /\ H.pc = pc /\ H.turnaround = h.turnaround
      /\ H.job = h.job /\ H.results = h.results
  BY <1>1 DEF Call
<1>3. calls' = [calls EXCEPT ![c] = H]
  BY DEF Goto
<1> HIDE DEF H
<1>4. CallInv(c, H, rows, manual', dropped, doubled)
  <2>1. Backed(H, rows)
    BY <1>1, <1>2 DEF CallInv, Backed
  <2>2. CASE c \in StartedHandlers
    <3>1. pc \in {"queued", "ack"} /\ H.turnaround = c.turnaround
      BY <1>1, <1>2, <2>2, Sorts DEF CallInv, Equipped
    <3>2. QED
      BY <1>2, <2>1, <2>2, <3>1, StartedCall DEF Unbooked
  <2>3. CASE c \in CompletedHandlers
    <3>1. /\ pc \in {"queued", "ack"} /\ H.turnaround = c.turnaround
          /\ H.job = c.job
      BY <1>1, <1>2, <2>3, Sorts DEF CallInv, Equipped
    <3>2. QED
      BY <1>2, <2>1, <2>3, <3>1, CompletedCall DEF Owning, ReleasePcs
  <2>4. CASE c \in Clients
    <3>1. pc = "done"
      BY <2>4, Sorts
    <3>2. QED
      BY <1>2, <2>1, <2>4, <3>1, ClientCall
  <2>5. QED
    BY <2>2, <2>3, <2>4 DEF Calls, Handlers
<1>5. H.pc \notin ReleasePcs /\ H.pc # "absent"
  BY <1>2 DEF ReleasePcs
<1>6. QED
  BY <1>1, <1>2, <1>3, <1>4, <1>5, WorkStep

LEMMA PublishInv ==
  ASSUME IInv, NEW c \in Messages, Publish(c), Arrives(c)
  PROVE  IInv'
<1>1. c \in Calls /\ c \in Handlers
  BY Sorts
<1>2. QED
  BY <1>1, CallOf, GotoInv DEF Publish, history, Pc

\* The n-th completion of a task comes behind the one before.
LEMMA PublishCompletedInv ==
  ASSUME IInv, NEW t \in Turnarounds, NEW k \in Job, NEW n \in Copy,
         PublishCompleted(t, k, n)
  PROVE  IInv'
<1> DEFINE c == Completed(t, k, n)
           d == Completed(t, k, n - 1)
<1>1. c \in Messages /\ c.turnaround = t /\ c.job = k
  BY DEF Messages, CompletedMessages, Completed
<1>2. Publish(c)
  BY DEF PublishCompleted
<1>3. Arrives(c)
  <2>1. CASE n = 1
    BY <1>1, <2>1 DEF Arrives
  <2>2. CASE n # 1
    <3>1. calls[d].pc # "absent"
      BY <2>2 DEF PublishCompleted
    <3>2. n - 1 \in Copy
      BY <2>2, EquipmentAssumption DEF Copy
    <3>3. d \in CompletedHandlers /\ d.turnaround = t /\ d.job = k
      BY <3>2, Sorts DEF CompletedMessages, Completed
    <3> HIDE DEF d
    <3>4. FirstSent(d)
      BY <3>1, <3>3 DEF IInv, LocalInv, InOrder
    <3>5. FirstSent(c)
      BY <1>1, <3>3, <3>4 DEF FirstSent
    <3>6. QED
      BY <1>1, <3>5 DEF Arrives
  <2>3. QED
    BY <2>1, <2>2
<1> HIDE DEF c
<1>4. QED
  BY <1>1, <1>2, <1>3, PublishInv

\* An exception drops the results.
LEMMA AbortInv ==
  ASSUME IInv, NEW c \in Calls, Abort(c),
         rows' = rows, sent' = sent, status' = status,
         faults' \in Nat, overlapped' = overlapped, manual' = manual,
         dropped' = dropped, doubled' = doubled, calls[c].pc # "absent",
         ~Resting(calls[c].pc) \/ c \in Handlers
  PROVE  IInv'
<1> DEFINE h == calls[c]
           H == [h EXCEPT !.pc = Over(c), !.results = {}]
<1>1. /\ h \in Call /\ CallInv(c, h, rows, manual, dropped, doubled) /\ overlapped \in BOOLEAN
      /\ status \in [Units -> Status]
      /\ manual \subseteq {"assign", "release", "patch"}
  BY CallOf
<1>2. /\ c \in Clients => Over(c) = "done"
      /\ c \in Handlers => Over(c) = "ack"
      /\ Over(c) \in Pc /\ Over(c) \notin ReleasePcs
  BY Sorts DEF Over, Pc, ReleasePcs
<1>3. /\ H \in Call /\ H.pc = Over(c) /\ H.turnaround = h.turnaround
      /\ H.job = h.job /\ H.results = {}
  BY <1>1, <1>2 DEF Call, Result
<1>4. calls' = [calls EXCEPT ![c] = H]
  BY DEF Abort
<1> HIDE DEF H
<1>5. CallInv(c, H, rows, manual', dropped, doubled) /\ H.pc # "absent"
  BY <1>1, <1>2, <1>3, Sorts DEF CallInv, Equipped, Backed, Unbooked, Owning
<1>6. Arrives(c)
  BY DEF Arrives
<1>7. QED
  BY <1>1, <1>2, <1>3, <1>4, <1>5, <1>6, WorkStep

LEMMA BeginHandlerInv ==
  ASSUME IInv, NEW c \in Handlers, BeginHandler(c)
  PROVE  IInv'
<1> DEFINE H == IF c.kind = "started"
                THEN Fresh("check", c.turnaround, 1)
                ELSE Fresh("lookup", c.turnaround, c.job)
<1>1. /\ calls' = [calls EXCEPT ![c] = H] /\ overlapped' \in BOOLEAN
      /\ rows' = rows /\ sent' = sent /\ status' = status
      /\ faults' = faults /\ manual' = manual
      /\ dropped' = dropped /\ doubled' = doubled
  <2>1. overlapped \in BOOLEAN
    BY DEF IInv, TypeOK
  <2>2. QED
    BY <2>1 DEF BeginHandler, Begin
<1>2. c \in Calls /\ Arrives(c)
  BY Sorts DEF BeginHandler, Arrives
<1>3. /\ H \in Call /\ H.results = {} /\ H.turnaround = c.turnaround
      /\ c \in StartedHandlers => H.pc = "check" /\ H.job = 1
      /\ c \in CompletedHandlers => H.pc = "lookup" /\ H.job = c.job
      /\ H.pc \in {"check", "lookup"}
  <2>1. CASE c \in StartedHandlers
    <3>1. /\ H = Fresh("check", c.turnaround, 1) /\ c.turnaround \in Turnarounds
          /\ c \notin CompletedHandlers /\ 1 \in 0 .. Jobs
      BY <2>1, Sorts, Kinds
    <3> HIDE DEF H
    <3>2. QED
      BY <2>1, <3>1, FreshType DEF Pc
  <2>2. CASE c \in CompletedHandlers
    <3>1. /\ H = Fresh("lookup", c.turnaround, c.job) /\ c.turnaround \in Turnarounds
          /\ c \notin StartedHandlers /\ c.job \in 0 .. Jobs
      BY <2>2, Sorts, Kinds
    <3> HIDE DEF H
    <3>2. QED
      BY <2>2, <3>1, FreshType DEF Pc
  <2>3. QED
    BY <2>1, <2>2 DEF Handlers
<1> HIDE DEF H
<1>4. CallInv(c, H, rows, manual', dropped, doubled)
  BY <1>3, Sorts DEF CallInv, Equipped, Backed, Unbooked, Owning, ReleasePcs
<1>5. H.pc \notin ReleasePcs /\ H.pc # "absent"
  BY <1>3 DEF ReleasePcs
<1>6. QED
  BY <1>1, <1>2, <1>3, <1>4, <1>5, WorkStep, CallOf

\* Going on with the loop: the next task, or its end.
LEMMA AdvanceCall ==
  ASSUME NEW h \in Call, NEW results \in SUBSET Result, h.job \in Job
  PROVE  /\ Advance(h, results) \in Call
         /\ Advance(h, results).turnaround = h.turnaround
         /\ Advance(h, results).results = results
         /\ Advance(h, results).pc \in {"check", "publish", "ack"}
         /\ Advance(h, results).pc = "check" => Advance(h, results).job \in Job
<1>1. h.job \in 1 .. Jobs /\ Jobs \in Nat
  BY EquipmentAssumption DEF Job
<1>2. CASE h.job < Jobs
  <2>1. Advance(h, results) = [h EXCEPT !.pc = "check", !.job = @ + 1, !.results = results]
    BY <1>2 DEF Advance
  <2>2. h.job + 1 \in 1 .. Jobs /\ h.job + 1 \in 0 .. Jobs
    BY <1>1, <1>2
  <2>3. QED
    BY <2>1, <2>2 DEF Call, Pc, Job
<1>3. CASE ~(h.job < Jobs)
  <2>1. Advance(h, results) =
          [h EXCEPT !.pc = IF results = {} THEN "ack" ELSE "publish", !.results = results]
    BY <1>3 DEF Advance
  <2>2. QED
    BY <2>1 DEF Call, Pc
<1>4. QED
  BY <1>2, <1>3

LEMMA CheckInv ==
  ASSUME IInv, NEW c \in StartedHandlers, Check(c)
  PROVE  IInv'
<1> DEFINE h == calls[c]
           open == OpenOf(h.turnaround, h.job)
<1>1. /\ c \in Calls /\ c \in Handlers /\ h.pc = "check"
      /\ rows' = rows /\ sent' = sent /\ status' = status
      /\ faults' = faults /\ manual' = manual /\ overlapped' = overlapped
      /\ dropped' = dropped /\ doubled' = doubled /\ Arrives(c)
  BY DEF Check, Calls, Handlers, history, Arrives
<1>2. /\ h \in Call /\ CallInv(c, h, rows, manual, dropped, doubled) /\ faults \in Nat
      /\ overlapped \in BOOLEAN /\ status \in [Units -> Status]
      /\ manual \subseteq {"assign", "release", "patch"}
  BY <1>1, CallOf
<1>3. h.job \in Job /\ h.turnaround = c.turnaround
  BY <1>1, <1>2 DEF CallInv, Equipped
<1>4. CASE open = {} /\ Goto(c, "find")
  <2> DEFINE H == [h EXCEPT !.pc = "find"]
  <2>1. calls' = [calls EXCEPT ![c] = H]
    BY <1>4 DEF Goto
  <2>2. /\ H \in Call /\ H.pc = "find" /\ H.turnaround = h.turnaround
        /\ H.job = h.job /\ H.results = h.results
    BY <1>2 DEF Call, Pc
  <2> HIDE DEF H
  <2>3. Unbooked(H, rows, manual, dropped)
    BY <1>4, <2>2 DEF Unbooked, OpenOf, OfTask
  <2>4. CallInv(c, H, rows, manual, dropped, doubled)
    <3>1. Backed(H, rows)
      BY <1>2, <2>2 DEF CallInv, Backed
    <3>2. QED
      BY <1>3, <2>2, <2>3, <3>1, StartedCall
  <2>5. QED
    BY <1>1, <1>2, <2>1, <2>2, <2>4, WorkStep DEF ReleasePcs
<1>5. CASE calls' = [calls EXCEPT ![c] = Advance(h, h.results)]
  <2> DEFINE H == Advance(h, h.results)
  <2>1. h.results \in SUBSET Result
    BY <1>2 DEF Call
  <2>2. /\ H \in Call /\ H.turnaround = h.turnaround /\ H.results = h.results
        /\ H.pc \in {"check", "publish", "ack"} /\ (H.pc = "check" => H.job \in Job)
    BY <1>2, <1>3, <2>1, AdvanceCall
  <2>3. calls' = [calls EXCEPT ![c] = H]
    BY <1>5
  <2> HIDE DEF H
  <2>4. CallInv(c, H, rows, manual, dropped, doubled)
    <3>1. Backed(H, rows)
      BY <1>2, <2>2 DEF CallInv, Backed
    <3>2. QED
      BY <1>3, <2>2, <3>1, StartedCall DEF Unbooked
  <2>5. QED
    BY <1>1, <1>2, <2>2, <2>3, <2>4, WorkStep DEF ReleasePcs
<1>6. CASE Abort(c)
  BY <1>1, <1>2, <1>6, AbortInv
<1>7. QED
  BY <1>4, <1>5, <1>6 DEF Check

LEMMA FindInv ==
  ASSUME IInv, NEW c \in StartedHandlers, Find(c)
  PROVE  IInv'
<1> DEFINE h == calls[c]
           free == Available(h.job)
<1>1. /\ c \in Calls /\ c \in Handlers /\ h.pc = "find"
      /\ rows' = rows /\ sent' = sent /\ status' = status
      /\ faults' = faults /\ manual' = manual /\ overlapped' = overlapped
      /\ dropped' = dropped /\ doubled' = doubled /\ Arrives(c)
  BY DEF Find, Calls, Handlers, history, Arrives
<1>2. /\ h \in Call /\ CallInv(c, h, rows, manual, dropped, doubled) /\ faults \in Nat
      /\ overlapped \in BOOLEAN /\ status \in [Units -> Status]
      /\ manual \subseteq {"assign", "release", "patch"}
  BY <1>1, CallOf
<1>3. h.job \in Job /\ h.turnaround = c.turnaround /\ h.results \in SUBSET Result
  BY <1>1, <1>2 DEF CallInv, Equipped, Call
<1>4. CASE calls' = [calls EXCEPT ![c] =
                       Advance([h EXCEPT !.held = None],
                               h.results \cup {[job |-> h.job, unit |-> None]})]
  <2> DEFINE g == [h EXCEPT !.held = None]
             results == h.results \cup {[job |-> h.job, unit |-> None]}
             H == Advance(g, results)
  <2>1. g \in Call /\ g.job = h.job /\ g.turnaround = h.turnaround
    BY <1>2 DEF Call
  <2>2. results \in SUBSET Result
    BY <1>3 DEF Result
  <2>3. calls' = [calls EXCEPT ![c] = H]
    BY <1>4
  <2>4. \A r \in results : r.unit = None \/ r \in h.results
    OBVIOUS
  <2> HIDE DEF g, results
  <2>5. /\ H \in Call /\ H.turnaround = h.turnaround /\ H.results = results
        /\ H.pc \in {"check", "publish", "ack"} /\ (H.pc = "check" => H.job \in Job)
    BY <1>3, <2>1, <2>2, AdvanceCall
  <2> HIDE DEF H
  <2>6. Backed(H, rows)
    BY <1>2, <2>4, <2>5 DEF CallInv, Backed
  <2>7. CallInv(c, H, rows, manual, dropped, doubled)
    BY <1>1, <1>2, <1>3, <2>5, <2>6, Sorts DEF CallInv, Equipped, Unbooked, Owning, ReleasePcs
  <2>8. QED
    BY <1>1, <1>2, <2>3, <2>5, <2>7, WorkStep DEF ReleasePcs
<1>5. CASE \E u \in First(free) :
             calls' = [calls EXCEPT ![c].pc = "assign", ![c].unit = u]
  <2>1. PICK u \in First(free) :
               calls' = [calls EXCEPT ![c].pc = "assign", ![c].unit = u]
    BY <1>5
  <2> DEFINE H == [h EXCEPT !.pc = "assign", !.unit = u]
  <2>2. u \in Units
    BY <1>3, EquipmentAssumption DEF First, Available
  <2>3. /\ H \in Call /\ H.pc = "assign" /\ H.turnaround = h.turnaround
        /\ H.job = h.job /\ H.results = h.results /\ H.unit = u
    BY <1>2, <2>2 DEF Call, Pc
  <2>4. calls' = [calls EXCEPT ![c] = H]
    BY <1>1, <1>2, <2>1, CallOf
  <2> HIDE DEF H
  <2>5. CallInv(c, H, rows, manual, dropped, doubled)
    BY <1>1, <1>2, <1>3, <2>2, <2>3, Sorts
       DEF CallInv, Equipped, Backed, Unbooked, Owning, ReleasePcs
  <2>6. QED
    BY <1>1, <1>2, <2>3, <2>4, <2>5, WorkStep DEF ReleasePcs
<1>6. QED
  BY <1>4, <1>5 DEF Find

\* What becomes of the table's properties when it grows while every closed row is
\* one whose completion has been published, or stands for a doubled unit.
LEMMA TableGrows ==
  ASSUME IInv, Grown(rows, rows'), manual \subseteq manual', sent' = sent,
         calls' \in [Calls -> Call], LocalInv', rows' \in Seq(Row),
         status' \in [Units -> Status], faults' \in Nat, overlapped' = overlapped,
         manual' \subseteq {"assign", "release", "patch"},
         dropped' = dropped, doubled' = doubled,
         AtMostOneOpenPerTask',
         \A m \in Messages : calls[m].pc # "absent" => calls'[m].pc # "absent",
         manual' = {} =>
           \A i \in DOMAIN rows' :
             ~rows'[i].open /\ rows'[i].unit \notin doubled =>
               \/ i \in DOMAIN rows /\ ~rows[i].open
               \/ calls[Completed(rows'[i].turnaround, rows'[i].job, 1)].pc # "absent"
  PROVE  IInv'
<1>1. TypeOK'
  BY DEF IInv, TypeOK
<1>2. AssignedEventsAreTrue'
  BY DEF IInv, AssignedEventsAreTrue, Grown
<1>3. \A i \in DOMAIN rows :
        /\ rows[i].unit = rows'[i].unit
        /\ OfTask(rows[i], rows'[i].turnaround, rows'[i].job)
  BY DEF Grown, OfTask
<1>4. OnlyOwnAssignmentReleased'
  BY <1>3, StillOwn
<1>5. QED
  BY <1>1, <1>2, <1>4 DEF IInv

\* A row is appended for unit u and task k of turnaround t.
LEMMA Inserted ==
  ASSUME IInv, NEW u \in Units, NEW t \in Turnarounds, NEW k \in Job, Insert(u, t, k)
  PROVE  /\ rows' \in Seq(Row) /\ status' \in [Units -> Status]
         /\ Grown(rows, rows')
         /\ Len(rows) + 1 \in DOMAIN rows'
         /\ rows'[Len(rows) + 1] = [unit |-> u, turnaround |-> t, job |-> k, open |-> TRUE]
         /\ \A i \in DOMAIN rows : rows'[i] = rows[i]
         /\ \A j \in DOMAIN rows' : j \notin DOMAIN rows => j = Len(rows) + 1
<1> DEFINE row == [unit |-> u, turnaround |-> t, job |-> k, open |-> TRUE]
<1>1. row \in Row /\ rows \in Seq(Row) /\ rows' = Append(rows, row)
      /\ status' = [status EXCEPT ![u] = "in_use"] /\ status \in [Units -> Status]
  BY DEF Row, Insert, IInv, TypeOK
<1> HIDE DEF row
<1>2. /\ rows' \in Seq(Row) /\ Len(rows') = Len(rows) + 1
      /\ \A i \in 1 .. Len(rows) : rows'[i] = rows[i]
      /\ rows'[Len(rows) + 1] = row
  BY <1>1, AppendProperties
<1>3. /\ DOMAIN rows = 1 .. Len(rows) /\ DOMAIN rows' = 1 .. Len(rows')
      /\ Len(rows) \in Nat
  BY <1>1, <1>2
<1>4. status' \in [Units -> Status]
  BY <1>1 DEF Status
<1>5. Grown(rows, rows')
  BY <1>2, <1>3 DEF Grown
<1>6. Len(rows) + 1 \in DOMAIN rows'
  BY <1>2, <1>3
<1>7. \A j \in DOMAIN rows' : j \notin DOMAIN rows => j = Len(rows) + 1
  BY <1>2, <1>3
<1>8. QED
  BY <1>2, <1>3, <1>4, <1>5, <1>6, <1>7 DEF row

\* A handler inserts the row of its task and goes on as H.
LEMMA InsertInv ==
  ASSUME IInv, NEW c \in StartedHandlers, NEW H \in Call, calls[c].pc = "assign",
         Insert(calls[c].unit, calls[c].turnaround, calls[c].job),
         calls' = [calls EXCEPT ![c] = H],
         sent' = sent, faults' \in Nat, overlapped' = overlapped, manual' = manual,
         dropped' = dropped, doubled' = doubled,
         H.turnaround = calls[c].turnaround,
         H.pc \in {"check", "publish", "ack"}, H.pc = "check" => H.job \in Job,
         H.results \subseteq
           calls[c].results \cup {[job |-> calls[c].job, unit |-> calls[c].unit]}
  PROVE  IInv'
<1> DEFINE h == calls[c]
           u == h.unit
           n == Len(rows) + 1
<1>1. c \in Calls /\ c \in Handlers
  BY Sorts
<1>2. /\ h \in Call /\ CallInv(c, h, rows, manual, dropped, doubled)
      /\ overlapped \in BOOLEAN /\ status \in [Units -> Status]
      /\ manual \subseteq {"assign", "release", "patch"}
      /\ calls \in [Calls -> Call]
  BY <1>1, CallOf
<1>3. /\ h.job \in Job /\ h.turnaround = c.turnaround
      /\ u \in Units /\ c.turnaround \in Turnarounds
  BY <1>1, <1>2, Sorts DEF CallInv, Equipped, Call
<1>4. /\ rows' \in Seq(Row) /\ status' \in [Units -> Status]
      /\ Grown(rows, rows') /\ n \in DOMAIN rows'
      /\ rows'[n] = [unit |-> u, turnaround |-> h.turnaround, job |-> h.job,
                     open |-> TRUE]
      /\ \A i \in DOMAIN rows : rows'[i] = rows[i]
      /\ \A j \in DOMAIN rows' : j \notin DOMAIN rows => j = n
  BY <1>3, Inserted
<1> HIDE DEF n
<1>5. /\ rows'[n].unit = u /\ rows'[n].turnaround = c.turnaround
      /\ rows'[n].job = h.job /\ rows'[n].open
  BY <1>3, <1>4
<1>6. Backed(H, rows')
  <2>1. SUFFICES ASSUME NEW r \in H.results, r.unit # None
                 PROVE  \E i \in DOMAIN rows' : /\ rows'[i].turnaround = c.turnaround
                                                /\ rows'[i].job = r.job
                                                /\ rows'[i].unit = r.unit
    BY <1>3 DEF Backed
  <2>2. CASE r \in h.results
    <3>1. PICK i \in DOMAIN rows : /\ rows[i].turnaround = h.turnaround
                                   /\ rows[i].job = r.job
                                   /\ rows[i].unit = r.unit
      BY <1>2, <2>1, <2>2 DEF CallInv, Backed
    <3>2. i \in DOMAIN rows' /\ rows'[i] = rows[i]
      BY <1>4 DEF Grown
    <3>3. QED
      BY <1>3, <3>1, <3>2
  <2>3. CASE r \notin h.results
    <3>1. r.job = h.job /\ r.unit = u
      BY <2>3
    <3>2. QED
      BY <1>4, <1>5, <3>1
  <2>4. QED
    BY <2>2, <2>3
<1>7. CallInv(c, H, rows', manual', dropped, doubled')
  BY <1>3, <1>6, StartedCall DEF Unbooked
<1>8. ASSUME NEW d \in Calls \ {c}, ~dropped, calls[d].pc \in {"find", "assign"},
             NEW j \in DOMAIN rows', j \notin DOMAIN rows
      PROVE  rows'[j].turnaround # calls[d].turnaround
  <2>1. CallInv(d, calls[d], rows, manual, dropped, doubled)
    BY CallOf
  <2>2. d \in StartedHandlers /\ calls[d].turnaround = d.turnaround
    <3>1. d \notin CompletedHandlers /\ d \notin Clients
      BY <1>8, <2>1 DEF CallInv, Equipped
    <3>2. d \in StartedHandlers
      BY <3>1 DEF Calls, Handlers
    <3>3. QED
      BY <2>1, <3>2 DEF CallInv, Equipped
  <2>3. c \in Messages /\ d \in Messages
    <3>1. d \in Handlers
      BY <2>2, Sorts
    <3>2. \A x \in Handlers \ Messages : calls[x].pc = "absent"
      BY <1>8 DEF IInv, LocalInv, NoneLeft
    <3>3. QED
      BY <1>1, <1>8, <3>1, <3>2
  <2>4. d.turnaround # c.turnaround
    <3>1. c \in StartedMessages /\ d \in StartedMessages
      BY <2>2, <2>3, Sorts
    <3>2. c = Started(c.turnaround) /\ d = Started(d.turnaround)
      BY <3>1, Sorts
    <3>3. QED
      BY <1>8, <3>2
  <2>5. j = n
    BY <1>4, <1>8
  <2>6. QED
    BY <1>5, <2>2, <2>4, <2>5
<1>9. \A i \in DOMAIN rows : rows[i].open => rows'[i].open
  BY <1>4
<1>10. Arrives(c) /\ H.pc # "absent" /\ H.pc \notin ReleasePcs
  BY DEF Arrives, ReleasePcs
<1>11. TypeOK /\ LocalInv /\ Joins(c, H, doubled')
  <2>1. LocalInv
    BY DEF IInv
  <2>2. Joins(c, H, doubled)
    BY <1>1, <1>10, <2>1, StaysAlone
  <2>3. QED
    BY <2>1, <2>2 DEF IInv
<1>12. /\ calls' \in [Calls -> Call] /\ LocalInv'
       /\ \A m \in Messages : calls[m].pc # "absent" => calls'[m].pc # "absent"
  BY <1>1, <1>4, <1>7, <1>8, <1>9, <1>10, <1>11, CallMoves
<1>13. AtMostOneOpenPerTask'
  <2>1. SUFFICES ASSUME "assign" \notin manual, ~dropped,
                        NEW i \in DOMAIN rows', NEW j \in DOMAIN rows',
                        rows'[i].open, rows'[j].open,
                        rows'[i].turnaround = rows'[j].turnaround,
                        rows'[i].job = rows'[j].job
                 PROVE  i = j
    BY DEF AtMostOneOpenPerTask
  <2>2. \A x \in DOMAIN rows :
          rows[x].open /\ rows[x].turnaround = c.turnaround => rows[x].job # h.job
    BY <1>2, <1>3, <2>1 DEF CallInv, Unbooked, OfTask
  <2>3. CASE i \in DOMAIN rows /\ j \in DOMAIN rows
    BY <1>4, <2>1, <2>3 DEF IInv, AtMostOneOpenPerTask
  <2>4. CASE i \notin DOMAIN rows
    BY <1>4, <1>5, <2>1, <2>2, <2>4
  <2>5. CASE j \notin DOMAIN rows
    BY <1>4, <1>5, <2>1, <2>2, <2>5
  <2>6. QED
    BY <2>3, <2>4, <2>5
<1>14. \A i \in DOMAIN rows' : ~rows'[i].open => i \in DOMAIN rows /\ ~rows[i].open
  BY <1>4, <1>5
<1>15. QED
  BY <1>2, <1>4, <1>12, <1>13, <1>14, TableGrows

LEMMA AssignInv ==
  ASSUME IInv, NEW c \in StartedHandlers, Assign(c)
  PROVE  IInv'
<1> DEFINE h == calls[c]
           u == h.unit
<1>1. /\ c \in Calls /\ c \in Handlers /\ h.pc = "assign" /\ Arrives(c)
      /\ sent' = sent /\ faults' = faults /\ manual' = manual
      /\ overlapped' = overlapped /\ dropped' = dropped /\ doubled' = doubled
  BY DEF Assign, Calls, Handlers, history, Arrives
<1>2. /\ h \in Call /\ CallInv(c, h, rows, manual, dropped, doubled) /\ faults \in Nat
      /\ overlapped \in BOOLEAN /\ status \in [Units -> Status]
      /\ manual \subseteq {"assign", "release", "patch"}
  BY <1>1, CallOf
<1>3. /\ h.job \in Job /\ h.turnaround = c.turnaround /\ h.results \in SUBSET Result
      /\ u \in Units
  BY <1>1, <1>2, Sorts DEF CallInv, Equipped, Call
<1>4. CASE /\ Insert(u, h.turnaround, h.job)
           /\ calls' = [calls EXCEPT ![c] =
                Advance([h EXCEPT !.held = u],
                        h.results \cup {[job |-> h.job, unit |-> u]})]
  <2> DEFINE g == [h EXCEPT !.held = u]
             results == h.results \cup {[job |-> h.job, unit |-> u]}
             H == Advance(g, results)
  <2>1. g \in Call /\ g.job = h.job /\ g.turnaround = h.turnaround
    BY <1>2, <1>3 DEF Call
  <2>2. results \in SUBSET Result
    BY <1>3 DEF Result
  <2>3. calls' = [calls EXCEPT ![c] = H]
    BY <1>4
  <2>4. results \subseteq h.results \cup {[job |-> h.job, unit |-> u]}
    OBVIOUS
  <2> HIDE DEF g, results
  <2>5. /\ H \in Call /\ H.turnaround = h.turnaround /\ H.results = results
        /\ H.pc \in {"check", "publish", "ack"} /\ (H.pc = "check" => H.job \in Job)
    BY <1>3, <2>1, <2>2, AdvanceCall
  <2> HIDE DEF H
  <2>6. QED
    BY <1>1, <1>2, <1>4, <2>3, <2>4, <2>5, InsertInv
<1>5. CASE /\ calls' = [calls EXCEPT ![c] = Advance(h, h.results)]
           /\ rows' = rows /\ status' = status
  <2> DEFINE H == Advance(h, h.results)
  <2>1. /\ H \in Call /\ H.turnaround = h.turnaround /\ H.results = h.results
        /\ H.pc \in {"check", "publish", "ack"} /\ (H.pc = "check" => H.job \in Job)
    BY <1>2, <1>3, AdvanceCall
  <2>2. calls' = [calls EXCEPT ![c] = H]
    BY <1>5
  <2> HIDE DEF H
  <2>3. Backed(H, rows)
    BY <1>2, <2>1 DEF CallInv, Backed
  <2>4. CallInv(c, H, rows, manual, dropped, doubled)
    BY <1>3, <2>1, <2>3, StartedCall DEF Unbooked
  <2>5. QED
    BY <1>1, <1>2, <1>5, <2>1, <2>2, <2>4, WorkStep DEF ReleasePcs
<1>6. QED
  BY <1>4, <1>5 DEF Assign

LEMMA AssignRefreshFailsInv ==
  ASSUME IInv, NEW c \in StartedHandlers, AssignRefreshFails(c)
  PROVE  IInv'
<1> DEFINE h == calls[c]
           H == [h EXCEPT !.pc = "ack", !.results = {}]
<1>1. /\ c \in Calls /\ c \notin Clients /\ h.pc = "assign"
      /\ Insert(h.unit, h.turnaround, h.job) /\ Abort(c)
      /\ sent' = sent /\ faults' = faults + 1 /\ manual' = manual
      /\ overlapped' = overlapped /\ dropped' = dropped /\ doubled' = doubled
  BY Sorts DEF AssignRefreshFails
<1>2. h \in Call /\ faults' \in Nat
  BY <1>1, CallOf
<1>3. calls' = [calls EXCEPT ![c] = H]
  BY <1>1 DEF Abort, Over
<1>4. H \in Call /\ H.pc = "ack" /\ H.turnaround = h.turnaround /\ H.results = {}
  BY <1>2 DEF Call, Pc, Result
<1> HIDE DEF H
<1>5. QED
  BY <1>1, <1>2, <1>3, <1>4, InsertInv

LEMMA PublishResultsInv ==
  ASSUME IInv, NEW c \in StartedHandlers, PublishResults(c)
  PROVE  IInv'
<1> DEFINE h == calls[c]
           H == [h EXCEPT !.pc = "ack", !.results = {}]
           E(r) == [turnaround |-> h.turnaround, job |-> r.job, unit |-> r.unit]
<1>1. /\ c \in Calls /\ h.pc = "publish" /\ rows' = rows /\ status' = status /\ manual' = manual
      /\ faults' = faults /\ overlapped' = overlapped
      /\ dropped' = dropped /\ doubled' = doubled
      /\ calls' = [calls EXCEPT ![c].pc = "ack", ![c].results = {}]
      /\ sent' = sent \cup {E(r) : r \in h.results}
  BY DEF PublishResults, Calls, Handlers, history
<1>2. /\ h \in Call /\ CallInv(c, h, rows, manual, dropped, doubled) /\ calls \in [Calls -> Call]
  BY <1>1, CallOf
<1>3. h.turnaround = c.turnaround /\ c.turnaround \in Turnarounds
  BY <1>2, Sorts DEF CallInv, Equipped
<1>4. /\ H \in Call /\ H.pc = "ack" /\ H.results = {} /\ H.turnaround = h.turnaround
  BY <1>2 DEF Call, Pc, Result
<1>5. calls' = [calls EXCEPT ![c] = H]
  BY <1>1, <1>2
<1> HIDE DEF H
<1>6. CallInv(c, H, rows, manual, dropped, doubled)
  BY <1>3, <1>4, StartedCall DEF Backed, Unbooked
<1>7. Grown(rows, rows')
  BY <1>1 DEF Grown
<1>8. /\ calls' \in [Calls -> Call] /\ LocalInv'
      /\ \A m \in Messages : calls[m].pc # "absent" => calls'[m].pc # "absent"
  <2>1. Arrives(c) /\ H.pc # "absent" /\ H.pc \notin ReleasePcs
    BY <1>1, <1>4 DEF Arrives, ReleasePcs
  <2>2. TypeOK /\ LocalInv
    BY DEF IInv
  <2>3. Joins(c, H, doubled')
    BY <1>1, <2>1, <2>2, StaysAlone
  <2>4. QED
    BY <1>1, <1>4, <1>5, <1>6, <1>7, <2>1, <2>2, <2>3, CallMoves
<1>9. sent' \subseteq EquipmentEvent
  <2>1. \A r \in h.results : E(r) \in EquipmentEvent
    BY <1>2, <1>3 DEF Call, Result, EquipmentEvent
  <2>2. QED
    BY <1>1, <2>1 DEF IInv, TypeOK
<1>10. TypeOK'
  BY <1>1, <1>8, <1>9 DEF IInv, TypeOK
<1>11. AssignedEventsAreTrue'
  <2>1. SUFFICES ASSUME NEW e \in sent', e.unit # None
                 PROVE  \E i \in DOMAIN rows : /\ rows[i].turnaround = e.turnaround
                                               /\ rows[i].job = e.job
                                               /\ rows[i].unit = e.unit
    BY <1>1 DEF AssignedEventsAreTrue
  <2>2. CASE e \in sent
    BY <2>1, <2>2 DEF IInv, AssignedEventsAreTrue
  <2>3. CASE e \notin sent
    <3>1. PICK r \in h.results : e = E(r)
      BY <1>1, <2>1, <2>3
    <3>2. e.turnaround = h.turnaround /\ e.job = r.job /\ e.unit = r.unit
      BY <3>1
    <3>3. QED
      BY <1>2, <2>1, <3>2 DEF CallInv, Backed
  <2>4. QED
    BY <2>2, <2>3
<1>12. AtMostOneOpenPerTask'
  BY <1>1 DEF IInv, AtMostOneOpenPerTask
<1>13. OnlyOwnAssignmentReleased'
  <2>1. rows' \in Seq(Row)
    BY <1>10 DEF TypeOK
  <2>2. QED
    BY <1>1, <1>8, <2>1, StillOwn DEF OfTask
<1>14. QED
  BY <1>8, <1>10, <1>11, <1>12, <1>13 DEF IInv

LEMMA LookupInv ==
  ASSUME IInv, NEW c \in CompletedHandlers, Lookup(c)
  PROVE  IInv'
<1> DEFINE h == calls[c]
           open == OpenOf(h.turnaround, h.job)
<1>1. /\ c \in Calls /\ c \in Handlers /\ h.pc = "lookup" /\ Arrives(c)
      /\ rows' = rows /\ sent' = sent /\ status' = status
      /\ faults' = faults /\ manual' = manual /\ overlapped' = overlapped
      /\ dropped' = dropped
  BY DEF Lookup, Calls, Handlers, Arrives
<1>2. /\ h \in Call /\ CallInv(c, h, rows, manual, dropped, doubled) /\ faults \in Nat
      /\ overlapped \in BOOLEAN /\ status \in [Units -> Status]
      /\ manual \subseteq {"assign", "release", "patch"}
      /\ calls \in [Calls -> Call] /\ doubled \subseteq Units
  BY <1>1, CallOf
<1>3. h.turnaround = c.turnaround /\ h.job = c.job
  BY <1>2 DEF CallInv, Equipped
<1>4. CASE Goto(c, "ack") /\ UNCHANGED doubled
  BY <1>1, <1>2, <1>4, GotoInv DEF Pc
<1>5. CASE \E i \in open : open = {i} /\ StartRelease(c, rows[i].unit)
  <2>1. PICK i \in open : StartRelease(c, rows[i].unit)
    BY <1>5
  <2> DEFINE u == rows[i].unit
             H == [h EXCEPT !.pc = "load", !.unit = u]
  <2>2. /\ i \in DOMAIN rows /\ rows[i].open /\ OfTask(rows[i], c.turnaround, c.job)
        /\ u \in Units
    <3>1. /\ i \in DOMAIN rows /\ rows[i].open /\ OfTask(rows[i], c.turnaround, c.job)
      BY <1>3 DEF OpenOf, OfTask
    <3>2. rows[i] \in Row
      BY <3>1, ElementOfSeq DEF IInv, TypeOK
    <3>3. QED
      BY <3>1, <3>2 DEF Row
  <2>3. /\ H \in Call /\ H.pc = "load" /\ H.turnaround = h.turnaround
        /\ H.job = h.job /\ H.results = h.results /\ H.unit = u
    BY <1>2, <2>2 DEF Call, Pc
  <2>4. calls' = [calls EXCEPT ![c] = H]
    BY <1>1, <1>2, <2>1 DEF StartRelease
  <2>5. doubled \subseteq doubled' /\ doubled' \subseteq Units
    BY <1>2, <2>1, <2>2 DEF StartRelease
  <2> HIDE DEF H
  <2>6. Joins(c, H, doubled')
    <3>1. SUFFICES ASSUME NEW d \in CompletedHandlers \ {c}, Twins(calls[d], H)
                   PROVE  u \in doubled'
      BY <2>3 DEF Joins
    <3>2. Releasing(d, h.turnaround, h.job, u)
      BY <2>3, <3>1 DEF Releasing, Twins, ReleasePcs
    <3>3. d \in Calls \ {c}
      BY <3>1, Sorts
    <3>4. QED
      BY <2>1, <3>2, <3>3 DEF StartRelease
  <2>7. Backed(H, rows)
    BY <1>2, <2>3 DEF CallInv, Backed
  <2>8. Owning(c, H, rows, manual, doubled')
    BY <2>2, <2>3 DEF Owning
  <2>9. CallInv(c, H, rows, manual, dropped, doubled')
    BY <1>3, <2>2, <2>3, <2>7, <2>8, CompletedCall
  <2>10. QED
    BY <1>1, <1>2, <2>3, <2>4, <2>5, <2>6, <2>9, QuietStep
<1>6. CASE Abort(c) /\ UNCHANGED doubled
  BY <1>1, <1>2, <1>6, AbortInv
<1>7. QED
  BY <1>4, <1>5, <1>6 DEF Lookup

\* A release, of a handler or of a request, goes from one place to the next with the
\* same unit.
LEMMA ReleaseGoesOn ==
  ASSUME IInv, NEW c \in CompletedHandlers \cup Clients, NEW H \in Call,
         calls[c].pc \in {"load", "select"}, H.pc \in {"select", "release"},
         H.turnaround = calls[c].turnaround, H.job = calls[c].job,
         H.results = calls[c].results, H.unit = calls[c].unit,
         H.pc = "release" => OpenOn(H.unit) = {H.row},
         calls' = [calls EXCEPT ![c] = H],
         UNCHANGED <<status, rows, sent, history>>
  PROVE  IInv'
<1>1. c \in Calls /\ Arrives(c)
  BY DEF Calls, Handlers, Arrives
<1>2. /\ calls[c] \in Call /\ CallInv(c, calls[c], rows, manual, dropped, doubled)
      /\ faults \in Nat /\ doubled \subseteq Units
      /\ overlapped \in BOOLEAN /\ status \in [Units -> Status]
      /\ manual \subseteq {"assign", "release", "patch"}
  BY <1>1, CallOf
<1>3. Backed(H, rows)
  BY <1>2 DEF CallInv, Backed
<1>4. H.unit \in Units
  BY <1>2 DEF CallInv, Equipped
<1>5. /\ rows' = rows /\ sent' = sent /\ status' = status /\ faults' = faults
      /\ manual' = manual /\ overlapped' = overlapped
      /\ dropped' = dropped /\ doubled' = doubled
  BY DEF history
<1>6. Joins(c, H, doubled)
  <2>1. LocalInv /\ calls[c].pc \in ReleasePcs
    BY DEF IInv, ReleasePcs
  <2>2. QED
    BY <1>1, <2>1, StaysAlone
<1>7. H.pc = "release" => H.row \in DOMAIN rows /\ rows[H.row].unit = H.unit
                          /\ rows[H.row].open
  BY DEF OpenOn
<1>8. CallInv(c, H, rows, manual, dropped, doubled)
  <2>1. CASE c \in CompletedHandlers
    <3>1. H.turnaround = c.turnaround /\ H.job = c.job
      BY <1>2, <2>1 DEF CallInv, Equipped
    <3>2. Owning(c, H, rows, manual, doubled)
      <4>1. SUFFICES ASSUME manual = {}, H.unit \notin doubled
                     PROVE  /\ \E i \in DOMAIN rows :
                                 /\ rows[i].open
                                 /\ OfTask(rows[i], c.turnaround, c.job)
                                 /\ rows[i].unit = H.unit
                            /\ H.pc = "release" =>
                                 /\ rows[H.row].open
                                 /\ OfTask(rows[H.row], c.turnaround, c.job)
        BY DEF Owning
      <4>2. PICK i \in DOMAIN rows : /\ rows[i].open
                                     /\ OfTask(rows[i], c.turnaround, c.job)
                                     /\ rows[i].unit = H.unit
        BY <1>2, <2>1, <4>1 DEF CallInv, Owning, ReleasePcs
      <4>3. H.pc = "release" => i = H.row
        BY <4>2 DEF OpenOn
      <4>4. QED
        BY <4>2, <4>3
    <3>3. QED
      BY <1>3, <1>4, <1>7, <2>1, <3>1, <3>2, CompletedCall
  <2>2. CASE c \in Clients
    BY <1>3, <1>4, <1>7, <2>2, ClientCall
  <2>3. QED
    BY <2>1, <2>2
<1>9. QED
  BY <1>1, <1>2, <1>5, <1>6, <1>8, QuietStep

LEMMA LoadInv ==
  ASSUME IInv, NEW c \in CompletedHandlers \cup Clients, Load(c)
  PROVE  IInv'
<1> DEFINE h == calls[c]
           H == [h EXCEPT !.pc = "select", !.loaded = status[h.unit]]
<1>1. c \in Calls /\ h.pc = "load"
  BY DEF Calls, Handlers, Load
<1>2. /\ h \in Call /\ CallInv(c, h, rows, manual, dropped, doubled) /\ calls \in [Calls -> Call]
      /\ status \in [Units -> Status]
  BY <1>1, CallOf
<1>3. status[h.unit] \in Status
  BY <1>1, <1>2 DEF CallInv, Equipped
<1>4. /\ H \in Call /\ H.pc = "select" /\ H.turnaround = h.turnaround
      /\ H.job = h.job /\ H.results = h.results /\ H.unit = h.unit
  BY <1>2, <1>3 DEF Call, Pc
<1>5. calls' = [calls EXCEPT ![c] = H]
  BY <1>1, <1>2 DEF Load
<1> HIDE DEF H
<1>6. QED
  BY <1>1, <1>4, <1>5, ReleaseGoesOn DEF Load

LEMMA SelectInv ==
  ASSUME IInv, NEW c \in CompletedHandlers \cup Clients, Select(c)
  PROVE  IInv'
<1> DEFINE h == calls[c]
           open == OpenOn(h.unit)
<1>1. /\ c \in Calls /\ h.pc = "select"
      /\ rows' = rows /\ sent' = sent /\ status' = status
      /\ faults' = faults /\ manual' = manual /\ overlapped' = overlapped
      /\ dropped' = dropped /\ doubled' = doubled /\ Arrives(c)
  BY DEF Select, Calls, Handlers, history, Arrives
<1>2. /\ h \in Call /\ CallInv(c, h, rows, manual, dropped, doubled) /\ faults \in Nat
      /\ overlapped \in BOOLEAN /\ status \in [Units -> Status]
      /\ manual \subseteq {"assign", "release", "patch"}
      /\ calls \in [Calls -> Call]
  BY <1>1, CallOf
<1>3. CASE Goto(c, Over(c))
  <2>1. \/ c \in Handlers /\ Over(c) = "ack"
        \/ c \in Clients /\ Over(c) = "done"
    BY Sorts DEF Over
  <2>2. Over(c) \in Pc
    BY <2>1 DEF Pc
  <2>3. QED
    BY <1>1, <1>2, <1>3, <2>1, <2>2, GotoInv
<1>4. CASE \E i \in open : open = {i}
                           /\ calls' = [calls EXCEPT ![c].pc = "release", ![c].row = i]
  <2>1. PICK i \in open : open = {i}
                          /\ calls' = [calls EXCEPT ![c].pc = "release", ![c].row = i]
    BY <1>4
  <2>2. i \in DOMAIN rows /\ i \in Nat
    BY DEF OpenOn, IInv, TypeOK
  <2> DEFINE H == [h EXCEPT !.pc = "release", !.row = i]
  <2>3. /\ H \in Call /\ H.pc = "release" /\ H.turnaround = h.turnaround
        /\ H.job = h.job /\ H.results = h.results /\ H.unit = h.unit /\ H.row = i
    BY <1>2, <2>2 DEF Call, Pc
  <2>4. calls' = [calls EXCEPT ![c] = H]
    BY <1>1, <1>2, <2>1
  <2> HIDE DEF H
  <2>5. QED
    BY <1>1, <2>1, <2>2, <2>3, <2>4, ReleaseGoesOn DEF Select
<1>5. CASE Abort(c)
  BY <1>1, <1>2, <1>5, AbortInv DEF Resting
<1>6. QED
  BY <1>3, <1>4, <1>5 DEF Select

LEMMA ReleaseInv ==
  ASSUME IInv, NEW c \in CompletedHandlers \cup Clients, Release(c)
  PROVE  IInv'
<1> DEFINE h == calls[c]
           H == [h EXCEPT !.pc = Over(c)]
<1>1. /\ c \in Calls /\ h.pc = "release" /\ Arrives(c)
      /\ rows' = [rows EXCEPT ![h.row].open = FALSE]
      /\ sent' = sent /\ faults' = faults /\ overlapped' = overlapped
      /\ dropped' = dropped /\ doubled' = doubled
      /\ manual' = (IF c \in Clients THEN manual \cup {"release"} ELSE manual)
  BY DEF Release, Calls, Handlers, Arrives
<1>2. /\ h \in Call /\ CallInv(c, h, rows, manual, dropped, doubled) /\ faults \in Nat
      /\ status \in [Units -> Status]
      /\ manual \subseteq {"assign", "release", "patch"}
      /\ calls \in [Calls -> Call] /\ rows \in Seq(Row)
  BY <1>1, CallOf DEF IInv, TypeOK
<1>3. h.row \in DOMAIN rows /\ rows[h.row].unit = h.unit
  BY <1>1, <1>2 DEF CallInv, Equipped
<1>4. /\ c \in CompletedHandlers => Over(c) = "ack" /\ c \notin Clients
      /\ c \in Clients => Over(c) = "done" /\ c \notin CompletedHandlers
      /\ Over(c) \notin ReleasePcs
  BY Sorts DEF Over, ReleasePcs
<1>5. /\ H \in Call /\ H.pc = Over(c) /\ H.turnaround = h.turnaround
      /\ H.job = h.job /\ H.results = h.results
  BY <1>2, <1>4 DEF Call, Pc
<1>6. calls' = [calls EXCEPT ![c] = H]
  BY DEF Release, Goto
<1> HIDE DEF H
<1>7. /\ DOMAIN rows' = DOMAIN rows
      /\ \A i \in DOMAIN rows : i # h.row => rows'[i] = rows[i]
      /\ rows'[h.row] = [rows[h.row] EXCEPT !.open = FALSE]
      /\ rows[h.row] \in Row
  BY <1>1, <1>2, <1>3, ElementOfSeq
<1>8. /\ rows'[h.row].unit = rows[h.row].unit /\ rows'[h.row].job = rows[h.row].job
      /\ rows'[h.row].turnaround = rows[h.row].turnaround /\ ~rows'[h.row].open
      /\ rows'[h.row] \in Row
  BY <1>7 DEF Row
<1>9. rows' \in Seq(Row)
  BY <1>1, <1>2, <1>3, <1>8, ExceptSeq, <1>7
<1>10. Grown(rows, rows')
  BY <1>7, <1>8 DEF Grown
<1>11. status' \in [Units -> Status]
  BY <1>2 DEF Release, Status
<1>12. Backed(H, rows')
  <2>1. Backed(h, rows)
    BY <1>2 DEF CallInv
  <2>2. QED
    BY <1>5, <1>10, <2>1 DEF Backed, Grown
<1>13. CallInv(c, H, rows', manual', dropped, doubled')
  <2>1. CASE c \in CompletedHandlers
    <3>1. H.turnaround = c.turnaround /\ H.job = c.job
      BY <1>2, <1>5, <2>1 DEF CallInv, Equipped
    <3>2. QED
      BY <1>4, <1>5, <1>12, <2>1, <3>1, CompletedCall DEF Owning, ReleasePcs
  <2>2. CASE c \in Clients
    BY <1>4, <1>5, <1>12, <2>2, ClientCall
  <2>3. QED
    BY <2>1, <2>2
<1>14. manual' = {} /\ h.unit \notin doubled =>
         manual = {} /\ c \in CompletedHandlers /\ OfTask(rows[h.row], c.turnaround, c.job)
  <2>1. SUFFICES ASSUME manual' = {}, h.unit \notin doubled
                 PROVE  /\ manual = {} /\ c \in CompletedHandlers
                        /\ OfTask(rows[h.row], c.turnaround, c.job)
    OBVIOUS
  <2>2. c \notin Clients /\ manual = {}
    BY <1>1, <2>1
  <2>3. QED
    BY <1>1, <1>2, <2>1, <2>2 DEF CallInv, Owning, ReleasePcs
<1>15. ASSUME NEW d \in CompletedHandlers \ {c}, manual' = {}, calls[d].pc \in ReleasePcs,
              calls[d].unit \notin doubled',
              NEW i \in DOMAIN rows, rows[i].open, OfTask(rows[i], d.turnaround, d.job),
              rows[i].unit = calls[d].unit
       PROVE  rows'[i].open
  <2>1. SUFFICES ASSUME i = h.row PROVE FALSE
    BY <1>7, <1>15
  <2>2. calls[d].unit = h.unit /\ h.unit \notin doubled
    BY <1>1, <1>3, <1>15, <2>1
  <2>3. c \in CompletedHandlers /\ OfTask(rows[h.row], c.turnaround, c.job)
    BY <1>14, <1>15, <2>2
  <2>4. d.turnaround = c.turnaround /\ d.job = c.job
    BY <1>15, <2>1, <2>3 DEF OfTask
  <2>5. /\ h.turnaround = c.turnaround /\ h.job = c.job
        /\ calls[d].turnaround = d.turnaround /\ calls[d].job = d.job
    <3>1. d \in Calls
      BY <1>15, Sorts
    <3>2. CallInv(d, calls[d], rows, manual, dropped, doubled)
      BY <3>1, CallOf
    <3>3. QED
      BY <1>2, <1>15, <2>3, <3>2 DEF CallInv, Equipped
  <2>6. Twins(calls[d], h)
    BY <1>1, <1>15, <2>2, <2>4, <2>5 DEF Twins, ReleasePcs
  <2>7. QED
    BY <1>15, <2>2, <2>3, <2>6 DEF IInv, LocalInv, Alone
<1>16. /\ calls' \in [Calls -> Call] /\ LocalInv'
       /\ \A m \in Messages : calls[m].pc # "absent" => calls'[m].pc # "absent"
  <2>1. manual \subseteq manual' /\ TypeOK /\ LocalInv
    BY <1>1 DEF IInv
  <2>2. Joins(c, H, doubled')
    BY <1>1, <1>4, <1>5, <2>1, StaysAlone
  <2>3. H.pc # "absent"
    BY <1>4, <1>5
  <2>4. QED
    BY <1>1, <1>5, <1>6, <1>7, <1>10, <1>13, <1>15, <2>1, <2>2, <2>3, CallMoves
<1>17. AtMostOneOpenPerTask'
  BY <1>1, <1>7, <1>10 DEF IInv, AtMostOneOpenPerTask, Grown
<1>18. ASSUME manual' = {}, NEW i \in DOMAIN rows', ~rows'[i].open,
              rows'[i].unit \notin doubled
       PROVE  \/ i \in DOMAIN rows /\ ~rows[i].open
              \/ calls[Completed(rows'[i].turnaround, rows'[i].job, 1)].pc # "absent"
  <2>1. CASE i = h.row
    <3>1. /\ c \in CompletedHandlers
          /\ Completed(rows'[i].turnaround, rows'[i].job, 1)
             = Completed(c.turnaround, c.job, 1)
      BY <1>3, <1>8, <1>14, <1>18, <2>1 DEF OfTask
    <3>2. FirstSent(c)
      BY <1>1, <3>1 DEF IInv, LocalInv, InOrder
    <3>3. QED
      BY <3>1, <3>2 DEF FirstSent
  <2>2. CASE i # h.row
    BY <1>7, <1>18, <2>2
  <2>3. QED
    BY <2>1, <2>2
<1>19. manual \subseteq manual' /\ manual' \subseteq {"assign", "release", "patch"}
  BY <1>1, <1>2
<1>20. QED
  BY <1>1, <1>2, <1>9, <1>10, <1>11, <1>16, <1>17, <1>18, <1>19, TableGrows

\* A request is no handler: it waits for no message and releases for no task.
LEMMA RequestsMove ==
  ASSUME IInv, NEW c \in Clients, NEW H, NEW dbl
  PROVE  c \in Calls /\ c \notin Messages /\ Arrives(c) /\ Joins(c, H, dbl)
<1>1. c \in Calls /\ c \notin Handlers /\ c \notin Messages /\ c \notin CompletedHandlers
  BY Sorts
<1>2. calls[c].pc # "absent"
  BY <1>1, CallOf DEF CallInv, Equipped
<1>3. QED
  BY <1>1, <1>2 DEF Arrives, Joins

\* A request begins with H.
LEMMA RequestBegins ==
  ASSUME IInv, NEW c \in Clients, NEW H \in Call, Begin(c, H),
         UNCHANGED <<status, rows, sent, faults, manual, dropped, doubled>>,
         H.pc \in {"load", "insert", "patch", "done"}, H.unit \in Units,
         H.pc = "insert" => H.job \in Job /\ H.turnaround \in Turnarounds,
         H.results = {}
  PROVE  IInv'
<1>1. c \in Calls
  BY DEF Calls
<1>2. /\ faults \in Nat /\ overlapped \in BOOLEAN /\ status \in [Units -> Status]
      /\ manual \subseteq {"assign", "release", "patch"} /\ doubled \subseteq Units
  BY <1>1, CallOf
<1>3. calls' = [calls EXCEPT ![c] = H] /\ overlapped' \in BOOLEAN
  BY <1>2 DEF Begin
<1>4. CallInv(c, H, rows, manual, dropped, doubled)
  BY ClientCall DEF Backed
<1>5. QED
  BY <1>1, <1>2, <1>3, <1>4, QuietStep, RequestsMove

LEMMA RequestReleaseInv ==
  ASSUME IInv, NEW c \in Clients, NEW u \in Units, RequestRelease(c, u)
  PROVE  IInv'
<1> DEFINE F == Fresh("load", None, 0)
           H == [F EXCEPT !.unit = u]
<1>1. 0 \in 0 .. Jobs
  BY Sorts
<1>2. F \in Call /\ F.pc = "load" /\ F.results = {}
  BY <1>1, FreshType DEF Pc
<1> HIDE DEF F
<1>3. H \in Call /\ H.pc = "load" /\ H.results = {} /\ H.unit = u
  BY <1>2 DEF Call
<1>4. Begin(c, H) /\ UNCHANGED <<status, rows, sent, faults, manual, dropped, doubled>>
  BY DEF RequestRelease, F
<1> HIDE DEF H
<1>5. QED
  BY <1>3, <1>4, RequestBegins

LEMMA RequestPatchInv ==
  ASSUME IInv, NEW c \in Clients, NEW u \in Units, RequestPatch(c, u)
  PROVE  IInv'
<1> DEFINE F == Fresh("patch", None, 0)
           H == [F EXCEPT !.unit = u, !.loaded = status[u]]
<1>1. 0 \in 0 .. Jobs /\ status[u] \in Status
  BY Sorts DEF IInv, TypeOK
<1>2. F \in Call /\ F.pc = "patch" /\ F.results = {}
  BY <1>1, FreshType DEF Pc
<1> HIDE DEF F
<1>3. H \in Call /\ H.pc = "patch" /\ H.results = {} /\ H.unit = u
  BY <1>1, <1>2 DEF Call
<1>4. Begin(c, H) /\ UNCHANGED <<status, rows, sent, faults, manual, dropped, doubled>>
  BY DEF RequestPatch, F
<1> HIDE DEF H
<1>5. QED
  BY <1>3, <1>4, RequestBegins

LEMMA RequestAssignInv ==
  ASSUME IInv, NEW c \in Clients, NEW u \in Units, NEW t \in Turnarounds, NEW k \in Job,
         RequestAssign(c, u, t, k)
  PROVE  IInv'
<1> DEFINE F == Fresh("insert", t, k)
           H == [F EXCEPT !.unit = u,
                          !.pc = IF status[u] = "available" THEN @ ELSE "done"]
<1>1. k \in 0 .. Jobs
  BY Sorts
<1>2. F \in Call /\ F.pc = "insert" /\ F.results = {} /\ F.turnaround = t /\ F.job = k
  BY <1>1, FreshType DEF Pc
<1> HIDE DEF F
<1>3. /\ H \in Call /\ H.pc \in {"insert", "done"} /\ H.results = {} /\ H.unit = u
      /\ H.turnaround = t /\ H.job = k
  BY <1>2 DEF Call, Pc
<1>4. Begin(c, H) /\ UNCHANGED <<status, rows, sent, faults, manual, dropped, doubled>>
  BY DEF RequestAssign, F
<1> HIDE DEF H
<1>5. QED
  BY <1>3, <1>4, RequestBegins

LEMMA CommitAssignInv ==
  ASSUME IInv, NEW c \in Clients, CommitAssign(c)
  PROVE  IInv'
<1> DEFINE h == calls[c]
           H == [h EXCEPT !.pc = "done"]
<1>1. /\ c \in Calls /\ h.pc = "insert" /\ Insert(h.unit, h.turnaround, h.job)
      /\ sent' = sent /\ faults' = faults /\ overlapped' = overlapped
      /\ dropped' = dropped /\ doubled' = doubled
      /\ manual' = manual \cup {"assign"} /\ calls' = [calls EXCEPT ![c] = H]
  BY DEF CommitAssign, Calls, Goto
<1>2. /\ h \in Call /\ CallInv(c, h, rows, manual, dropped, doubled) /\ calls \in [Calls -> Call]
      /\ manual \subseteq {"assign", "release", "patch"} /\ faults \in Nat
  BY <1>1, CallOf
<1>3. h.unit \in Units /\ h.turnaround \in Turnarounds /\ h.job \in Job
  BY <1>1, <1>2 DEF CallInv, Equipped
<1>4. H \in Call /\ H.pc = "done" /\ H.turnaround = h.turnaround /\ H.results = h.results
  BY <1>2 DEF Call, Pc
<1> HIDE DEF H
<1>5. /\ rows' \in Seq(Row) /\ status' \in [Units -> Status] /\ Grown(rows, rows')
  BY <1>1, <1>3, Inserted
<1>6. Backed(H, rows')
  <2>1. Backed(h, rows)
    BY <1>2 DEF CallInv
  <2>2. QED
    BY <1>4, <1>5, <2>1 DEF Backed, Grown
<1>7. CallInv(c, H, rows', manual', dropped, doubled')
  BY <1>4, <1>6, ClientCall
<1>8. "assign" \in manual' /\ manual' # {} /\ manual \subseteq manual'
  BY <1>1
<1>9. /\ calls' \in [Calls -> Call] /\ LocalInv'
      /\ \A m \in Messages : calls[m].pc # "absent" => calls'[m].pc # "absent"
  <2>1. TypeOK /\ LocalInv
    BY DEF IInv
  <2>2. c \notin Messages /\ Arrives(c) /\ Joins(c, H, doubled')
    BY RequestsMove
  <2>3. QED
    BY <1>1, <1>4, <1>5, <1>7, <1>8, <2>1, <2>2, CallMoves
<1>10. AtMostOneOpenPerTask'
  BY <1>8 DEF AtMostOneOpenPerTask
<1>11. QED
  BY <1>1, <1>2, <1>5, <1>8, <1>9, <1>10, TableGrows

LEMMA CommitPatchInv ==
  ASSUME IInv, NEW c \in Clients, NEW s \in PatchStatuses, CommitPatch(c, s)
  PROVE  IInv'
<1>1. /\ c \in Calls /\ Goto(c, "done") /\ rows' = rows /\ sent' = sent
      /\ faults' = faults /\ overlapped' = overlapped
      /\ dropped' = dropped /\ doubled' = doubled
      /\ manual' = manual \cup {"patch"}
  BY DEF CommitPatch, Calls
<1>2. /\ status \in [Units -> Status] /\ faults \in Nat
      /\ manual \subseteq {"assign", "release", "patch"}
  BY <1>1, CallOf
<1>3. status' \in [Units -> Status]
  <2>1. s \in Status
    BY EquipmentAssumption DEF Status
  <2>2. QED
    BY <1>2, <2>1 DEF CommitPatch
<1>4. manual \subseteq manual' /\ manual' \subseteq {"assign", "release", "patch"}
  BY <1>1, <1>2
<1>5. "done" \in Pc
  BY DEF Pc
<1>6. QED
  BY <1>1, <1>2, <1>3, <1>4, <1>5, GotoInv, RequestsMove

LEMMA AckInv ==
  ASSUME IInv, NEW c \in Handlers, Ack(c)
  PROVE  IInv'
<1>1. PICK pc \in {"acked", "absent"} :
        /\ calls' = [calls EXCEPT ![c] = Fresh(pc, c.turnaround, c.job)]
        /\ c \in Messages => pc = "acked"
  BY DEF Ack
<1> DEFINE H == Fresh(pc, c.turnaround, c.job)
<1>2. /\ H \in Call /\ H.pc = pc
      /\ CallInv(c, H, rows, manual, dropped, doubled)
  BY FreshHandler
<1> HIDE DEF H
<1>3. /\ c \in Calls /\ Arrives(c) /\ rows' = rows /\ sent' = sent /\ status' = status
      /\ faults' = faults /\ manual' = manual /\ overlapped' = overlapped
      /\ dropped' = dropped /\ doubled' = doubled
  BY Sorts DEF Ack, history, Arrives
<1>4. /\ status \in [Units -> Status] /\ faults \in Nat /\ overlapped \in BOOLEAN
      /\ manual \subseteq {"assign", "release", "patch"}
  BY <1>3, CallOf
<1>5. calls' = [calls EXCEPT ![c] = H]
  BY <1>1 DEF H
<1>6. H.pc \notin ReleasePcs /\ (c \in Messages => H.pc # "absent")
  BY <1>1, <1>2 DEF ReleasePcs
<1>7. QED
  BY <1>2, <1>3, <1>4, <1>5, <1>6, WorkStep

LEMMA CrewHalfFailsInv ==
  ASSUME IInv, NEW c \in Handlers, CrewHalfFails(c)
  PROVE  IInv'
<1>1. c \in Calls /\ calls[c].pc # "absent"
  BY Sorts DEF CrewHalfFails
<1>2. QED
  BY <1>1, CallOf, AbortInv DEF CrewHalfFails

LEMMA SqlErrorInv ==
  ASSUME IInv, NEW c \in Calls, SqlError(c)
  PROVE  IInv'
<1>1. ~Resting(calls[c].pc) /\ calls[c].pc # "absent"
  BY DEF SqlError, Resting
<1>2. QED
  BY <1>1, CallOf, AbortInv DEF SqlError

\* Table and events are untouched, and every call's part of the invariant is kept.
LEMMA AllCallsMove ==
  ASSUME IInv, rows' = rows, sent' = sent, status' = status, manual' = manual,
         overlapped' = overlapped, doubled' = doubled, dropped => dropped',
         dropped' \in BOOLEAN, faults' \in Nat,
         \E f : calls' = [c \in Calls |-> f[c]],
         \A c \in Calls : /\ calls'[c] \in Call
                          /\ CallInv(c, calls'[c], rows, manual, dropped', doubled),
         Alone', NoneLeft', InOrder',
         \A m \in Messages : calls[m].pc # "absent" => calls'[m].pc # "absent"
  PROVE  IInv'
<1>1. calls' \in [Calls -> Call]
  OBVIOUS
<1>2. CallsInv'
  BY DEF CallsInv
<1>3. TypeOK'
  BY <1>1 DEF IInv, TypeOK
<1>4. AtMostOneOpenPerTask' /\ AssignedEventsAreTrue'
  BY DEF IInv, AtMostOneOpenPerTask, AssignedEventsAreTrue
<1>5. OnlyOwnAssignmentReleased'
  <2>1. rows' \in Seq(Row)
    BY <1>3 DEF TypeOK
  <2>2. QED
    BY <2>1, StillOwn DEF OfTask
<1>6. QED
  BY <1>2, <1>3, <1>4, <1>5 DEF IInv, LocalInv

LEMMA RestartInv ==
  ASSUME IInv, Restart
  PROVE  IInv'
<1>1. /\ rows' = rows /\ sent' = sent /\ status' = status /\ manual' = manual
      /\ overlapped' = overlapped /\ faults' = faults + 1
      /\ dropped' = dropped /\ doubled' = doubled
  BY DEF Restart
<1>2. ASSUME NEW c \in Calls
      PROVE  /\ calls'[c] \in Call /\ Resting(calls'[c].pc)
             /\ CallInv(c, calls'[c], rows, manual, dropped, doubled)
             /\ c \in Messages /\ calls[c].pc # "absent" => calls'[c].pc # "absent"
             /\ c \in Handlers \ Messages => calls'[c].pc = "absent"
             /\ calls'[c].pc # "absent" => calls[c].pc # "absent"
  <2>1. calls[c] \in Call /\ CallInv(c, calls[c], rows, manual, dropped, doubled)
    BY CallOf
  <2>2. CASE c \in Handlers \ Messages
    <3>1. calls'[c] = Fresh("absent", c.turnaround, c.job)
      BY <2>2, Sorts DEF Restart
    <3>2. QED
      BY <2>2, <3>1, FreshHandler DEF Resting
  <2>3. CASE c \notin Handlers \ Messages /\ Resting(calls[c].pc)
    <3>1. calls'[c] = calls[c]
      BY <2>3 DEF Restart
    <3>2. QED
      BY <2>1, <2>3, <3>1
  <2>4. CASE ~Resting(calls[c].pc) /\ c \in Clients
    <3> DEFINE F == Fresh("done", None, 0)
    <3>1. calls'[c] = F /\ c \notin Handlers
      BY <2>4, Sorts DEF Restart
    <3>2. 0 \in 0 .. Jobs /\ "done" \in Pc
      BY Sorts DEF Pc
    <3>3. F \in Call /\ F.pc = "done" /\ F.results = {}
      BY <3>2, FreshType
    <3> HIDE DEF F
    <3>4. CallInv(c, F, rows, manual, dropped, doubled)
      BY <2>4, <3>3, ClientCall DEF Backed
    <3>5. QED
      BY <2>4, <3>1, <3>3, <3>4, Sorts DEF Resting
  <2>5. CASE ~Resting(calls[c].pc) /\ c \in Messages
    <3>1. c \in Handlers /\ calls'[c] = Fresh("queued", c.turnaround, c.job)
      BY <2>5, Sorts DEF Restart
    <3>2. /\ calls'[c] \in Call /\ calls'[c].pc = "queued"
          /\ CallInv(c, calls'[c], rows, manual, dropped, doubled)
      BY <3>1, FreshHandler
    <3>3. calls[c].pc # "absent"
      BY <2>5 DEF Resting
    <3>4. QED
      BY <2>5, <3>2, <3>3 DEF Resting
  <2>6. QED
    BY <2>2, <2>3, <2>4, <2>5, Sorts
<1>3. \E f : calls' = [c \in Calls |-> f[c]]
  <2>1. calls' = [c \in Calls |-> calls'[c]]
    BY DEF Restart
  <2>2. QED
    BY <2>1
<1>4. Alone'
  <2>1. \A d \in CompletedHandlers : Resting(calls'[d].pc)
    BY <1>2, Sorts
  <2>2. QED
    BY <2>1 DEF Alone, Twins, Resting, ReleasePcs
<1>5. NoneLeft'
  BY <1>2, Sorts DEF NoneLeft
<1>6. InOrder'
  <2>1. SUFFICES ASSUME NEW d \in CompletedHandlers, calls'[d].pc # "absent"
                 PROVE  calls'[Completed(d.turnaround, d.job, 1)].pc # "absent"
    BY DEF InOrder, FirstSent
  <2> DEFINE m == Completed(d.turnaround, d.job, 1)
  <2>2. calls[d].pc # "absent" /\ m \in Messages /\ m \in Calls
    BY <1>2, <2>1, Sorts DEF Messages
  <2>3. calls[m].pc # "absent"
    BY <2>2 DEF IInv, LocalInv, InOrder, FirstSent
  <2> HIDE DEF m
  <2>4. calls'[m].pc # "absent"
    BY <1>2, <2>2, <2>3
  <2>5. QED
    BY <2>4 DEF m
<1>7. faults' \in Nat /\ dropped \in BOOLEAN
  BY <1>1 DEF IInv, TypeOK
<1>8. \A m \in Messages : calls[m].pc # "absent" => calls'[m].pc # "absent"
  BY <1>2, Sorts
<1>9. QED
  BY <1>1, <1>2, <1>3, <1>4, <1>5, <1>6, <1>7, <1>8, AllCallsMove

\* What the loss of the connection does to the calls: a delivered message waits once
\* more, its handler runs on as the one left behind, and nothing else moves.
LEMMA ConnectionLossMoves ==
  ASSUME IInv, ConnectionLoss
  PROVE  /\ faults' \in 1 .. MaxFaults
         /\ \E f : calls' = [c \in Calls |-> f[c]]
         /\ \E delivered \in SUBSET Messages :
              /\ \A m \in delivered :
                   /\ calls[m].pc # "absent"
                   /\ calls'[m] = Fresh("queued", m.turnaround, m.job)
                   /\ calls'[Left(m, faults')] = calls[m]
              /\ \A c \in Calls : \/ c \in delivered
                                  \/ \E m \in delivered : c = Left(m, faults')
                                  \/ calls'[c] = calls[c]
<1>1. faults' \in 1 .. MaxFaults
  BY EquipmentAssumption DEF ConnectionLoss, FaultAllowed, IInv, TypeOK
<1>2. PICK delivered \in SUBSET {m \in Messages : calls[m].pc \notin {"absent", "acked"}} :
        calls' = [c \in Calls |->
          IF c \in delivered THEN Fresh("queued", c.turnaround, c.job)
          ELSE IF c \in {Left(m, faults') : m \in delivered} THEN calls[[c EXCEPT !.left = 0]]
          ELSE calls[c]]
  BY DEF ConnectionLoss
<1>3. \A m \in delivered : calls'[m] = Fresh("queued", m.turnaround, m.job)
  BY <1>2, Sorts
<1>4. ASSUME NEW m \in delivered
      PROVE  calls'[Left(m, faults')] = calls[m]
  <2>1. /\ Left(m, faults') \in Calls /\ Left(m, faults') \notin delivered
        /\ [Left(m, faults') EXCEPT !.left = 0] = m
    BY <1>1, LeftOnes, Sorts
  <2>2. calls'[Left(m, faults')] = calls[[Left(m, faults') EXCEPT !.left = 0]]
    BY <1>2, <2>1
  <2>3. QED
    BY <2>1, <2>2
<1>5. \A c \in Calls : \/ c \in delivered
                       \/ \E m \in delivered : c = Left(m, faults')
                       \/ calls'[c] = calls[c]
  BY <1>2
<1>6. \E f : calls' = [c \in Calls |-> f[c]]
  <2>1. calls' = [c \in Calls |-> calls'[c]]
    BY <1>2
  <2>2. QED
    BY <2>1
<1>7. delivered \in SUBSET Messages /\ \A m \in delivered : calls[m].pc # "absent"
  OBVIOUS
<1>8. QED
  BY <1>1, <1>3, <1>4, <1>5, <1>6, <1>7

LEMMA ConnectionLossInv ==
  ASSUME IInv, ConnectionLoss
  PROVE  IInv'
<1>1. /\ rows' = rows /\ sent' = sent /\ status' = status /\ manual' = manual
      /\ overlapped' = overlapped /\ dropped' = TRUE /\ doubled' = doubled
  BY DEF ConnectionLoss
<1>2. PICK delivered \in SUBSET Messages :
        /\ \A m \in delivered :
             /\ calls[m].pc # "absent"
             /\ calls'[m] = Fresh("queued", m.turnaround, m.job)
             /\ calls'[Left(m, faults')] = calls[m]
        /\ \A c \in Calls : \/ c \in delivered
                            \/ \E m \in delivered : c = Left(m, faults')
                            \/ calls'[c] = calls[c]
  BY ConnectionLossMoves
<1>3. /\ faults' \in 1 .. MaxFaults /\ \E f : calls' = [c \in Calls |-> f[c]]
      /\ \A m \in delivered : calls'[m].pc = "queued"
  <2>1. ASSUME NEW m \in delivered PROVE calls'[m].pc = "queued"
    <3>1. m \in Handlers
      BY Sorts
    <3>2. Fresh("queued", m.turnaround, m.job).pc = "queued"
      BY <3>1, FreshHandler
    <3>3. QED
      BY <1>2, <3>2
  <2>2. QED
    BY <2>1, ConnectionLossMoves
<1>4. ASSUME NEW c \in Calls
      PROVE  /\ calls'[c] \in Call
             /\ CallInv(c, calls'[c], rows, manual, TRUE, doubled)
  <2>1. CASE c \in delivered
    <3>1. c \in Handlers
      BY <2>1, Sorts
    <3>2. QED
      BY <1>2, <2>1, <3>1, FreshHandler
  <2>2. CASE \E m \in delivered : c = Left(m, faults')
    <3>1. PICK m \in delivered : c = Left(m, faults')
      BY <2>2
    <3>2. /\ c \in Handlers \ Messages /\ m \in Handlers
          /\ m \in StartedHandlers => c \in StartedHandlers
          /\ m \in CompletedHandlers => c \in CompletedHandlers
          /\ c.turnaround = m.turnaround /\ c.job = m.job
      BY <1>3, <3>1, LeftOnes, Sorts
    <3>3. /\ calls[m] \in Call
          /\ CallInv(m, calls[m], rows, manual, dropped, doubled)
      BY <3>2, CallOf, Sorts
    <3>4. Equipped(c, calls[m], rows)
      BY <3>2, <3>3, Sorts DEF CallInv, Equipped
    <3>5. Owning(c, calls[m], rows, manual, doubled)
      BY <3>2, <3>3, Sorts DEF CallInv, Owning
    <3>6. QED
      BY <1>2, <3>1, <3>3, <3>4, <3>5 DEF CallInv, Unbooked
  <2>3. CASE calls'[c] = calls[c]
    BY <2>3, CallOf DEF CallInv, Unbooked
  <2>4. QED
    BY <1>2, <2>1, <2>2, <2>3
<1>5. Alone'
  <2>1. SUFFICES ASSUME NEW d \in CompletedHandlers, NEW e \in CompletedHandlers,
                        d # e, Twins(calls'[d], calls'[e])
                 PROVE  calls'[d].unit \in doubled
    BY <1>1 DEF Alone, Twins
  <2>2. ASSUME NEW c \in CompletedHandlers, calls'[c].pc \in ReleasePcs
        PROVE  /\ c \notin delivered
               /\ \/ calls'[c] = calls[c]
                  \/ \E m \in delivered \cap CompletedHandlers :
                       c = Left(m, faults') /\ calls'[c] = calls[m]
    <3>1. c \notin delivered
      BY <1>3, <2>2 DEF ReleasePcs
    <3>2. CASE \E m \in delivered : c = Left(m, faults')
      <4>1. PICK m \in delivered : c = Left(m, faults')
        BY <3>2
      <4>2. m \in CompletedHandlers
        BY <1>3, <4>1, LeftOnes, Sorts
      <4>3. QED
        BY <1>2, <3>1, <4>1, <4>2
    <3>3. QED
      BY <1>2, <3>1, <3>2, Sorts
  <2>3. PICK x \in CompletedHandlers, y \in CompletedHandlers :
          x # y /\ calls'[d] = calls[x] /\ calls'[e] = calls[y]
    <3>1. calls'[d].pc \in ReleasePcs /\ calls'[e].pc \in ReleasePcs
      BY <2>1 DEF Twins
    <3>2. d \notin delivered /\ e \notin delivered
      BY <2>2, <3>1
    <3>3. QED
      BY <2>1, <2>2, <3>1, <3>2
  <2>4. Twins(calls[x], calls[y])
    BY <2>1, <2>3
  <2>5. QED
    BY <2>3, <2>4 DEF IInv, LocalInv, Alone
<1>6. NoneLeft'
  BY <1>1 DEF NoneLeft
<1>7. \A m \in Messages : calls[m].pc # "absent" => calls'[m].pc # "absent"
  <2>1. SUFFICES ASSUME NEW m \in Messages, calls[m].pc # "absent"
                 PROVE  calls'[m].pc # "absent"
    OBVIOUS
  <2>2. CASE m \in delivered
    BY <1>3, <2>2
  <2>3. CASE m \notin delivered
    <3>1. \A x \in delivered : Left(x, faults') \notin Messages
      BY <1>3, LeftOnes
    <3>2. QED
      BY <1>2, <2>1, <2>3, <3>1, Sorts
  <2>4. QED
    BY <2>2, <2>3
<1>8. InOrder'
  <2>1. SUFFICES ASSUME NEW d \in CompletedHandlers, calls'[d].pc # "absent"
                 PROVE  calls'[Completed(d.turnaround, d.job, 1)].pc # "absent"
    BY DEF InOrder, FirstSent
  <2> DEFINE f == Completed(d.turnaround, d.job, 1)
  <2>2. PICK x \in CompletedHandlers :
          /\ calls[x].pc # "absent" /\ x.turnaround = d.turnaround /\ x.job = d.job
    <3>1. CASE d \in delivered
      BY <1>2, <3>1
    <3>2. CASE \E m \in delivered : d = Left(m, faults')
      <4>1. PICK m \in delivered : d = Left(m, faults')
        BY <3>2
      <4>2. m \in CompletedHandlers /\ m.turnaround = d.turnaround /\ m.job = d.job
        BY <1>3, <4>1, LeftOnes, Sorts
      <4>3. QED
        BY <1>2, <4>1, <4>2
    <3>3. CASE calls'[d] = calls[d]
      BY <2>1, <3>3
    <3>4. QED
      BY <1>2, <3>1, <3>2, <3>3, Sorts
  <2>3. calls[f].pc # "absent"
    BY <2>2 DEF IInv, LocalInv, InOrder, FirstSent
  <2>4. f \in Messages
    BY Sorts DEF Messages
  <2> HIDE DEF f
  <2>5. calls'[f].pc # "absent"
    BY <1>7, <2>3, <2>4
  <2>6. QED
    BY <2>5 DEF f
<1>9. faults' \in Nat
  BY <1>3
<1>10. QED
  BY <1>1, <1>3, <1>4, <1>5, <1>6, <1>7, <1>8, <1>9, AllCallsMove

----------------------------------------------------------------------------

LEMMA NextInv == IInv /\ [Next]_vars => IInv'
<1> SUFFICES ASSUME IInv, [Next]_vars PROVE IInv'
  OBVIOUS
<1>1. CASE \E t \in Turnarounds : PublishStarted(t)
  <2>1. PICK t \in Turnarounds : PublishStarted(t)
    BY <1>1
  <2>2. /\ Started(t) \in Messages /\ Publish(Started(t))
        /\ Started(t) \notin CompletedHandlers
    BY <2>1, Sorts DEF PublishStarted, Messages, StartedMessages
  <2>3. QED
    BY <2>2, PublishInv DEF Arrives
<1>2. CASE \E t \in Turnarounds, k \in Job, n \in Copy : PublishCompleted(t, k, n)
  BY <1>2, PublishCompletedInv
<1>3. CASE \E c \in Handlers : BeginHandler(c) \/ CrewHalfFails(c) \/ Ack(c)
  BY <1>3, BeginHandlerInv, CrewHalfFailsInv, AckInv
<1>4. CASE \E c \in StartedHandlers : HandleStarted(c)
  BY <1>4, CheckInv, FindInv, AssignInv, AssignRefreshFailsInv, PublishResultsInv
     DEF HandleStarted
<1>5. CASE \E c \in CompletedHandlers \cup Clients : HandleRelease(c)
  <2>1. PICK c \in CompletedHandlers \cup Clients : HandleRelease(c)
    BY <1>5
  <2>2. CASE Lookup(c)
    <3>1. c \in CompletedHandlers
      <4>1. c \in Calls /\ calls[c].pc = "lookup"
        BY <2>2 DEF Lookup, Calls, Handlers
      <4>2. QED
        BY <4>1, CallOf DEF CallInv, Equipped
    <3>2. QED
      BY <2>2, <3>1, LookupInv
  <2>3. QED
    BY <2>1, <2>2, LoadInv, SelectInv, ReleaseInv DEF HandleRelease
<1>6. CASE \E c \in Clients : Request(c)
  BY <1>6, RequestReleaseInv, RequestPatchInv, RequestAssignInv, CommitAssignInv,
     CommitPatchInv DEF Request
<1>7. CASE \E c \in Calls : SqlError(c)
  BY <1>7, SqlErrorInv
<1>8. CASE Restart
  BY <1>8, RestartInv
<1>9. CASE ConnectionLoss
  BY <1>9, ConnectionLossInv
<1>10. CASE UNCHANGED vars
  BY <1>10 DEF vars, IInv, TypeOK, LocalInv, CallsInv, Alone, NoneLeft, InOrder, FirstSent,
              AtMostOneOpenPerTask, AssignedEventsAreTrue, OnlyOwnAssignmentReleased
<1>11. QED
  BY <1>1, <1>2, <1>3, <1>4, <1>5, <1>6, <1>7, <1>8, <1>9, <1>10 DEF Next

\* Row k is open and no running release has selected it.
Safe(k) ==
  /\ k \in DOMAIN rows
  /\ rows[k].open
  /\ \A d \in Calls : ~(calls[d].pc = "release" /\ calls[d].row = k)

\* Beside an open row j of the task of c, row k holds the unit of c for good.
Shared(c, k, j) ==
  /\ Safe(k) /\ rows[k].unit = calls[c].unit
  /\ j \in DOMAIN rows /\ j # k
  /\ rows[j].open /\ rows[j].unit = calls[c].unit
  /\ OfTask(rows[j], c.turnaround, c.job)

\* A completion that loaded its unit as available, and will therefore not write the
\* status, finds it in_use only when another row holds it for good.
Guarded ==
  manual = {} =>
    \A c \in CompletedHandlers :
      /\ calls[c].pc \in {"select", "release"}
      /\ calls[c].unit \notin doubled
      /\ calls[c].loaded = "available"
      /\ status[calls[c].unit] = "in_use"
      => \E k, j \in DOMAIN rows : Shared(c, k, j)

LEMMA InitGuarded == Init => Guarded /\ NoUnitLostByHandlers
<1> SUFFICES ASSUME Init PROVE Guarded /\ NoUnitLostByHandlers
  OBVIOUS
<1>1. \A c \in CompletedHandlers : calls[c].pc = "absent"
  <2>1. ASSUME NEW c \in CompletedHandlers PROVE calls[c].pc = "absent"
    <3>1. c \in Calls /\ c \notin Clients
      BY Sorts
    <3>2. calls[c] = Fresh("absent", c.turnaround, c.job)
      BY <3>1 DEF Init
    <3>3. QED
      BY <3>2 DEF Fresh
  <2>2. QED
    BY <2>1
<1>2. \A u \in Units : status[u] = "available"
  BY DEF Init
<1>3. QED
  BY <1>1, <1>2 DEF Guarded, NoUnitLostByHandlers

\* Call d goes on where e was; both release for the same task.
Continues(d, e) ==
  /\ calls'[d] = calls[e]
  /\ d \in CompletedHandlers =>
       e \in CompletedHandlers /\ e.turnaround = d.turnaround /\ e.job = d.job

\* Where units and table stay as they are and no release gets on, nothing is lost.
LEMMA NothingReleased ==
  ASSUME Guarded, NoUnitLostByHandlers, rows' = rows, status' = status,
         manual \subseteq manual', doubled \subseteq doubled',
         \A d \in Calls : \/ calls'[d] = calls[d]
                          \/ \E e \in Calls : Continues(d, e)
                          \/ calls'[d].pc \notin {"select", "release"}
                          \/ /\ calls'[d].pc = "select"
                             /\ calls'[d].loaded = status[calls'[d].unit]
  PROVE  Guarded' /\ NoUnitLostByHandlers'
<1>1. NoUnitLostByHandlers'
  BY DEF NoUnitLostByHandlers, OpenOn
<1>2. \A k \in DOMAIN rows : Safe(k) => Safe(k)'
  BY DEF Safe, Continues
<1>3. Guarded'
  <2>1. SUFFICES ASSUME manual' = {}, NEW c \in CompletedHandlers,
                        calls'[c].pc \in {"select", "release"},
                        calls'[c].unit \notin doubled',
                        calls'[c].loaded = "available",
                        status[calls'[c].unit] = "in_use"
                 PROVE  \E k, j \in DOMAIN rows' : Shared(c, k, j)'
    BY DEF Guarded
  <2>2. PICK e \in CompletedHandlers :
          calls'[c] = calls[e] /\ e.turnaround = c.turnaround /\ e.job = c.job
    <3>1. c \in Calls
      BY Sorts
    <3>2. QED
      BY <2>1, <3>1 DEF Continues
  <2>3. manual = {} /\ calls[e].unit \notin doubled
    BY <2>1, <2>2
  <2>4. PICK k \in DOMAIN rows, j \in DOMAIN rows : Shared(e, k, j)
    BY <2>1, <2>2, <2>3 DEF Guarded
  <2>5. Shared(c, k, j)'
    BY <1>2, <2>2, <2>4 DEF Shared
  <2>6. QED
    BY <2>5
<1>4. QED
  BY <1>1, <1>3

\* A call that moves to a place that is no part of a release.
LEMMA OtherCallMoves ==
  ASSUME IInv, Guarded, NoUnitLostByHandlers, rows' = rows, status' = status,
         manual \subseteq manual', doubled \subseteq doubled', NEW c \in Calls, NEW H,
         calls' = [calls EXCEPT ![c] = H],
         \/ H.pc \notin {"select", "release"}
         \/ H.pc = "select" /\ H.loaded = status[H.unit]
  PROVE  Guarded' /\ NoUnitLostByHandlers'
<1>1. \A d \in Calls : calls'[d] = IF d = c THEN H ELSE calls[d]
  BY DEF IInv, TypeOK
<1>2. QED
  BY <1>1, NothingReleased

\* A handler inserts a row for unit u and goes on outside the release: the row holds
\* the unit for whoever took it for available.
LEMMA InsertGuarded ==
  ASSUME IInv, Guarded, NoUnitLostByHandlers, NEW c \in StartedHandlers, NEW H,
         calls[c].pc = "assign",
         Insert(calls[c].unit, calls[c].turnaround, calls[c].job),
         calls' = [calls EXCEPT ![c] = H], H.pc \notin {"select", "release"},
         manual' = manual, doubled' = doubled
  PROVE  Guarded' /\ NoUnitLostByHandlers'
<1> DEFINE h == calls[c]
           u == h.unit
<1>0. PICK n \in Nat : n = Len(rows) + 1
  BY DEF IInv, TypeOK
<1>1. c \in Calls /\ calls \in [Calls -> Call]
  BY Sorts DEF IInv, TypeOK
<1>2. CallInv(c, h, rows, manual, dropped, doubled)
  BY <1>1, CallOf
<1>3. /\ h.job \in Job /\ h.turnaround = c.turnaround
      /\ u \in Units /\ c.turnaround \in Turnarounds
  BY <1>1, <1>2, Sorts DEF CallInv, Equipped
<1>4. \A d \in Calls : calls'[d] = IF d = c THEN H ELSE calls[d]
  BY <1>1
<1>5. /\ Grown(rows, rows') /\ n \in DOMAIN rows' /\ n \notin DOMAIN rows
      /\ rows'[n] = [unit |-> u, turnaround |-> h.turnaround, job |-> h.job,
                     open |-> TRUE]
      /\ \A i \in DOMAIN rows : rows'[i] = rows[i]
  <2>1. n \notin DOMAIN rows
    BY <1>0 DEF IInv, TypeOK
  <2>2. QED
    BY <1>0, <1>3, <2>1, Inserted
<1>6. rows'[n].unit = u /\ rows'[n].open
  BY <1>5
<1>7. \A v \in Units : status'[v] = IF v = u THEN "in_use" ELSE status[v]
  BY DEF Insert, IInv, TypeOK
<1>8. NoUnitLostByHandlers'
  <2>1. SUFFICES ASSUME manual = {}, NEW v \in Units \ doubled, status'[v] = "in_use"
                 PROVE  \E i \in DOMAIN rows' : rows'[i].open /\ rows'[i].unit = v
    BY DEF NoUnitLostByHandlers, OpenOn
  <2>2. CASE v = u
    BY <1>5, <1>6, <2>2
  <2>3. CASE v # u
    <3>1. \E i \in DOMAIN rows : rows[i].open /\ rows[i].unit = v
      BY <1>7, <2>1, <2>3 DEF NoUnitLostByHandlers, OpenOn
    <3>2. QED
      BY <1>5, <3>1 DEF Grown
  <2>4. QED
    BY <2>2, <2>3
<1>9. \A k \in DOMAIN rows : Safe(k) => Safe(k)'
  BY <1>4, <1>5 DEF Safe, Grown
<1>10. Safe(n)'
  <2>1. \A d \in Calls : calls[d].pc = "release" => calls[d].row \in DOMAIN rows
    BY CallOf DEF CallInv, Equipped
  <2>2. ASSUME NEW d \in Calls, calls'[d].pc = "release" PROVE calls'[d].row # n
    BY <1>4, <1>5, <2>1, <2>2
  <2>3. QED
    BY <1>5, <1>6, <2>2 DEF Safe
<1>11. Guarded'
  <2>1. SUFFICES ASSUME manual = {}, NEW d \in CompletedHandlers,
                        calls'[d].pc \in {"select", "release"},
                        calls'[d].unit \notin doubled,
                        calls'[d].loaded = "available",
                        status'[calls'[d].unit] = "in_use"
                 PROVE  \E k, j \in DOMAIN rows' : Shared(d, k, j)'
    BY DEF Guarded
  <2>2. d \in Calls /\ d # c /\ calls'[d] = calls[d]
    BY <1>4, Sorts
  <2>3. calls[d].unit \in Units
    BY <2>1, <2>2, CallOf DEF CallInv, Equipped
  <2>4. CASE calls[d].unit = u
    <3>1. CallInv(d, calls[d], rows, manual, dropped, doubled)
      BY <2>2, CallOf
    <3>2. PICK i \in DOMAIN rows : /\ rows[i].open /\ OfTask(rows[i], d.turnaround, d.job)
                                   /\ rows[i].unit = calls[d].unit
      BY <2>1, <2>2, <3>1 DEF CallInv, Owning, ReleasePcs
    <3>3. Shared(d, n, i)'
      <4>1. i # n /\ i \in DOMAIN rows' /\ rows'[i] = rows[i]
        BY <1>5, <3>2 DEF Grown
      <4>2. rows'[n].unit = calls'[d].unit /\ rows'[i].unit = calls'[d].unit
        BY <1>6, <2>2, <2>4, <3>2, <4>1
      <4>3. rows'[i].open /\ OfTask(rows'[i], d.turnaround, d.job)
        BY <3>2, <4>1
      <4>4. QED
        BY <1>10, <4>1, <4>2, <4>3 DEF Shared
    <3>4. QED
      BY <1>5, <3>2, <3>3 DEF Grown
  <2>5. CASE calls[d].unit # u
    <3>1. status[calls[d].unit] = "in_use"
      BY <1>7, <2>1, <2>2, <2>3, <2>5
    <3>2. PICK k \in DOMAIN rows, j \in DOMAIN rows : Shared(d, k, j)
      BY <2>1, <2>2, <3>1 DEF Guarded
    <3>3. Shared(d, k, j)'
      BY <1>5, <1>9, <2>2, <3>2 DEF Shared, Grown
    <3>4. QED
      BY <1>5, <3>3 DEF Grown
  <2>6. QED
    BY <2>4, <2>5
<1>12. QED
  BY <1>8, <1>11

LEMMA AssignGuarded ==
  ASSUME IInv, Guarded, NoUnitLostByHandlers, NEW c \in StartedHandlers,
         Assign(c) \/ AssignRefreshFails(c)
  PROVE  Guarded' /\ NoUnitLostByHandlers'
<1> DEFINE h == calls[c]
           u == h.unit
<1>1. /\ c \in Calls /\ c \notin Clients /\ h.pc = "assign" /\ manual' = manual
      /\ doubled' = doubled
  BY Sorts DEF Assign, AssignRefreshFails, history
<1>2. h \in Call /\ CallInv(c, h, rows, manual, dropped, doubled)
  BY <1>1, CallOf
<1>3. h.job \in Job /\ h.results \in SUBSET Result /\ u \in Units
  BY <1>1, <1>2, Sorts DEF CallInv, Equipped, Call
<1>4. ASSUME NEW g \in Call, g.job = h.job, NEW R \in SUBSET Result
      PROVE  Advance(g, R).pc \notin {"select", "release"}
  BY <1>3, <1>4, AdvanceCall
<1>5. CASE /\ Insert(u, h.turnaround, h.job)
           /\ calls' = [calls EXCEPT ![c] =
                Advance([h EXCEPT !.held = u],
                        h.results \cup {[job |-> h.job, unit |-> u]})]
  <2>1. [h EXCEPT !.held = u] \in Call /\ [h EXCEPT !.held = u].job = h.job
    BY <1>2, <1>3 DEF Call
  <2>2. h.results \cup {[job |-> h.job, unit |-> u]} \in SUBSET Result
    BY <1>3 DEF Result
  <2> DEFINE H == Advance([h EXCEPT !.held = u],
                          h.results \cup {[job |-> h.job, unit |-> u]})
  <2>3. H.pc \notin {"select", "release"}
    BY <1>4, <2>1, <2>2
  <2>4. calls' = [calls EXCEPT ![c] = H]
    BY <1>5
  <2> HIDE DEF H
  <2>5. QED
    BY <1>1, <1>5, <2>3, <2>4, InsertGuarded
<1>6. CASE /\ calls' = [calls EXCEPT ![c] = Advance(h, h.results)]
           /\ rows' = rows /\ status' = status
  <2> DEFINE H == Advance(h, h.results)
  <2>1. H.pc \notin {"select", "release"}
    BY <1>2, <1>3, <1>4
  <2>2. calls' = [calls EXCEPT ![c] = H]
    BY <1>6
  <2> HIDE DEF H
  <2>3. QED
    BY <1>1, <1>6, <2>1, <2>2, OtherCallMoves
<1>7. CASE AssignRefreshFails(c)
  <2> DEFINE H == [h EXCEPT !.pc = "ack", !.results = {}]
  <2>1. calls' = [calls EXCEPT ![c] = H] /\ Insert(u, h.turnaround, h.job)
    BY <1>1, <1>7 DEF AssignRefreshFails, Abort, Over
  <2>2. H.pc \notin {"select", "release"}
    BY <1>2 DEF Call
  <2> HIDE DEF H
  <2>3. QED
    BY <1>1, <2>1, <2>2, InsertGuarded
<1>8. QED
  BY <1>5, <1>6, <1>7 DEF Assign

\* A release that selects row i: i is the only open row of the unit, so no other
\* completion shares the unit.
LEMMA SelectGuarded ==
  ASSUME IInv, Guarded, NoUnitLostByHandlers, NEW c \in CompletedHandlers \cup Clients,
         calls[c].pc = "select", NEW i, i \in DOMAIN rows, OpenOn(calls[c].unit) = {i},
         calls' = [calls EXCEPT ![c].pc = "release", ![c].row = i],
         rows' = rows, status' = status, manual' = manual, doubled' = doubled
  PROVE  Guarded' /\ NoUnitLostByHandlers'
<1> DEFINE H == [calls[c] EXCEPT !.pc = "release", !.row = i]
<1>1. c \in Calls /\ calls \in [Calls -> Call]
  BY DEF Calls, Handlers, IInv, TypeOK
<1>2. /\ calls' = [calls EXCEPT ![c] = H] /\ H.pc = "release" /\ H.row = i
      /\ H.unit = calls[c].unit /\ H.loaded = calls[c].loaded
  BY <1>1 DEF Call
<1> HIDE DEF H
<1>3. \A d \in Calls : calls'[d] = IF d = c THEN H ELSE calls[d]
  BY <1>1, <1>2
<1>4. NoUnitLostByHandlers'
  BY DEF NoUnitLostByHandlers, OpenOn
<1>5. Guarded'
  <2>1. SUFFICES ASSUME manual = {}, NEW d \in CompletedHandlers,
                        calls'[d].pc \in {"select", "release"},
                        calls'[d].unit \notin doubled,
                        calls'[d].loaded = "available",
                        status[calls'[d].unit] = "in_use"
                 PROVE  \E k, j \in DOMAIN rows : Shared(d, k, j)'
    BY DEF Guarded
  <2>2. /\ d \in Calls /\ calls[d].pc \in {"select", "release"}
        /\ calls[d].loaded = "available" /\ calls'[d].unit = calls[d].unit
    BY <1>2, <1>3, <2>1, Sorts
  <2>3. PICK k \in DOMAIN rows, j \in DOMAIN rows : Shared(d, k, j)
    BY <2>1, <2>2 DEF Guarded
  <2>4. k # i
    <3>1. SUFFICES ASSUME k = i PROVE FALSE
      OBVIOUS
    <3>2. rows[i].unit = calls[c].unit
      BY DEF OpenOn
    <3>3. j \in OpenOn(calls[c].unit)
      BY <2>3, <3>1, <3>2 DEF OpenOn, Shared
    <3>4. j = k
      BY <3>1, <3>3
    <3>5. QED
      BY <2>3, <3>4 DEF Shared
  <2>5. Safe(k)'
    BY <1>2, <1>3, <2>3, <2>4 DEF Safe, Shared
  <2>6. Shared(d, k, j)'
    BY <2>2, <2>3, <2>5 DEF Shared
  <2>7. QED
    BY <2>6
<1>6. QED
  BY <1>4, <1>5

LEMMA ReleaseGuarded ==
  ASSUME IInv, Guarded, NoUnitLostByHandlers, NEW c \in CompletedHandlers \cup Clients,
         Release(c)
  PROVE  Guarded' /\ NoUnitLostByHandlers'
<1> DEFINE h == calls[c]
<1>1. /\ c \in Calls /\ h.pc = "release" /\ calls \in [Calls -> Call]
      /\ status \in [Units -> Status] /\ rows \in Seq(Row)
      /\ rows' = [rows EXCEPT ![h.row].open = FALSE]
      /\ calls' = [calls EXCEPT ![c].pc = Over(c)] /\ doubled' = doubled
      /\ manual' = (IF c \in Clients THEN manual \cup {"release"} ELSE manual)
      /\ status' = (IF h.loaded = "available" THEN status
                    ELSE [status EXCEPT ![h.unit] = "available"])
  BY DEF Release, Goto, Calls, Handlers, IInv, TypeOK
<1>2. /\ CallInv(c, h, rows, manual, dropped, doubled) /\ h.unit \in Units
      /\ h.row \in DOMAIN rows /\ rows[h.row].unit = h.unit
  BY <1>1, CallOf DEF CallInv, Equipped
<1>3. CASE c \in Clients
  BY <1>1, <1>3 DEF Guarded, NoUnitLostByHandlers
<1>4. CASE c \in CompletedHandlers /\ manual # {}
  BY <1>1, <1>4 DEF Guarded, NoUnitLostByHandlers
<1>5. CASE c \in CompletedHandlers /\ manual = {}
  <2>1. /\ DOMAIN rows' = DOMAIN rows
        /\ \A i \in DOMAIN rows : i # h.row => rows'[i] = rows[i]
    BY <1>1, <1>2
  <2>2. \A v \in Units : status'[v] = "in_use" =>
          /\ status[v] = "in_use"
          /\ v = h.unit => h.loaded = "available"
    BY <1>1
  <2>3. Over(c) = "ack" /\ c \notin Clients /\ manual' = manual
    BY <1>1, <1>5, Sorts DEF Over
  <2>4. \A d \in Calls : calls'[d].pc \in {"select", "release"} =>
          d # c /\ calls'[d] = calls[d]
    BY <1>1, <2>3
  <2>5. \A k \in DOMAIN rows : Safe(k) => k # h.row /\ Safe(k)'
    <3>1. \A k \in DOMAIN rows : Safe(k) => k # h.row
      BY <1>1 DEF Safe
    <3>2. QED
      BY <2>1, <2>4, <3>1 DEF Safe
  <2>6. NoUnitLostByHandlers'
    <3>1. SUFFICES ASSUME NEW v \in Units \ doubled, status'[v] = "in_use"
                   PROVE  \E i \in DOMAIN rows : rows'[i].open /\ rows'[i].unit = v
      BY <1>1, <2>1 DEF NoUnitLostByHandlers, OpenOn
    <3>2. CASE v = h.unit
      <4>1. PICK k \in DOMAIN rows, j \in DOMAIN rows : Shared(c, k, j)
        BY <1>1, <1>5, <2>2, <3>1, <3>2 DEF Guarded
      <4>2. Safe(k) /\ rows[k].unit = v
        BY <3>2, <4>1 DEF Shared
      <4>3. QED
        BY <2>1, <2>5, <4>2 DEF Safe
    <3>3. CASE v # h.unit
      <4>1. PICK i \in DOMAIN rows : rows[i].open /\ rows[i].unit = v
        BY <1>5, <2>2, <3>1 DEF NoUnitLostByHandlers, OpenOn
      <4>2. i # h.row
        BY <1>2, <3>3, <4>1
      <4>3. QED
        BY <2>1, <4>1, <4>2
    <3>4. QED
      BY <3>2, <3>3
  <2>7. Guarded'
    <3>1. SUFFICES ASSUME NEW d \in CompletedHandlers,
                          calls'[d].pc \in {"select", "release"},
                          calls'[d].unit \notin doubled,
                          calls'[d].loaded = "available",
                          status'[calls'[d].unit] = "in_use"
                   PROVE  \E k, j \in DOMAIN rows : Shared(d, k, j)'
      BY <1>1, <2>1 DEF Guarded
    <3>2. d \in Calls /\ d # c /\ calls'[d] = calls[d]
      BY <2>4, <3>1, Sorts
    <3>3. /\ calls[d].unit \in Units
          /\ calls[d].turnaround = d.turnaround /\ calls[d].job = d.job
      <4>1. CallInv(d, calls[d], rows, manual, dropped, doubled)
        BY <3>2, CallOf
      <4>2. QED
        BY <3>1, <3>2, <4>1 DEF CallInv, Equipped
    <3>4. status[calls[d].unit] = "in_use"
      BY <2>2, <3>1, <3>2, <3>3
    <3>5. PICK k \in DOMAIN rows, j \in DOMAIN rows : Shared(d, k, j)
      BY <1>5, <3>1, <3>2, <3>4 DEF Guarded
    <3>6. j # h.row
      <4>1. SUFFICES ASSUME j = h.row PROVE FALSE
        OBVIOUS
      <4>2. /\ h.unit = calls[d].unit /\ h.unit \notin doubled
            /\ OfTask(rows[h.row], d.turnaround, d.job)
        BY <1>2, <3>1, <3>2, <3>5, <4>1 DEF Shared
      <4>3. /\ OfTask(rows[h.row], c.turnaround, c.job)
            /\ h.turnaround = c.turnaround /\ h.job = c.job
        BY <1>1, <1>2, <1>5, <4>2 DEF CallInv, Owning, Equipped, ReleasePcs
      <4>4. Twins(calls[d], h)
        BY <1>1, <3>1, <3>2, <3>3, <4>2, <4>3 DEF Twins, OfTask, ReleasePcs
      <4>5. QED
        BY <1>5, <3>2, <4>2, <4>4 DEF IInv, LocalInv, Alone
    <3>7. Shared(d, k, j)'
      BY <2>1, <2>5, <3>2, <3>5, <3>6 DEF Shared
    <3>8. QED
      BY <3>7
  <2>8. QED
    BY <2>6, <2>7
<1>6. QED
  BY <1>3, <1>4, <1>5

\* The handlers that a connection loss leaves behind go on with their releases.
LEMMA LossContinues ==
  ASSUME IInv, ConnectionLoss
  PROVE  \A d \in Calls : \/ calls'[d] = calls[d]
                          \/ \E e \in Calls : Continues(d, e)
                          \/ calls'[d].pc \notin {"select", "release"}
<1>1. PICK delivered \in SUBSET Messages :
        /\ \A m \in delivered :
             /\ calls'[m] = Fresh("queued", m.turnaround, m.job)
             /\ calls'[Left(m, faults')] = calls[m]
        /\ \A c \in Calls : \/ c \in delivered
                            \/ \E m \in delivered : c = Left(m, faults')
                            \/ calls'[c] = calls[c]
  BY ConnectionLossMoves
<1>2. ASSUME NEW m \in delivered
      PROVE  m \in Calls /\ Continues(Left(m, faults'), m)
  <2>1. faults' \in 1 .. MaxFaults
    BY ConnectionLossMoves
  <2>2. m \in StartedHandlers \/ m \in CompletedHandlers
    BY <1>2, Sorts
  <2>3. m \in Calls /\ calls'[Left(m, faults')] = calls[m]
    BY <1>1, <1>2, <2>2, Sorts
  <2>4. /\ Left(m, faults') \in CompletedHandlers => m \in CompletedHandlers
        /\ Left(m, faults').turnaround = m.turnaround /\ Left(m, faults').job = m.job
    BY <1>2, <2>1, <2>2, LeftOnes, Sorts
  <2>5. QED
    BY <2>3, <2>4 DEF Continues
<1>3. \A m \in delivered : calls'[m].pc = "queued"
  <2>1. SUFFICES ASSUME NEW m \in delivered PROVE calls'[m].pc = "queued"
    OBVIOUS
  <2>2. calls'[m] = Fresh("queued", m.turnaround, m.job)
    BY <1>1
  <2>3. QED
    BY <2>2 DEF Fresh
<1>4. QED
  BY <1>1, <1>2, <1>3

LEMMA NextGuarded ==
  IInv /\ Guarded /\ NoUnitLostByHandlers /\ [Next]_vars
  => Guarded' /\ NoUnitLostByHandlers'
<1> SUFFICES ASSUME IInv, Guarded, NoUnitLostByHandlers, [Next]_vars
             PROVE  Guarded' /\ NoUnitLostByHandlers'
  OBVIOUS
<1> USE DEF history
<1>1. calls \in [Calls -> Call] /\ Handlers \subseteq Calls /\ Clients \subseteq Calls
      /\ StartedHandlers \subseteq Calls /\ CompletedHandlers \subseteq Calls
  BY DEF IInv, TypeOK, Calls, Handlers
<1>2. ASSUME NEW c \in Calls,
             \E pc : /\ pc \notin {"select", "release"}
                     /\ \/ Goto(c, pc)
                        \/ calls' = [calls EXCEPT ![c].pc = pc, ![c].results = {}],
             rows' = rows, status' = status, manual' = manual,
             doubled' = doubled
      PROVE  Guarded' /\ NoUnitLostByHandlers'
  <2>1. PICK pc : /\ pc \notin {"select", "release"}
                  /\ \/ Goto(c, pc)
                     \/ calls' = [calls EXCEPT ![c].pc = pc, ![c].results = {}]
    BY <1>2
  <2>2. \A d \in Calls : calls'[d] = calls[d] \/ calls'[d].pc = pc
    BY <1>1, <1>2, <2>1 DEF Goto, Call
  <2>3. QED
    BY <1>2, <2>1, <2>2, NothingReleased
<1>3. ASSUME NEW c \in Calls, Abort(c), rows' = rows, status' = status, manual' = manual,
             doubled' = doubled
      PROVE  Guarded' /\ NoUnitLostByHandlers'
  <2>1. Over(c) \notin {"select", "release"}
    BY DEF Over
  <2>2. calls' = [calls EXCEPT ![c].pc = Over(c), ![c].results = {}]
    BY <1>3 DEF Abort
  <2>3. QED
    BY <1>2, <1>3, <2>1, <2>2
<1>4. ASSUME NEW c \in Handlers, Publish(c) \/ CrewHalfFails(c) \/ Ack(c)
      PROVE  Guarded' /\ NoUnitLostByHandlers'
  <2>1. c \in Calls /\ rows' = rows /\ status' = status /\ manual' = manual
        /\ doubled' = doubled
    BY <1>1, <1>4 DEF Publish, CrewHalfFails, Ack
  <2>2. CASE Publish(c)
    <3>1. \E pc : pc \notin {"select", "release"} /\ Goto(c, pc)
      BY <2>2 DEF Publish
    <3>2. QED
      BY <1>2, <2>1, <3>1
  <2>3. CASE CrewHalfFails(c)
    BY <1>3, <2>1, <2>3 DEF CrewHalfFails
  <2>4. CASE Ack(c)
    <3> DEFINE H == Fresh(IF c \in Messages THEN "acked" ELSE "absent",
                          c.turnaround, c.job)
    <3>1. calls' = [calls EXCEPT ![c] = H] /\ H.pc \notin {"select", "release"}
      BY <2>4 DEF Ack, Fresh
    <3> HIDE DEF H
    <3>2. QED
      BY <2>1, <3>1, OtherCallMoves
  <2>5. QED
    BY <1>4, <2>2, <2>3, <2>4
<1>5. CASE \E t \in Turnarounds : PublishStarted(t)
  BY <1>4, <1>5, Sorts DEF PublishStarted, Messages, StartedMessages
<1>6. CASE \E t \in Turnarounds, k \in Job, n \in Copy : PublishCompleted(t, k, n)
  BY <1>4, <1>6, Sorts DEF PublishCompleted, Messages, CompletedMessages
<1>7. ASSUME NEW c \in Handlers, BeginHandler(c)
      PROVE  Guarded' /\ NoUnitLostByHandlers'
  <2> DEFINE H == IF c.kind = "started"
                  THEN Fresh("check", c.turnaround, 1)
                  ELSE Fresh("lookup", c.turnaround, c.job)
  <2>1. calls' = [calls EXCEPT ![c] = H] /\ rows' = rows /\ status' = status
        /\ manual' = manual /\ doubled' = doubled
    BY <1>7 DEF BeginHandler, Begin
  <2>2. H.pc \notin {"select", "release"}
    BY DEF Fresh
  <2> HIDE DEF H
  <2>3. QED
    BY <1>1, <2>1, <2>2, OtherCallMoves
<1>8. ASSUME NEW c \in StartedHandlers, Check(c) \/ Find(c) \/ PublishResults(c)
      PROVE  Guarded' /\ NoUnitLostByHandlers'
  <2> DEFINE h == calls[c]
  <2>1. /\ c \in Calls /\ rows' = rows /\ status' = status /\ manual' = manual
        /\ doubled' = doubled
    BY <1>1, <1>8 DEF Check, Find, PublishResults
  <2>2. h \in Call /\ CallInv(c, h, rows, manual, dropped, doubled)
    BY <2>1, CallOf
  <2>3. ASSUME NEW g \in Call, NEW R \in SUBSET Result, g.job \in Job,
               calls' = [calls EXCEPT ![c] = Advance(g, R)]
        PROVE  Guarded' /\ NoUnitLostByHandlers'
    <3>1. Advance(g, R).pc \notin {"select", "release"}
      BY <2>3, AdvanceCall
    <3>2. QED
      BY <2>1, <2>3, <3>1, OtherCallMoves
  <2>4. CASE Check(c)
    <3>1. h.job \in Job /\ h.results \in SUBSET Result
      BY <2>2, <2>4 DEF Check, CallInv, Equipped, Call
    <3>2. CASE Goto(c, "find")
      BY <1>2, <2>1, <3>2
    <3>3. CASE calls' = [calls EXCEPT ![c] = Advance(h, h.results)]
      BY <2>2, <2>3, <3>1, <3>3
    <3>4. QED
      BY <1>3, <2>1, <2>4, <3>2, <3>3 DEF Check
  <2>5. CASE Find(c)
    <3>1. h.job \in Job /\ h.results \in SUBSET Result
      BY <2>2, <2>5 DEF Find, CallInv, Equipped, Call
    <3>2. CASE calls' = [calls EXCEPT ![c] =
                           Advance([h EXCEPT !.held = None],
                                   h.results \cup {[job |-> h.job, unit |-> None]})]
      <4>1. [h EXCEPT !.held = None] \in Call /\ [h EXCEPT !.held = None].job \in Job
        BY <2>2, <3>1 DEF Call
      <4>2. h.results \cup {[job |-> h.job, unit |-> None]} \in SUBSET Result
        BY <3>1 DEF Result
      <4>3. QED
        BY <2>3, <3>2, <4>1, <4>2
    <3>3. CASE \E u \in First(Available(h.job)) :
                 calls' = [calls EXCEPT ![c].pc = "assign", ![c].unit = u]
      <4>1. \A d \in Calls : calls'[d] = calls[d] \/ calls'[d].pc = "assign"
        BY <1>1, <2>1, <3>3 DEF Call
      <4>2. QED
        BY <2>1, <4>1, NothingReleased
    <3>4. QED
      BY <2>5, <3>2, <3>3 DEF Find
  <2>6. CASE PublishResults(c)
    BY <1>2, <2>1, <2>6 DEF PublishResults
  <2>7. QED
    BY <1>8, <2>4, <2>5, <2>6
<1>9. ASSUME NEW c \in CompletedHandlers \cup Clients, HandleRelease(c)
      PROVE  Guarded' /\ NoUnitLostByHandlers'
  <2>1. c \in Calls
    BY <1>1
  <2>2. CASE Lookup(c)
    <3>1. rows' = rows /\ status' = status /\ manual' = manual
          /\ doubled \subseteq doubled'
      BY <2>2 DEF Lookup, StartRelease
    <3>2. CASE \E i \in OpenOf(calls[c].turnaround, calls[c].job) :
                 StartRelease(c, rows[i].unit)
      <4>1. \A d \in Calls : calls'[d] = calls[d] \/ calls'[d].pc = "load"
        BY <1>1, <2>1, <3>2 DEF Call, StartRelease
      <4>2. QED
        BY <3>1, <4>1, NothingReleased
    <3>3. CASE Goto(c, "ack") /\ UNCHANGED doubled
      BY <1>2, <2>1, <3>1, <3>3
    <3>4. CASE Abort(c) /\ UNCHANGED doubled
      BY <1>3, <2>1, <3>1, <3>4
    <3>5. QED
      BY <2>2, <3>2, <3>3, <3>4 DEF Lookup
  <2>3. CASE Load(c)
    <3> DEFINE H == [calls[c] EXCEPT !.pc = "select", !.loaded = status[calls[c].unit]]
    <3>1. /\ calls' = [calls EXCEPT ![c] = H] /\ H.pc = "select"
          /\ H.loaded = status[H.unit]
          /\ rows' = rows /\ status' = status /\ manual' = manual /\ doubled' = doubled
      BY <1>1, <2>1, <2>3 DEF Load, Call
    <3> HIDE DEF H
    <3>2. QED
      BY <2>1, <3>1, OtherCallMoves
  <2>4. CASE Select(c)
    <3>1. /\ calls[c].pc = "select" /\ rows' = rows /\ status' = status
          /\ manual' = manual /\ doubled' = doubled
      BY <2>4 DEF Select
    <3>2. CASE \E i \in OpenOn(calls[c].unit) :
                 /\ OpenOn(calls[c].unit) = {i}
                 /\ calls' = [calls EXCEPT ![c].pc = "release", ![c].row = i]
      <4>1. PICK i \in OpenOn(calls[c].unit) :
              /\ OpenOn(calls[c].unit) = {i}
              /\ calls' = [calls EXCEPT ![c].pc = "release", ![c].row = i]
        BY <3>2
      <4>2. i \in DOMAIN rows
        BY DEF OpenOn
      <4>3. QED
        BY <3>1, <4>1, <4>2, SelectGuarded
    <3>3. CASE Goto(c, Over(c))
      <4>1. Over(c) \notin {"select", "release"}
        BY DEF Over
      <4>2. QED
        BY <1>2, <2>1, <3>1, <3>3, <4>1
    <3>4. QED
      BY <1>3, <2>1, <2>4, <3>1, <3>2, <3>3 DEF Select
  <2>5. CASE Release(c)
    BY <2>5, ReleaseGuarded
  <2>6. QED
    BY <1>9, <2>2, <2>3, <2>4, <2>5 DEF HandleRelease
<1>10. ASSUME NEW c \in Clients, Request(c)
       PROVE  Guarded' /\ NoUnitLostByHandlers'
  <2>1. c \in Calls
    BY <1>1
  <2>2. CASE manual' = {}
    <3>1. rows' = rows /\ status' = status /\ manual' = manual /\ doubled' = doubled
          /\ \A d \in Calls : calls'[d] = calls[d]
                              \/ calls'[d].pc \notin {"select", "release"}
      <4>1. ~CommitAssign(c) /\ \A s \in PatchStatuses : ~CommitPatch(c, s)
        BY <2>2 DEF CommitAssign, CommitPatch
      <4>2. PICK u \in Units : \/ RequestRelease(c, u)
                               \/ RequestPatch(c, u)
                               \/ \E t \in Turnarounds, k \in Job : RequestAssign(c, u, t, k)
        BY <1>10, <4>1 DEF Request
      <4>3. CASE RequestRelease(c, u)
        BY <1>1, <2>1, <4>3 DEF RequestRelease, Begin, Fresh
      <4>4. CASE RequestPatch(c, u)
        BY <1>1, <2>1, <4>4 DEF RequestPatch, Begin, Fresh
      <4>5. CASE \E t \in Turnarounds, k \in Job : RequestAssign(c, u, t, k)
        BY <1>1, <2>1, <4>5 DEF RequestAssign, Begin, Fresh
      <4>6. QED
        BY <4>2, <4>3, <4>4, <4>5
    <3>2. QED
      BY <3>1, NothingReleased
  <2>3. CASE manual' # {}
    BY <2>3 DEF Guarded, NoUnitLostByHandlers
  <2>4. QED
    BY <2>2, <2>3
<1>11. CASE \E c \in Calls : SqlError(c)
  BY <1>3, <1>11 DEF SqlError
<1>12. CASE Restart
  <2>1. rows' = rows /\ status' = status /\ manual' = manual /\ doubled' = doubled
    BY <1>12 DEF Restart
  <2>2. \A d \in Calls : calls'[d] = calls[d] \/ calls'[d].pc \notin {"select", "release"}
    BY <1>12 DEF Restart, Fresh
  <2>3. QED
    BY <2>1, <2>2, NothingReleased
<1>13. CASE ConnectionLoss
  <2>1. rows' = rows /\ status' = status /\ manual' = manual /\ doubled' = doubled
    BY <1>13 DEF ConnectionLoss
  <2>2. QED
    BY <1>13, <2>1, LossContinues, NothingReleased
<1>14. CASE UNCHANGED vars
  BY <1>14 DEF vars, Guarded, Safe, Shared, NoUnitLostByHandlers, OpenOn
<1>15. QED
  BY <1>4, <1>5, <1>6, <1>7, <1>8, <1>9, <1>10, <1>11, <1>12, <1>13, <1>14, AssignGuarded
     DEF Next, HandleStarted

----------------------------------------------------------------------------
\* A call at work; one past its last statement only waits to be acknowledged.
Active(h) == ~Resting(h.pc) /\ h.pc # "ack"

Serial == ~overlapped /\ "patch" \notin manual

\* What a call that runs alone has read is still true when it acts on it.
Current(h) ==
  /\ h.pc \in {"assign", "insert"} => status[h.unit] = "available"
  /\ h.pc \in {"select", "release"} => h.loaded = status[h.unit]
  /\ h.pc = "release" => h.row \in OpenOn(h.unit)

OneHolder ==
  /\ \A u \in Units : status[u] = "in_use" <=> OpenOn(u) # {}
  /\ \A u \in Units : \A i, j \in OpenOn(u) : i = j

SerialInv ==
  Serial =>
    /\ \A c, d \in Calls : Active(calls[c]) /\ Active(calls[d]) => c = d
    /\ \A c \in Calls : Current(calls[c])
    /\ OneHolder

\* The one call at work moves to H, or a call begins while none is at work.
LEMMA SerialMoves ==
  ASSUME IInv, SerialInv, NEW c \in Calls, NEW H,
         calls' = [calls EXCEPT ![c] = H],
         Serial' => Serial,
         Serial' /\ Active(H) =>
           \/ Active(calls[c])
           \/ \A d \in Calls : ~Active(calls[d]),
         Active(calls[c]) \/ (status' = status /\ rows' = rows),
         Serial' => Current(H)',
         Serial' => OneHolder'
  PROVE  SerialInv'
<1>1. \A d \in Calls : calls'[d] = IF d = c THEN H ELSE calls[d]
  BY DEF IInv, TypeOK
<1>2. SUFFICES ASSUME Serial'
               PROVE  /\ \A d, e \in Calls :
                           Active(calls'[d]) /\ Active(calls'[e]) => d = e
                      /\ \A d \in Calls : Current(calls[d])'
  BY DEF SerialInv, Active
<1>3. /\ \A d, e \in Calls : Active(calls[d]) /\ Active(calls[e]) => d = e
      /\ \A d \in Calls : Current(calls[d])
      /\ Active(H) => \/ Active(calls[c])
                      \/ \A d \in Calls : ~Active(calls[d])
  BY <1>2 DEF SerialInv
<1>4. \A d, e \in Calls : Active(calls'[d]) /\ Active(calls'[e]) => d = e
  BY <1>1, <1>3
<1>5. ASSUME NEW d \in Calls, d # c
      PROVE  Current(calls[d])'
  <2>1. calls'[d] = calls[d]
    BY <1>1, <1>5
  <2>2. CASE Active(calls[c])
    <3>1. ~Active(calls[d])
      BY <1>3, <1>5, <2>2
    <3>2. calls'[d].pc \notin {"assign", "insert", "select", "release"}
      BY <2>1, <3>1 DEF Active, Resting
    <3>3. QED
      BY <3>2 DEF Current
  <2>3. CASE status' = status /\ rows' = rows
    <3>1. Current(calls[d])
      BY <1>3
    <3>2. QED
      BY <2>1, <2>3, <3>1 DEF Current, OpenOn
  <2>4. QED
    BY <2>2, <2>3
<1>6. Current(calls[c])'
  <2>1. calls'[c] = H /\ Current(H)'
    BY <1>1, <1>2
  <2>2. QED
    BY <2>1 DEF Current
<1>7. QED
  BY <1>4, <1>5, <1>6

\* A step of a call that leaves units and table alone.
LEMMA SerialReads ==
  ASSUME IInv, SerialInv, NEW c \in Calls, NEW H,
         calls' = [calls EXCEPT ![c] = H], status' = status, rows' = rows,
         Serial' => Serial,
         Serial' /\ Active(H) =>
           \/ Active(calls[c])
           \/ \A d \in Calls : ~Active(calls[d]),
         Serial => Current(H)
  PROVE  SerialInv'
<1>1. Serial => OneHolder
  BY DEF SerialInv
<1>2. Serial' => OneHolder'
  BY <1>1 DEF OneHolder, OpenOn
<1>3. Serial' => Current(H)'
  BY DEF Current, OpenOn
<1>4. QED
  BY <1>2, <1>3, SerialMoves

\* A step to a place where the call relies on nothing it has read.
LEMMA SerialPlain ==
  ASSUME IInv, SerialInv, NEW c \in Calls, NEW H,
         calls' = [calls EXCEPT ![c] = H], status' = status, rows' = rows,
         Serial' => Serial,
         Serial' /\ Active(H) =>
           \/ Active(calls[c])
           \/ \A d \in Calls : ~Active(calls[d]),
         H.pc \notin {"assign", "insert", "select", "release"}
  PROVE  SerialInv'
<1>1. Current(H)
  BY DEF Current
<1>2. QED
  BY <1>1, SerialReads

LEMMA SerialGoto ==
  ASSUME IInv, SerialInv, NEW c \in Calls, NEW pc \in Pc,
         \/ Goto(c, pc)
         \/ calls' = [calls EXCEPT ![c].pc = pc, ![c].results = {}],
         status' = status, rows' = rows, manual' = manual, overlapped' = overlapped,
         pc \notin {"assign", "insert", "select", "release"},
         \/ pc \in {"queued", "ack", "acked", "done"}
         \/ Active(calls[c])
  PROVE  SerialInv'
<1>1. PICK H : /\ calls' = [calls EXCEPT ![c] = H]
               /\ H.pc = pc
  <2>1. calls \in [Calls -> Call] /\ calls[c] \in Call
    BY CallOf
  <2>2. CASE Goto(c, pc)
    <3> DEFINE H == [calls[c] EXCEPT !.pc = pc]
    <3>1. H.pc = pc /\ calls' = [calls EXCEPT ![c] = H]
      BY <2>1, <2>2 DEF Goto, Call
    <3>2. QED
      BY <3>1
  <2>3. CASE calls' = [calls EXCEPT ![c].pc = pc, ![c].results = {}]
    <3> DEFINE H == [calls[c] EXCEPT !.pc = pc, !.results = {}]
    <3>1. H.pc = pc /\ calls' = [calls EXCEPT ![c] = H]
      BY <2>1, <2>3 DEF Call
    <3>2. QED
      BY <3>1
  <2>4. QED
    BY <2>2, <2>3
<1>2. Serial' => Serial
  BY DEF Serial
<1>3. Active(H) => Active(calls[c])
  BY <1>1 DEF Active, Resting
<1>4. QED
  BY <1>1, <1>2, <1>3, SerialPlain

LEMMA SerialAbort ==
  ASSUME IInv, SerialInv, NEW c \in Calls, Abort(c),
         status' = status, rows' = rows, manual' = manual, overlapped' = overlapped
  PROVE  SerialInv'
<1>1. Over(c) \in {"ack", "done"}
  BY DEF Over
<1>2. QED
  BY <1>1, SerialGoto DEF Abort, Pc

\* While calls run one after the other, a call begins when none is at work.
LEMMA SerialBegin ==
  ASSUME IInv, SerialInv, NEW c \in Calls, NEW H, Begin(c, H),
         status' = status, rows' = rows, manual' = manual,
         Serial => Current(H)
  PROVE  SerialInv'
<1>1. Serial' => Serial
  BY DEF Serial, Begin
<1>2. Serial' => \A d \in Calls : ~Active(calls[d])
  BY DEF Serial, Begin, Running, Active
<1>3. QED
  BY <1>1, <1>2, SerialReads DEF Begin

\* The row of a unit that was available is its only one.
LEMMA SerialInsert ==
  ASSUME IInv, OneHolder,
         NEW u \in Units, NEW t \in Turnarounds, NEW k \in Job, Insert(u, t, k),
         status[u] = "available"
  PROVE  OneHolder'
<1> DEFINE n == Len(rows) + 1
<1>1. /\ n \in DOMAIN rows'
      /\ rows'[n] = [unit |-> u, turnaround |-> t, job |-> k, open |-> TRUE]
      /\ \A i \in DOMAIN rows : rows'[i] = rows[i]
      /\ \A j \in DOMAIN rows' : j \notin DOMAIN rows => j = n
      /\ DOMAIN rows \subseteq DOMAIN rows'
  BY Inserted DEF Grown
<1> HIDE DEF n
<1>2. rows'[n].open /\ rows'[n].unit = u
  BY <1>1
<1>3. OpenOn(u) = {}
  BY DEF OneHolder
<1>4. ASSUME NEW v \in Units
      PROVE  OpenOn(v)' = IF v = u THEN {n} ELSE OpenOn(v)
  BY <1>1, <1>2, <1>3 DEF OpenOn
<1>5. status' = [status EXCEPT ![u] = "in_use"] /\ status \in [Units -> Status]
  BY DEF Insert, IInv, TypeOK
<1>6. \A v \in Units : status'[v] = "in_use" <=> OpenOn(v)' # {}
  BY <1>4, <1>5 DEF OneHolder
<1>7. ASSUME NEW v \in Units, NEW i \in OpenOn(v)', NEW j \in OpenOn(v)'
      PROVE  i = j
  BY <1>4, <1>7 DEF OneHolder
<1>8. QED
  BY <1>6, <1>7 DEF OneHolder

\* A call at work inserts the row of the unit it found available.
LEMMA CommitsSerial ==
  ASSUME IInv, SerialInv, NEW c \in Calls, NEW H, calls' = [calls EXCEPT ![c] = H],
         calls[c].pc \in {"assign", "insert"}, calls[c].unit \in Units,
         calls[c].turnaround \in Turnarounds, calls[c].job \in Job,
         Insert(calls[c].unit, calls[c].turnaround, calls[c].job),
         H.pc \in {"check", "publish", "ack", "done"}, Serial' => Serial
  PROVE  SerialInv'
<1> DEFINE h == calls[c]
<1>1. Active(h) /\ Current(H)'
  BY DEF Active, Resting, Current
<1>2. Serial' => OneHolder'
  <2>1. SUFFICES ASSUME Serial' PROVE OneHolder'
    OBVIOUS
  <2>2. OneHolder /\ Current(h)
    BY <2>1 DEF SerialInv
  <2>3. status[h.unit] = "available"
    BY <2>2 DEF Current
  <2>4. QED
    BY <2>2, <2>3, SerialInsert
<1>3. QED
  BY <1>1, <1>2, SerialMoves

LEMMA AssignSerial ==
  ASSUME IInv, SerialInv, NEW c \in StartedHandlers, Assign(c) \/ AssignRefreshFails(c)
  PROVE  SerialInv'
<1> DEFINE h == calls[c]
           u == h.unit
<1>1. /\ c \in Calls /\ h.pc = "assign"
      /\ manual' = manual /\ overlapped' = overlapped
  BY Sorts DEF Assign, AssignRefreshFails, history
<1>2. h \in Call /\ CallInv(c, h, rows, manual, dropped, doubled)
  BY <1>1, CallOf
<1>3. /\ h.job \in Job /\ h.turnaround \in Turnarounds /\ h.results \in SUBSET Result
      /\ u \in Units
  BY <1>1, <1>2, Sorts DEF CallInv, Equipped, Call
<1>4. Active(h) /\ (Serial' => Serial)
  BY <1>1 DEF Active, Resting, Serial
<1>5. CASE /\ Insert(u, h.turnaround, h.job)
           /\ calls' = [calls EXCEPT ![c] =
                Advance([h EXCEPT !.held = u],
                        h.results \cup {[job |-> h.job, unit |-> u]})]
  <2> DEFINE H == Advance([h EXCEPT !.held = u],
                          h.results \cup {[job |-> h.job, unit |-> u]})
  <2>1. [h EXCEPT !.held = u] \in Call /\ [h EXCEPT !.held = u].job \in Job
    BY <1>2, <1>3 DEF Call
  <2>2. h.results \cup {[job |-> h.job, unit |-> u]} \in SUBSET Result
    BY <1>3 DEF Result
  <2>3. H.pc \in {"check", "publish", "ack"}
    BY <2>1, <2>2, AdvanceCall
  <2>4. calls' = [calls EXCEPT ![c] = H]
    BY <1>5
  <2> HIDE DEF H
  <2>5. QED
    BY <1>1, <1>3, <1>4, <1>5, <2>3, <2>4, CommitsSerial
<1>6. CASE /\ calls' = [calls EXCEPT ![c] = Advance(h, h.results)]
           /\ UNCHANGED <<status, rows>>
  <2> DEFINE H == Advance(h, h.results)
  <2>1. H.pc \in {"check", "publish", "ack"}
    BY <1>2, <1>3, AdvanceCall
  <2>2. calls' = [calls EXCEPT ![c] = H]
    BY <1>6
  <2> HIDE DEF H
  <2>3. QED
    BY <1>1, <1>4, <1>6, <2>1, <2>2, SerialPlain
<1>7. CASE AssignRefreshFails(c)
  <2> DEFINE H == [h EXCEPT !.pc = "ack", !.results = {}]
  <2>1. c \notin Clients
    BY Sorts
  <2>2. calls' = [calls EXCEPT ![c] = H] /\ Insert(u, h.turnaround, h.job)
    BY <1>1, <1>2, <1>7, <2>1, CallOf DEF AssignRefreshFails, Abort, Over, Call
  <2>3. H.pc = "ack"
    BY <1>2 DEF Call
  <2> HIDE DEF H
  <2>4. QED
    BY <1>1, <1>3, <1>4, <2>2, <2>3, CommitsSerial
<1>8. QED
  BY <1>5, <1>6, <1>7 DEF Assign

LEMMA CommitAssignSerial ==
  ASSUME IInv, SerialInv, NEW c \in Clients, CommitAssign(c)
  PROVE  SerialInv'
<1> DEFINE h == calls[c]
<1>0. PICK H : H = [h EXCEPT !.pc = "done"]
  OBVIOUS
<1>1. /\ c \in Calls /\ h.pc = "insert" /\ Insert(h.unit, h.turnaround, h.job)
      /\ calls' = [calls EXCEPT ![c] = H]
      /\ overlapped' = overlapped /\ manual' = manual \cup {"assign"}
  BY <1>0 DEF CommitAssign, Calls, Goto
<1>2. h \in Call /\ CallInv(c, h, rows, manual, dropped, doubled)
  BY <1>1, CallOf
<1>3. h.unit \in Units /\ h.turnaround \in Turnarounds /\ h.job \in Job
  BY <1>1, <1>2 DEF CallInv, Equipped
<1>4. H.pc = "done"
  BY <1>0, <1>2 DEF Call
<1>5. Serial' => Serial
  BY <1>1 DEF Serial
<1>6. QED
  BY <1>1, <1>3, <1>4, <1>5, CommitsSerial

LEMMA ReleaseSerial ==
  ASSUME IInv, SerialInv, NEW c \in CompletedHandlers \cup Clients, Release(c)
  PROVE  SerialInv'
<1> DEFINE h == calls[c]
<1>0. PICK H : H = [h EXCEPT !.pc = Over(c)]
  OBVIOUS
<1>1. /\ c \in Calls /\ h.pc = "release"
      /\ rows' = [rows EXCEPT ![h.row].open = FALSE]
      /\ status' = IF h.loaded = "available" THEN status
                   ELSE [status EXCEPT ![h.unit] = "available"]
      /\ calls' = [calls EXCEPT ![c] = H]
      /\ overlapped' = overlapped
      /\ manual' = (IF c \in Clients THEN manual \cup {"release"} ELSE manual)
  BY <1>0 DEF Release, Calls, Handlers, Goto
<1>2. /\ h \in Call /\ CallInv(c, h, rows, manual, dropped, doubled)
      /\ status \in [Units -> Status] /\ rows \in Seq(Row)
  BY <1>1, CallOf DEF IInv, TypeOK
<1>3. h.row \in DOMAIN rows /\ h.unit \in Units
  BY <1>1, <1>2 DEF CallInv, Equipped
<1>4. H.pc = Over(c)
  BY <1>0, <1>2 DEF Call
<1>5. Over(c) \in {"ack", "done"}
  BY DEF Over
<1>6. /\ Active(h) /\ (Serial' => Serial)
      /\ ~Active(H) /\ Current(H)'
  <2>1. Active(h) /\ ~Active(H) /\ Current(H)'
    BY <1>1, <1>4, <1>5 DEF Active, Resting, Current
  <2>2. Serial' => Serial
    BY <1>1 DEF Serial
  <2>3. QED
    BY <2>1, <2>2
<1>7. Serial' => OneHolder'
  <2>1. SUFFICES ASSUME Serial' PROVE OneHolder'
    OBVIOUS
  <2>2. OneHolder /\ Current(h)
    BY <1>1, <1>6, <2>1 DEF SerialInv
  <2>3. h.row \in OpenOn(h.unit) /\ status[h.unit] = h.loaded
    BY <1>1, <2>2 DEF Current
  <2>4. status[h.unit] = "in_use"
    BY <1>3, <2>2, <2>3 DEF OneHolder
  <2>5. status' = [status EXCEPT ![h.unit] = "available"]
    BY <1>1, <2>3, <2>4
  <2>6. /\ DOMAIN rows' = DOMAIN rows
        /\ \A i \in DOMAIN rows : i # h.row => rows'[i] = rows[i]
        /\ rows'[h.row] = [rows[h.row] EXCEPT !.open = FALSE]
        /\ rows[h.row] \in Row
    BY <1>1, <1>2, <1>3, ElementOfSeq
  <2>7. ~rows'[h.row].open
    BY <2>6 DEF Row
  <2>8. rows[h.row].unit = h.unit /\ OpenOn(h.unit) = {h.row}
    BY <1>3, <2>2, <2>3 DEF OneHolder, OpenOn
  <2>9. ASSUME NEW v \in Units
        PROVE  OpenOn(v)' = IF v = h.unit THEN {} ELSE OpenOn(v)
    BY <1>3, <2>6, <2>7, <2>8 DEF OpenOn
  <2>10. \A v \in Units : status'[v] = "in_use" <=> OpenOn(v)' # {}
    BY <1>2, <1>3, <2>2, <2>5, <2>9 DEF OneHolder
  <2>11. ASSUME NEW v \in Units, NEW i \in OpenOn(v)', NEW j \in OpenOn(v)'
         PROVE  i = j
    BY <2>2, <2>9, <2>11 DEF OneHolder
  <2>12. QED
    BY <2>10, <2>11 DEF OneHolder
<1>8. QED
  BY <1>1, <1>6, <1>7, SerialMoves

LEMMA InitSerial == Init => SerialInv
<1> SUFFICES ASSUME Init PROVE SerialInv
  OBVIOUS
<1>1. \A c \in Calls : calls[c].pc \in {"idle", "absent"}
  BY DEF Init, Fresh
<1>2. \A c \in Calls : ~Active(calls[c]) /\ Current(calls[c])
  BY <1>1 DEF Active, Resting, Current
<1>3. \A u \in Units : OpenOn(u) = {} /\ status[u] = "available"
  BY DEF Init, OpenOn
<1>4. QED
  BY <1>2, <1>3 DEF SerialInv, OneHolder

LEMMA StartedSerial ==
  ASSUME IInv, SerialInv, NEW c \in StartedHandlers, HandleStarted(c)
  PROVE  SerialInv'
<1> DEFINE h == calls[c]
<1>1. c \in Calls
  BY DEF Calls, Handlers
<1>2. /\ h \in Call /\ CallInv(c, h, rows, manual, dropped, doubled) /\ calls \in [Calls -> Call]
  BY <1>1, CallOf
<1>3. CASE Assign(c) \/ AssignRefreshFails(c)
  BY <1>3, AssignSerial
<1>4. CASE Check(c) \/ Find(c) \/ PublishResults(c)
  <2>1. /\ rows' = rows /\ status' = status /\ manual' = manual
        /\ overlapped' = overlapped /\ h.pc \in {"check", "find", "publish"}
    BY <1>4 DEF Check, Find, PublishResults, history
  <2>2. Active(h) /\ (Serial' => Serial)
    BY <2>1 DEF Active, Resting, Serial
  <2>3. ASSUME NEW g \in Call, NEW R \in SUBSET Result, g.job \in Job,
               calls' = [calls EXCEPT ![c] = Advance(g, R)]
        PROVE  SerialInv'
    <3>1. Advance(g, R).pc \notin {"assign", "insert", "select", "release"}
      BY <2>3, AdvanceCall
    <3>2. QED
      BY <1>1, <2>1, <2>2, <2>3, <3>1, SerialPlain
  <2>4. CASE Check(c)
    <3>1. h.job \in Job /\ h.results \in SUBSET Result
      BY <1>2, <2>4 DEF Check, CallInv, Equipped, Call
    <3>2. CASE Goto(c, "find")
      BY <1>1, <2>1, <2>2, <3>2, SerialGoto DEF Pc
    <3>3. CASE calls' = [calls EXCEPT ![c] = Advance(h, h.results)]
      BY <1>2, <2>3, <3>1, <3>3
    <3>4. CASE Abort(c)
      BY <1>1, <2>1, <3>4, SerialAbort
    <3>5. QED
      BY <2>4, <3>2, <3>3, <3>4 DEF Check
  <2>5. CASE Find(c)
    <3>1. h.job \in Job /\ h.results \in SUBSET Result
      BY <1>2, <2>5 DEF Find, CallInv, Equipped, Call
    <3>2. CASE calls' = [calls EXCEPT ![c] =
                           Advance([h EXCEPT !.held = None],
                                   h.results \cup {[job |-> h.job, unit |-> None]})]
      <4>1. [h EXCEPT !.held = None] \in Call /\ [h EXCEPT !.held = None].job \in Job
        BY <1>2, <3>1 DEF Call
      <4>2. h.results \cup {[job |-> h.job, unit |-> None]} \in SUBSET Result
        BY <3>1 DEF Result
      <4>3. QED
        BY <2>3, <3>2, <4>1, <4>2
    <3>3. CASE \E u \in First(Available(h.job)) :
                 calls' = [calls EXCEPT ![c].pc = "assign", ![c].unit = u]
      <4>1. PICK u \in First(Available(h.job)) :
                   calls' = [calls EXCEPT ![c].pc = "assign", ![c].unit = u]
        BY <3>3
      <4> DEFINE H == [h EXCEPT !.pc = "assign", !.unit = u]
      <4>2. H.pc = "assign" /\ H.unit = u /\ calls' = [calls EXCEPT ![c] = H]
        BY <1>1, <1>2, <4>1 DEF Call
      <4> HIDE DEF H
      <4>3. status[u] = "available"
        BY DEF First, Available
      <4>4. Current(H)
        BY <4>2, <4>3 DEF Current
      <4>5. QED
        BY <1>1, <2>1, <2>2, <4>2, <4>4, SerialReads
    <3>4. QED
      BY <2>5, <3>2, <3>3 DEF Find
  <2>6. CASE PublishResults(c)
    BY <1>1, <2>1, <2>6, SerialGoto DEF PublishResults, Pc
  <2>7. QED
    BY <1>4, <2>4, <2>5, <2>6
<1>5. QED
  BY <1>3, <1>4 DEF HandleStarted

LEMMA ReleasingSerial ==
  ASSUME IInv, SerialInv, NEW c \in CompletedHandlers \cup Clients, HandleRelease(c)
  PROVE  SerialInv'
<1> DEFINE h == calls[c]
<1>1. c \in Calls
  BY DEF Calls, Handlers
<1>2. /\ h \in Call /\ CallInv(c, h, rows, manual, dropped, doubled) /\ calls \in [Calls -> Call]
  BY <1>1, CallOf
<1>3. CASE Release(c)
  BY <1>3, ReleaseSerial
<1>4. CASE Lookup(c) \/ Load(c) \/ Select(c)
  <2>1. /\ rows' = rows /\ status' = status /\ manual' = manual
        /\ overlapped' = overlapped /\ h.pc \in {"lookup", "load", "select"}
    BY <1>4 DEF Lookup, Load, Select, history
  <2>2. Active(h) /\ (Serial' => Serial)
    BY <2>1 DEF Active, Resting, Serial
  <2>3. CASE Lookup(c)
    <3>1. CASE \E i \in OpenOf(h.turnaround, h.job) :
                 StartRelease(c, rows[i].unit)
      <4>1. PICK i : calls' = [calls EXCEPT ![c].pc = "load", ![c].unit = rows[i].unit]
        BY <3>1 DEF StartRelease
      <4> DEFINE H == [h EXCEPT !.pc = "load", !.unit = rows[i].unit]
      <4>2. H.pc = "load" /\ calls' = [calls EXCEPT ![c] = H]
        BY <1>1, <1>2, <4>1 DEF Call
      <4> HIDE DEF H
      <4>3. QED
        BY <1>1, <2>1, <2>2, <4>2, SerialPlain
    <3>2. CASE Goto(c, "ack")
      BY <1>1, <2>1, <3>2, SerialGoto DEF Pc
    <3>3. CASE Abort(c)
      BY <1>1, <2>1, <3>3, SerialAbort
    <3>4. QED
      BY <2>3, <3>1, <3>2, <3>3 DEF Lookup
  <2>4. CASE Load(c)
    <3> DEFINE H == [h EXCEPT !.pc = "select", !.loaded = status[h.unit]]
    <3>1. /\ calls' = [calls EXCEPT ![c] = H] /\ H.pc = "select"
          /\ H.loaded = status[H.unit]
      BY <1>1, <1>2, <2>4 DEF Load, Call
    <3> HIDE DEF H
    <3>2. Current(H)
      BY <3>1 DEF Current
    <3>3. QED
      BY <1>1, <2>1, <2>2, <3>1, <3>2, SerialReads
  <2>5. CASE Select(c)
    <3>1. h.pc = "select"
      BY <2>5 DEF Select
    <3>2. CASE \E i \in OpenOn(h.unit) :
                 calls' = [calls EXCEPT ![c].pc = "release", ![c].row = i]
      <4>1. PICK i \in OpenOn(h.unit) :
                   calls' = [calls EXCEPT ![c].pc = "release", ![c].row = i]
        BY <3>2
      <4>2. i \in Nat
        BY DEF OpenOn, IInv, TypeOK
      <4> DEFINE H == [h EXCEPT !.pc = "release", !.row = i]
      <4>3. /\ H.pc = "release" /\ H.row = i /\ H.unit = h.unit
            /\ H.loaded = h.loaded
            /\ calls' = [calls EXCEPT ![c] = H]
        BY <1>1, <1>2, <4>1, <4>2 DEF Call
      <4> HIDE DEF H
      <4>4. Serial => Current(h)
        BY <1>1 DEF SerialInv
      <4>5. Serial => Current(H)
        BY <3>1, <4>3, <4>4 DEF Current
      <4>6. QED
        BY <1>1, <2>1, <2>2, <4>3, <4>5, SerialReads
    <3>3. CASE Goto(c, Over(c))
      <4>1. Over(c) \in {"ack", "done"}
        BY DEF Over
      <4>2. QED
        BY <1>1, <2>1, <3>3, <4>1, SerialGoto DEF Pc
    <3>4. CASE Abort(c)
      BY <1>1, <2>1, <3>4, SerialAbort
    <3>5. QED
      BY <2>5, <3>2, <3>3, <3>4 DEF Select
  <2>6. QED
    BY <1>4, <2>3, <2>4, <2>5
<1>5. QED
  BY <1>3, <1>4 DEF HandleRelease

LEMMA RequestSerial ==
  ASSUME IInv, SerialInv, NEW c \in Clients, Request(c)
  PROVE  SerialInv'
<1>1. c \in Calls
  BY DEF Calls
<1>2. ASSUME NEW u \in Units, RequestRelease(c, u)
      PROVE  SerialInv'
  <2> DEFINE H == [Fresh("load", None, 0) EXCEPT !.unit = u]
  <2>1. H.pc = "load" /\ Begin(c, H)
        /\ status' = status /\ rows' = rows /\ manual' = manual
    BY <1>2 DEF RequestRelease, Fresh
  <2> HIDE DEF H
  <2>2. Current(H)
    BY <2>1 DEF Current
  <2>3. QED
    BY <1>1, <2>1, <2>2, SerialBegin
<1>3. ASSUME NEW u \in Units, RequestPatch(c, u)
      PROVE  SerialInv'
  <2> DEFINE H == [Fresh("patch", None, 0) EXCEPT !.unit = u, !.loaded = status[u]]
  <2>1. H.pc = "patch" /\ Begin(c, H)
        /\ status' = status /\ rows' = rows /\ manual' = manual
    BY <1>3 DEF RequestPatch, Fresh
  <2> HIDE DEF H
  <2>2. Current(H)
    BY <2>1 DEF Current
  <2>3. QED
    BY <1>1, <2>1, <2>2, SerialBegin
<1>4. ASSUME NEW u \in Units, NEW t \in Turnarounds, NEW k \in Job,
             RequestAssign(c, u, t, k)
      PROVE  SerialInv'
  <2> DEFINE H == [Fresh("insert", t, k) EXCEPT
                     !.unit = u,
                     !.pc = IF status[u] = "available" THEN @ ELSE "done"]
  <2>1. /\ H.pc = (IF status[u] = "available" THEN "insert" ELSE "done")
        /\ H.unit = u /\ Begin(c, H)
        /\ status' = status /\ rows' = rows /\ manual' = manual
    BY <1>4 DEF RequestAssign, Fresh
  <2> HIDE DEF H
  <2>2. Current(H)
    BY <2>1 DEF Current
  <2>3. QED
    BY <1>1, <2>1, <2>2, SerialBegin
<1>5. ASSUME NEW s \in PatchStatuses, CommitPatch(c, s)
      PROVE  SerialInv'
  BY <1>5 DEF CommitPatch, SerialInv, Serial
<1>6. QED
  BY <1>2, <1>3, <1>4, <1>5, CommitAssignSerial DEF Request

\* The handler of a message runs on as one left behind: where one call was at work, one
\* is at work.
LEMMA LossSerial ==
  ASSUME IInv, SerialInv, ConnectionLoss
  PROVE  SerialInv'
<1>1. /\ rows' = rows /\ status' = status /\ manual' = manual
      /\ overlapped' = overlapped
  BY DEF ConnectionLoss
<1>2. PICK delivered \in SUBSET Messages :
        /\ \A m \in delivered :
             /\ calls'[m] = Fresh("queued", m.turnaround, m.job)
             /\ calls'[Left(m, faults')] = calls[m]
        /\ \A c \in Calls : \/ c \in delivered
                            \/ \E m \in delivered : c = Left(m, faults')
                            \/ calls'[c] = calls[c]
  BY ConnectionLossMoves
<1>3. ASSUME NEW m \in delivered
      PROVE  /\ ~Active(calls'[m]) /\ calls'[m].pc = "queued"
             /\ m \in Calls
  <2>1. calls'[m] = Fresh("queued", m.turnaround, m.job)
    BY <1>2
  <2>2. calls'[m].pc = "queued"
    BY <2>1 DEF Fresh
  <2>3. QED
    BY <2>2, Sorts DEF Active, Resting
<1>4. ASSUME NEW c \in Calls, Active(calls'[c])
      PROVE  \/ Active(calls[c]) /\ c \notin delivered /\ calls'[c] = calls[c]
             \/ \E m \in delivered : /\ c = Left(m, faults') /\ Active(calls[m])
                                     /\ calls'[c] = calls[m]
  BY <1>2, <1>3, <1>4
<1>5. SUFFICES ASSUME Serial'
               PROVE  /\ \A d, e \in Calls :
                           Active(calls'[d]) /\ Active(calls'[e]) => d = e
                      /\ \A d \in Calls : Current(calls[d])'
                      /\ OneHolder'
  BY DEF SerialInv, Active
<1>6. /\ \A d, e \in Calls : Active(calls[d]) /\ Active(calls[e]) => d = e
      /\ \A d \in Calls : Current(calls[d])
      /\ OneHolder
  BY <1>1, <1>5 DEF SerialInv, Serial
<1>7. \A d, e \in Calls : Active(calls'[d]) /\ Active(calls'[e]) => d = e
  BY <1>3, <1>4, <1>6
<1>8. ASSUME NEW d \in Calls
      PROVE  Current(calls[d])'
  <2>1. CASE Active(calls'[d])
    <3>1. PICK e \in Calls : calls'[d] = calls[e]
      BY <1>3, <1>4, <2>1
    <3>2. Current(calls[e])
      BY <1>6
    <3>3. QED
      BY <1>1, <3>1, <3>2 DEF Current, OpenOn
  <2>2. CASE ~Active(calls'[d])
    <3>1. calls'[d].pc \notin {"assign", "insert", "select", "release"}
      BY <2>2 DEF Active, Resting
    <3>2. QED
      BY <3>1 DEF Current
  <2>3. QED
    BY <2>1, <2>2
<1>9. OneHolder'
  BY <1>1, <1>6 DEF OneHolder, OpenOn
<1>10. QED
  BY <1>7, <1>8, <1>9

LEMMA NextSerial == IInv /\ SerialInv /\ [Next]_vars => SerialInv'
<1> SUFFICES ASSUME IInv, SerialInv, [Next]_vars PROVE SerialInv'
  OBVIOUS
<1> USE DEF history
<1>1. /\ Handlers \subseteq Calls /\ Clients \subseteq Calls
      /\ StartedHandlers \subseteq Handlers /\ CompletedHandlers \subseteq Handlers
  BY DEF Calls, Handlers
<1>2. ASSUME NEW c \in Handlers, Publish(c)
      PROVE  SerialInv'
  <2>1. c \in Calls /\ Goto(c, "queued")
    BY <1>1, <1>2 DEF Publish
  <2>2. /\ rows' = rows /\ status' = status /\ manual' = manual
        /\ overlapped' = overlapped
    BY <1>2 DEF Publish
  <2>3. QED
    BY <2>1, <2>2, SerialGoto DEF Pc
<1>3. CASE \E t \in Turnarounds : PublishStarted(t)
  BY <1>2, <1>3, Sorts DEF PublishStarted, Messages, StartedMessages
<1>4. CASE \E t \in Turnarounds, k \in Job, n \in Copy : PublishCompleted(t, k, n)
  BY <1>2, <1>4, Sorts DEF PublishCompleted, Messages, CompletedMessages
<1>5. ASSUME NEW c \in Handlers, BeginHandler(c) \/ Ack(c)
      PROVE  SerialInv'
  <2>1. CASE BeginHandler(c)
    <3> DEFINE H == IF c.kind = "started"
                    THEN Fresh("check", c.turnaround, 1)
                    ELSE Fresh("lookup", c.turnaround, c.job)
    <3>1. /\ Begin(c, H) /\ rows' = rows /\ status' = status
          /\ manual' = manual
      BY <2>1 DEF BeginHandler
    <3>2. H.pc \in {"check", "lookup"}
      BY DEF Fresh
    <3> HIDE DEF H
    <3>3. Current(H)
      BY <3>2 DEF Current
    <3>4. QED
      BY <1>1, <3>1, <3>3, SerialBegin
  <2>2. CASE Ack(c)
    <3> DEFINE H == Fresh(IF c \in Messages THEN "acked" ELSE "absent",
                          c.turnaround, c.job)
    <3>1. /\ calls' = [calls EXCEPT ![c] = H] /\ rows' = rows /\ status' = status
          /\ manual' = manual /\ overlapped' = overlapped
      BY <2>2 DEF Ack
    <3>2. H.pc \in {"acked", "absent"}
      BY DEF Fresh
    <3> HIDE DEF H
    <3>3. ~Active(H) /\ (Serial' => Serial)
      BY <3>1, <3>2 DEF Active, Resting, Serial
    <3>4. QED
      BY <1>1, <3>1, <3>2, <3>3, SerialPlain
  <2>3. QED
    BY <1>5, <2>1, <2>2
<1>6. ASSUME NEW c \in Handlers, CrewHalfFails(c)
      PROVE  SerialInv'
  BY <1>1, <1>6, SerialAbort DEF CrewHalfFails
<1>7. ASSUME NEW c \in Calls, SqlError(c)
      PROVE  SerialInv'
  BY <1>7, SerialAbort DEF SqlError
<1>8. CASE Restart
  <2>1. /\ rows' = rows /\ status' = status /\ manual' = manual
        /\ overlapped' = overlapped
    BY <1>8 DEF Restart
  <2>2. \A d \in Calls : Resting(calls'[d].pc)
    BY <1>8 DEF Restart, Fresh, Resting
  <2>3. \A d \in Calls : ~Active(calls'[d]) /\ Current(calls[d])'
    BY <2>2 DEF Active, Current, Resting
  <2>4. Serial' => OneHolder'
    BY <2>1 DEF SerialInv, Serial, OneHolder, OpenOn
  <2>5. QED
    BY <2>3, <2>4 DEF SerialInv, Active
<1>9. CASE ConnectionLoss
  BY <1>9, LossSerial
<1>10. CASE UNCHANGED vars
  BY <1>10 DEF vars, SerialInv, Serial, Current, OneHolder, OpenOn
<1>11. QED
  BY <1>2, <1>3, <1>4, <1>5, <1>6, <1>7, <1>8, <1>9, <1>10, StartedSerial, ReleasingSerial,
     RequestSerial DEF Next

LEMMA SerialIsOne == SerialInv => ConsistentWhenSerial
<1>1. SUFFICES ASSUME SerialInv, Serial, NEW u \in Units
               PROVE  /\ Cardinality(OpenOn(u)) <= 1
                      /\ status[u] = "in_use" <=> OpenOn(u) # {}
  BY DEF ConsistentWhenSerial, Serial
<1>2. OneHolder
  BY <1>1 DEF SerialInv
<1>3. Cardinality(OpenOn(u)) <= 1
  <2>1. CASE OpenOn(u) = {}
    BY <2>1, FS_EmptySet
  <2>2. CASE OpenOn(u) # {}
    <3>1. \E i : OpenOn(u) = {i}
      BY <1>2, <2>2 DEF OneHolder
    <3>2. QED
      BY <3>1, FS_Singleton
  <2>3. QED
    BY <2>1, <2>2
<1>4. QED
  BY <1>2, <1>3 DEF OneHolder

LEMMA Invariance == Spec => []IInv
BY InitInv, NextInv, PTL DEF Spec

\* Table, calls and events keep their types: handlers and requests act only on units
\* and rows that exist.
THEOREM TypesAreKept == Spec => []TypeOK
<1>1. IInv => TypeOK
  BY DEF IInv
<1>2. QED
  BY <1>1, Invariance, PTL

\* However often restarts and exceptions have turnaround.started handled anew, no second
\* unit is assigned to a task (the check of auto_assign_equipment), as long as no
\* connection loss leaves a second handler of the message and no client assigns by hand.
THEOREM RedeliveryAssignsNothingTwice == Spec => []AtMostOneOpenPerTask
<1>1. IInv => AtMostOneOpenPerTask
  BY DEF IInv
<1>2. QED
  BY <1>1, Invariance, PTL

\* What equipment.assigned says was assigned has a row in the table, although the
\* events are published behind the loop.
THEOREM EventsAreTrue == Spec => []AssignedEventsAreTrue
<1>1. IInv => AssignedEventsAreTrue
  BY DEF IInv
<1>2. QED
  BY <1>1, Invariance, PTL

\* release_equipment, told the unit alone, closes the assignment of a task that was
\* completed, also when turnarounds share the unit and the completion is published,
\* delivered and handled more than once; only on a unit that two completions of one
\* task were releasing at a time is nothing promised.
THEOREM ReleasesOwnAssignment == Spec => []OnlyOwnAssignmentReleased
<1>1. IInv => OnlyOwnAssignmentReleased
  BY DEF IInv
<1>2. QED
  BY <1>1, Invariance, PTL

\* No order of handlers, restarts, connection losses and exceptions leaves a unit in_use
\* that no assignment holds, although a session releases with the status it once loaded;
\* only a unit that two completions of one task were releasing at a time may be lost.
THEOREM HandlersLoseNoUnit == Spec => []NoUnitLostByHandlers
<1>1. Init => Guarded /\ NoUnitLostByHandlers
  BY InitGuarded
<1>2. IInv /\ Guarded /\ NoUnitLostByHandlers /\ [Next]_vars
      => Guarded' /\ NoUnitLostByHandlers'
  BY NextGuarded
<1>3. QED
  BY <1>1, <1>2, Invariance, PTL DEF Spec

\* While calls run one after the other, with restarts, connection losses and exceptions,
\* each unit is in_use exactly when one assignment holds it: assign and release read, check and
\* write consistently, and only their races break the books.
THEOREM SerialIsConsistent == Spec => []ConsistentWhenSerial
<1>1. Init => SerialInv
  BY InitSerial
<1>2. IInv /\ SerialInv /\ [Next]_vars => SerialInv'
  BY NextSerial
<1>3. SerialInv => ConsistentWhenSerial
  BY SerialIsOne
<1>4. QED
  BY <1>1, <1>2, <1>3, Invariance, PTL DEF Spec

=============================================================================
