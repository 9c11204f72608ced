------------------------- MODULE CrewDispatchProofs -------------------------
(***************************************************************************)
(* What holds of CrewDispatch for any turnarounds, jobs, crew members and  *)
(* number of coroutines.  The inductive invariant IInv says what a         *)
(* coroutine's local state is worth while others run: what it has          *)
(* committed is in the table, and, as long as no connection loss hands its *)
(* message to a second coroutine, what it has checked stays as it was.     *)
(* HandledInv says what a handler has answered and freed so far, and       *)
(* OnceInv what becomes of the rows of tasks that were completed.          *)
(***************************************************************************)
EXTENDS CrewDispatch, FiniteSetTheorems, SequenceTheorems, TLAPS

Working(h) == h.pc # "idle"

\* The local variables a coroutine uses at its pc are set.
Equipped(h) ==
  Working(h) =>
    /\ h.msg \in Message
    /\ h.job \in Job
    /\ h.pc \in {"check", "find", "insert", "publish"} => h.msg.kind = "started"
    /\ h.pc = "insert" => h.found \in Crew

\* Every assignment the coroutine is going to report has a row.
Backed(h, R) ==
  Working(h) =>
    \A r \in h.results :
      r.crew # None => \E row \in R : /\ row.turnaround = h.msg.turnaround
                                      /\ row.job = r.job
                                      /\ row.crew = r.crew

\* The coroutine's message is among those the broker waits for.
Held(h, U) == Working(h) => h.msg \in U

\* What the coroutine has read of the table still holds: its task has no open
\* row, and the crew member it found has none in this turnaround.
Unbooked(h, R) ==
  /\ h.pc \in {"find", "insert"} =>
       \A row \in R : ~ /\ row.status = "assigned"
                        /\ row.turnaround = h.msg.turnaround
                        /\ row.job = h.job
  /\ h.pc = "insert" =>
       \A row \in R : ~ /\ row.status = "assigned"
                        /\ row.turnaround = h.msg.turnaround
                        /\ row.crew = h.found

SlotInv(h, R, U, clean) ==
  /\ Equipped(h)
  /\ Backed(h, R)
  /\ clean => Held(h, U) /\ Unbooked(h, R)

\* No two coroutines handle the same message.
OneEach(hs) ==
  \A s, u \in Slots : s # u /\ Working(hs[s]) /\ Working(hs[u]) =>
    hs[s].msg # hs[u].msg

SlotsInv == \A s \in Slots : SlotInv(handlers[s], rows, unacked, drops = 0)

OneEachInv == drops = 0 => OneEach(handlers)

IInv ==
  /\ TypeOK
  /\ IsFiniteSet(rows)
  /\ SlotsInv
  /\ OneEachInv
  /\ AtMostOneOpenPerTask
  /\ NoDoubleBookingWithinTurnaround
  /\ AssignedEventsAreTrue

----------------------------------------------------------------------------

\* A started message is determined by its turnaround.
LEMMA StartedUnique ==
  ASSUME NEW m \in Message, NEW n \in Message,
         m.kind = "started", n.kind = "started", m.turnaround = n.turnaround
  PROVE  m = n
BY DEF Message, Started, Completed

\* A message names a turnaround.
LEMMA MessageType ==
  ASSUME NEW m \in Message
  PROVE  m.turnaround \in Turnarounds
BY DEF Message, Started, Completed

\* Removing an element leaves a sequence over the same set.
LEMMA RemoveAtType ==
  ASSUME NEW S, NEW q \in Seq(S), NEW i \in DOMAIN q
  PROVE  RemoveAt(q, i) \in Seq(S)
<1>1. i \in 1 .. Len(q) /\ Len(q) \in Nat
  OBVIOUS
<1>2. \A j \in 1 .. i - 1 : q[j] \in S
  BY <1>1, ElementOfSeq
<1>3. \A j \in i + 1 .. Len(q) : q[j] \in S
  BY <1>1, ElementOfSeq
<1>4. SubSeq(q, 1, i - 1) \in Seq(S)
  BY <1>1, <1>2, SubSeqProperties
<1>5. SubSeq(q, i + 1, Len(q)) \in Seq(S)
  BY <1>1, <1>3, SubSeqProperties
<1>6. QED
  BY <1>4, <1>5, ConcatProperties DEF RemoveAt

\* A slot that does not move keeps its part of the invariant when the table
\* keeps its rows, opens none the slot relies on, and its message stays unacked.
LEMMA SlotKept ==
  ASSUME NEW h, NEW R, NEW R2, NEW U, NEW U2,
         NEW clean \in BOOLEAN, NEW clean2 \in BOOLEAN,
         SlotInv(h, R, U, clean),
         clean2 => clean,
         \A row \in R : \E new \in R2 : /\ new.turnaround = row.turnaround
                                        /\ new.job = row.job
                                        /\ new.crew = row.crew,
         clean2 /\ h.pc \in {"find", "insert"} =>
           \A new \in R2 : /\ new.status = "assigned"
                           /\ new.turnaround = h.msg.turnaround
                           => new \in R,
         clean2 /\ Working(h) /\ h.msg \in U => h.msg \in U2
  PROVE  SlotInv(h, R2, U2, clean2)
<1>1. Equipped(h)
  BY DEF SlotInv
<1>2. Backed(h, R2)
  <2>1. SUFFICES ASSUME Working(h), NEW r \in h.results, r.crew # None
                 PROVE  \E new \in R2 : /\ new.turnaround = h.msg.turnaround
                                        /\ new.job = r.job
                                        /\ new.crew = r.crew
    BY DEF Backed
  <2>2. PICK row \in R : /\ row.turnaround = h.msg.turnaround
                         /\ row.job = r.job
                         /\ row.crew = r.crew
    BY <2>1 DEF SlotInv, Backed
  <2>3. PICK new \in R2 : /\ new.turnaround = row.turnaround
                          /\ new.job = row.job
                          /\ new.crew = row.crew
    OBVIOUS
  <2>4. QED
    BY <2>2, <2>3
<1>3. clean2 => Held(h, U2)
  BY DEF SlotInv, Held
<1>4. clean2 => Unbooked(h, R2)
  BY DEF SlotInv, Unbooked
<1>5. QED
  BY <1>1, <1>2, <1>3, <1>4 DEF SlotInv

LEMMA InitInv == Init => IInv
<1> SUFFICES ASSUME Init PROVE IInv
  OBVIOUS
<1> USE DEF Init
<1>1. Idle \in Handler
  BY DispatchAssumption DEF Idle, Handler, Result, Job
<1>2. TypeOK
  BY <1>1, EmptySeq DEF TypeOK
<1>3. IsFiniteSet(rows)
  BY FS_EmptySet
<1>4. \A s \in Slots : ~Working(handlers[s]) /\ handlers[s].pc = "idle"
  BY DEF Working, Idle
<1>5. SlotsInv
  BY <1>4 DEF SlotsInv, SlotInv, Equipped, Backed, Held, Unbooked
<1>6. OneEachInv
  BY <1>4 DEF OneEachInv, OneEach
<1>7. AtMostOneOpenPerTask /\ NoDoubleBookingWithinTurnaround /\ AssignedEventsAreTrue
  BY DEF AtMostOneOpenPerTask, NoDoubleBookingWithinTurnaround, AssignedEventsAreTrue
<1>8. QED
  BY <1>2, <1>3, <1>5, <1>6, <1>7 DEF IInv

----------------------------------------------------------------------------

\* One slot moves to H, whatever it does to the table and the queue, and the
\* others keep their part of the invariant.
LEMMA SlotMoves ==
  ASSUME NEW s \in Slots, NEW H \in Handler,
         TypeOK, SlotsInv, OneEachInv,
         handlers' = [handlers EXCEPT ![s] = H],
         drops' = drops,
         SlotInv(H, rows', unacked', drops = 0),
         \A row \in rows : \E new \in rows' : /\ new.turnaround = row.turnaround
                                              /\ new.job = row.job
                                              /\ new.crew = row.crew,
         \A u \in Slots \ {s} :
           drops = 0 /\ handlers[u].pc \in {"find", "insert"} =>
             \A new \in rows' : /\ new.status = "assigned"
                                /\ new.turnaround = handlers[u].msg.turnaround
                                => new \in rows,
         \A u \in Slots \ {s} :
           drops = 0 /\ Working(handlers[u]) =>
             /\ handlers[u].msg \in unacked'
             /\ Working(H) => H.msg # handlers[u].msg
  PROVE  /\ handlers' \in [Slots -> Handler]
         /\ SlotsInv'
         /\ OneEachInv'
<1>1. handlers \in [Slots -> Handler]
  BY DEF TypeOK
<1>2. handlers'[s] = H /\ \A u \in Slots \ {s} : handlers'[u] = handlers[u]
  BY <1>1
<1>3. handlers' \in [Slots -> Handler]
  BY <1>1
<1>4. \A u \in Slots : SlotInv(handlers'[u], rows', unacked', drops' = 0)
  <2>1. SlotInv(handlers'[s], rows', unacked', drops' = 0)
    BY <1>2
  <2>2. ASSUME NEW u \in Slots \ {s}
        PROVE  SlotInv(handlers'[u], rows', unacked', drops' = 0)
    <3>1. SlotInv(handlers[u], rows, unacked, drops = 0)
      BY DEF SlotsInv
    <3>2. SlotInv(handlers[u], rows', unacked', drops = 0)
      BY <3>1, SlotKept
    <3>3. QED
      BY <3>2, <1>2
  <2>3. QED
    BY <2>1, <2>2
<1>5. drops' = 0 => OneEach(handlers')
  BY <1>2 DEF OneEachInv, OneEach
<1>6. QED
  BY <1>3, <1>4, <1>5 DEF SlotsInv, OneEachInv

\* The same, for a step that touches neither the table nor the queue.
LEMMA LocalStep ==
  ASSUME NEW s \in Slots, NEW H \in Handler, IInv,
         Working(handlers[s]), H.msg = handlers[s].msg,
         handlers' = [handlers EXCEPT ![s] = H],
         rows' = rows, unacked' = unacked, drops' = drops,
         SlotInv(H, rows, unacked, drops = 0)
  PROVE  /\ handlers' \in [Slots -> Handler]
         /\ SlotsInv'
         /\ OneEachInv'
<1>1. TypeOK /\ SlotsInv /\ OneEachInv
  BY DEF IInv
<1>2. ASSUME NEW u \in Slots \ {s}, drops = 0, Working(handlers[u])
      PROVE  /\ handlers[u].msg \in unacked'
             /\ H.msg # handlers[u].msg
  BY <1>1, <1>2 DEF SlotsInv, SlotInv, Held, OneEachInv, OneEach
<1>3. SlotInv(H, rows', unacked', drops = 0)
  OBVIOUS
<1>4. QED
  BY <1>1, <1>2, <1>3, SlotMoves

\* The table's properties depend on the table alone.
LEMMA TableKept ==
  ASSUME IInv, rows' = rows, drops' = drops
  PROVE  /\ IsFiniteSet(rows)'
         /\ AtMostOneOpenPerTask'
         /\ NoDoubleBookingWithinTurnaround'
BY DEF IInv, AtMostOneOpenPerTask, NoDoubleBookingWithinTurnaround

\* What the events say stays true as long as no row disappears.
LEMMA EventsKept ==
  ASSUME IInv, sent' = sent,
         \A row \in rows : \E new \in rows' : /\ new.turnaround = row.turnaround
                                              /\ new.job = row.job
                                              /\ new.crew = row.crew
  PROVE  AssignedEventsAreTrue'
<1>1. SUFFICES ASSUME NEW e \in sent, e.crew # None
               PROVE  \E new \in rows' : /\ new.turnaround = e.turnaround
                                         /\ new.job = e.job
                                         /\ new.crew = e.crew
  BY DEF AssignedEventsAreTrue
<1>2. PICK row \in rows : /\ row.turnaround = e.turnaround
                          /\ row.job = e.job
                          /\ row.crew = e.crew
  BY <1>1 DEF IInv, AssignedEventsAreTrue
<1>3. QED
  BY <1>2

\* Going on with the loop keeps the message and reports what the results say.
LEMMA AdvanceType ==
  ASSUME NEW h \in Handler, NEW results \in SUBSET Result,
         Working(h), Equipped(h), h.msg.kind = "started"
  PROVE  /\ Advance(h, results) \in Handler
         /\ Advance(h, results).msg = h.msg
         /\ Advance(h, results).results = results
         /\ Advance(h, results).pc \in {"check", "publish", "ack"}
         /\ Equipped(Advance(h, results))
<1>1. h.job \in Job /\ h.msg \in Message /\ Jobs \in Nat
  BY DispatchAssumption DEF Equipped
<1>2. CASE h.job < Jobs
  <2> DEFINE H == [h EXCEPT !.pc = "check", !.job = @ + 1, !.found = None,
                            !.results = results]
  <2>1. Advance(h, results) = H
    BY <1>2 DEF Advance
  <2>2. h.job + 1 \in Job /\ h.job + 1 \in 0 .. Jobs
    BY <1>1, <1>2 DEF Job
  <2>3. /\ H \in Handler /\ H.msg = h.msg /\ H.results = results
        /\ H.pc = "check" /\ H.job = h.job + 1
    BY <2>2 DEF Handler
  <2> HIDE DEF H
  <2>4. Equipped(H)
    BY <1>1, <2>2, <2>3 DEF Equipped
  <2>5. QED
    BY <2>1, <2>3, <2>4
<1>3. CASE ~(h.job < Jobs)
  <2> DEFINE H == [h EXCEPT !.pc = IF results = {} THEN "ack" ELSE "publish",
                            !.found = None, !.results = results]
  <2>1. Advance(h, results) = H
    BY <1>3 DEF Advance
  <2>2. /\ H \in Handler /\ H.msg = h.msg /\ H.results = results
        /\ H.pc \in {"ack", "publish"} /\ H.job = h.job
    BY DEF Handler
  <2> HIDE DEF H
  <2>3. Equipped(H)
    BY <1>1, <2>2 DEF Equipped
  <2>4. QED
    BY <2>1, <2>2, <2>3
<1>4. QED
  BY <1>2, <1>3

\* An exception drops the results and keeps the message.
LEMMA AbortSlot ==
  ASSUME NEW s \in Slots, IInv, Working(handlers[s]), Abort(s),
         rows' = rows, unacked' = unacked, drops' = drops
  PROVE  /\ handlers' \in [Slots -> Handler]
         /\ SlotsInv'
         /\ OneEachInv'
         /\ aborted' \subseteq Message
<1> DEFINE h == handlers[s]
           H == [h EXCEPT !.pc = "ack", !.results = {}]
<1>1. h \in Handler /\ SlotInv(h, rows, unacked, drops = 0)
  BY DEF IInv, TypeOK, SlotsInv
<1>2. /\ H \in Handler /\ H.msg = h.msg /\ H.pc = "ack" /\ H.results = {}
      /\ H.job = h.job
  BY <1>1 DEF Handler
<1>3. handlers' = [handlers EXCEPT ![s] = H]
  BY DEF Abort
<1>4. h.msg \in Message /\ aborted' = aborted \cup {h.msg}
  BY <1>1 DEF SlotInv, Equipped, Abort
<1> HIDE DEF H
<1>5. SlotInv(H, rows, unacked, drops = 0)
  BY <1>1, <1>2 DEF SlotInv, Equipped, Backed, Held, Unbooked, Working
<1>6. handlers' \in [Slots -> Handler] /\ SlotsInv' /\ OneEachInv'
  BY <1>2, <1>3, <1>5, LocalStep
<1>7. QED
  BY <1>4, <1>6 DEF IInv, TypeOK

----------------------------------------------------------------------------

LEMMA PublishInv ==
  ASSUME IInv, NEW m \in Message, Publish(m)
  PROVE  IInv'
<1>1. /\ published' = published \cup {m} /\ queue' = Append(queue, m)
      /\ unacked' = unacked /\ handlers' = handlers /\ rows' = rows
      /\ sent' = sent /\ restarts' = restarts /\ drops' = drops
      /\ aborted' = aborted /\ overtaken' = overtaken
  BY DEF Publish, history
<1>2. queue' \in Seq(published')
  <2>1. queue \in Seq(published') /\ m \in published'
    BY <1>1, SeqMonotonic DEF IInv, TypeOK
  <2>2. QED
    BY <1>1, <2>1, AppendProperties
<1>3. TypeOK'
  BY <1>1, <1>2 DEF IInv, TypeOK
<1>4. SlotsInv' /\ OneEachInv'
  BY <1>1 DEF IInv, SlotsInv, OneEachInv
<1>5. AssignedEventsAreTrue'
  BY <1>1, EventsKept
<1>6. QED
  BY <1>1, <1>3, <1>4, <1>5, TableKept DEF IInv

LEMMA DeliverInv ==
  ASSUME IInv, NEW s \in Slots, Deliver(s)
  PROVE  IInv'
<1>1. PICK i \in DOMAIN queue :
        /\ queue[i] \notin unacked
        /\ unacked' = unacked \cup {queue[i]}
        /\ handlers' = [handlers EXCEPT ![s] =
             [Idle EXCEPT !.msg = queue[i], !.live = TRUE,
                          !.pc = IF queue[i].kind = "started" THEN "check" ELSE "free",
                          !.job = IF queue[i].kind = "started" THEN 1 ELSE queue[i].job]]
  BY DEF Deliver
<1> DEFINE m == queue[i]
           H == [Idle EXCEPT !.msg = m, !.live = TRUE,
                             !.pc = IF m.kind = "started" THEN "check" ELSE "free",
                             !.job = IF m.kind = "started" THEN 1 ELSE m.job]
<1>2. /\ published' = published /\ queue' = queue /\ rows' = rows /\ sent' = sent
      /\ restarts' = restarts /\ drops' = drops
      /\ aborted' = aborted /\ overtaken' = overtaken
  BY DEF Deliver, history
<1>3. m \in published /\ m \in Message
  BY ElementOfSeq DEF IInv, TypeOK
<1>4. 1 \in Job /\ 0 \in 0 .. Jobs /\ Job \subseteq 0 .. Jobs
  BY DispatchAssumption DEF Job
<1>5. m.kind \in {"started", "completed"} /\ (m.kind = "completed" => m.job \in Job)
  BY <1>3 DEF Message, Started, Completed
<1>6. /\ H \in Handler /\ H.msg = m /\ H.results = {} /\ H.job \in Job
      /\ m.kind = "started" => H.pc = "check"
      /\ m.kind = "completed" => H.pc = "free"
  BY <1>3, <1>4, <1>5 DEF Handler, Idle, Result
<1>7. m \in unacked' /\ unacked \subseteq unacked' /\ m \notin unacked
  BY <1>1
<1>8. handlers' = [handlers EXCEPT ![s] = H]
  BY <1>1
<1> HIDE DEF H, m
<1>9. SlotInv(H, rows', unacked', drops = 0)
  BY <1>3, <1>5, <1>6, <1>7 DEF SlotInv, Equipped, Backed, Held, Unbooked
<1>10. \A u \in Slots \ {s} :
         drops = 0 /\ Working(handlers[u]) =>
           /\ handlers[u].msg \in unacked'
           /\ Working(H) => H.msg # handlers[u].msg
  BY <1>6, <1>7 DEF IInv, SlotsInv, SlotInv, Held
<1>11. handlers' \in [Slots -> Handler] /\ SlotsInv' /\ OneEachInv'
  BY <1>2, <1>6, <1>8, <1>9, <1>10, SlotMoves DEF IInv
<1>12. TypeOK'
  BY <1>1, <1>2, <1>3, <1>11 DEF IInv, TypeOK, m
<1>13. AssignedEventsAreTrue'
  BY <1>2, EventsKept
<1>14. QED
  BY <1>2, <1>11, <1>12, <1>13, TableKept DEF IInv

LEMMA CheckInv ==
  ASSUME IInv, NEW s \in Slots, Check(s)
  PROVE  IInv'
<1> DEFINE h == handlers[s]
           open == OpenRows(h.msg.turnaround, h.job)
<1>1. /\ published' = published /\ queue' = queue /\ unacked' = unacked
      /\ rows' = rows /\ sent' = sent /\ restarts' = restarts
      /\ drops' = drops /\ overtaken' = overtaken
  BY DEF Check, broker
<1>2. h.pc = "check" /\ Working(h)
  BY DEF Check, Working
<1>3. h \in Handler /\ SlotInv(h, rows, unacked, drops = 0) /\ h.msg.kind = "started"
  BY <1>2 DEF IInv, TypeOK, SlotsInv, SlotInv, Equipped
<1>4. /\ handlers' \in [Slots -> Handler] /\ SlotsInv' /\ OneEachInv'
      /\ aborted' \subseteq Message
  <2>1. CASE open = {} /\ handlers' = [handlers EXCEPT ![s].pc = "find"]
                       /\ aborted' = aborted
    <3> DEFINE H == [h EXCEPT !.pc = "find"]
    <3>1. /\ H \in Handler /\ H.msg = h.msg /\ H.pc = "find" /\ H.job = h.job
          /\ H.results = h.results
      BY <1>3 DEF Handler
    <3>2. handlers' = [handlers EXCEPT ![s] = H]
      BY <2>1
    <3>3. \A row \in rows : ~ /\ row.status = "assigned"
                              /\ row.turnaround = h.msg.turnaround
                              /\ row.job = h.job
      BY <2>1 DEF OpenRows
    <3> HIDE DEF H
    <3>4. SlotInv(H, rows, unacked, drops = 0)
      BY <1>2, <1>3, <3>1, <3>3 DEF SlotInv, Equipped, Backed, Held, Unbooked, Working
    <3>5. QED
      BY <1>1, <1>2, <2>1, <3>1, <3>2, <3>4, LocalStep DEF IInv, TypeOK
  <2>2. CASE handlers' = [handlers EXCEPT ![s] = Advance(h, h.results)]
             /\ aborted' = aborted
    <3> DEFINE H == Advance(h, h.results)
    <3>1. h.results \in SUBSET Result
      BY <1>3 DEF Handler
    <3>2. /\ H \in Handler /\ H.msg = h.msg /\ H.results = h.results
          /\ H.pc \in {"check", "publish", "ack"} /\ Equipped(H)
      BY <1>2, <1>3, <3>1, AdvanceType DEF SlotInv
    <3> HIDE DEF H
    <3>3. SlotInv(H, rows, unacked, drops = 0)
      BY <1>2, <1>3, <3>2 DEF SlotInv, Backed, Held, Unbooked, Working
    <3>4. handlers' = [handlers EXCEPT ![s] = H]
      BY <2>2 DEF H
    <3>5. QED
      BY <1>1, <1>2, <2>2, <3>2, <3>3, <3>4, LocalStep DEF IInv, TypeOK
  <2>3. CASE Abort(s)
    BY <1>1, <1>2, <2>3, AbortSlot
  <2>4. QED
    BY <2>1, <2>2, <2>3 DEF Check
<1>5. TypeOK'
  BY <1>1, <1>4 DEF IInv, TypeOK
<1>6. AssignedEventsAreTrue'
  BY <1>1, EventsKept
<1>7. QED
  BY <1>1, <1>4, <1>5, <1>6, TableKept DEF IInv

LEMMA FindInv ==
  ASSUME IInv, NEW s \in Slots, Find(s)
  PROVE  IInv'
<1> DEFINE h == handlers[s]
<1>1. /\ published' = published /\ queue' = queue /\ unacked' = unacked
      /\ rows' = rows /\ sent' = sent /\ restarts' = restarts
      /\ drops' = drops /\ aborted' = aborted /\ overtaken' = overtaken
  BY DEF Find, broker, history
<1>2. h.pc = "find" /\ Working(h)
  BY DEF Find, Working
<1>3. /\ h \in Handler /\ SlotInv(h, rows, unacked, drops = 0)
      /\ h.msg.kind = "started" /\ h.job \in Job
  BY <1>2 DEF IInv, TypeOK, SlotsInv, SlotInv, Equipped
<1>4. handlers' \in [Slots -> Handler] /\ SlotsInv' /\ OneEachInv'
  <2>1. CASE handlers' = [handlers EXCEPT ![s] =
               Advance(h, h.results \cup {[job |-> h.job, crew |-> None]})]
    <3> DEFINE results == h.results \cup {[job |-> h.job, crew |-> None]}
               H == Advance(h, results)
    <3>1. results \in SUBSET Result
      BY <1>3 DEF Handler, Result
    <3>2. /\ H \in Handler /\ H.msg = h.msg /\ H.results = results
          /\ H.pc \in {"check", "publish", "ack"} /\ Equipped(H)
      BY <1>2, <1>3, <3>1, AdvanceType DEF SlotInv
    <3>3. handlers' = [handlers EXCEPT ![s] = H]
      BY <2>1
    <3> HIDE DEF H
    <3>4. SlotInv(H, rows, unacked, drops = 0)
      BY <1>2, <1>3, <3>2 DEF SlotInv, Backed, Held, Unbooked, Working
    <3>5. QED
      BY <1>1, <1>2, <3>2, <3>3, <3>4, LocalStep
  <2>2. ASSUME NEW c \in FirstByName(Available(h.job)),
               handlers' = [handlers EXCEPT ![s].pc = "insert", ![s].found = c]
        PROVE  handlers' \in [Slots -> Handler] /\ SlotsInv' /\ OneEachInv'
    <3> DEFINE H == [h EXCEPT !.pc = "insert", !.found = c]
    <3>1. c \in Crew /\ c \notin Busy
      BY <1>3, DispatchAssumption DEF FirstByName, Available
    <3>2. /\ H \in Handler /\ H.msg = h.msg /\ H.pc = "insert" /\ H.job = h.job
          /\ H.results = h.results /\ H.found = c
      BY <1>3, <3>1 DEF Handler
    <3>3. handlers' = [handlers EXCEPT ![s] = H]
      BY <2>2
    <3>4. \A row \in rows : ~(row.status = "assigned" /\ row.crew = c)
      BY <3>1 DEF Busy
    <3> HIDE DEF H
    <3>5. SlotInv(H, rows, unacked, drops = 0)
      BY <1>2, <1>3, <3>1, <3>2, <3>4
         DEF SlotInv, Equipped, Backed, Held, Unbooked, Working
    <3>6. QED
      BY <1>1, <1>2, <3>2, <3>3, <3>5, LocalStep
  <2>3. QED
    BY <2>1, <2>2 DEF Find
<1>5. TypeOK'
  BY <1>1, <1>4 DEF IInv, TypeOK
<1>6. AssignedEventsAreTrue'
  BY <1>1, EventsKept
<1>7. QED
  BY <1>1, <1>4, <1>5, <1>6, TableKept DEF IInv

\* The commit keeps what the check and the search established: no other
\* coroutine works on this turnaround while no connection was lost.
LEMMA CommitInv ==
  ASSUME IInv, NEW s \in Slots, CommitAssignment(handlers[s]),
         NEW H \in Handler, handlers' = [handlers EXCEPT ![s] = H],
         UNCHANGED <<broker, sent, restarts, drops, overtaken>>, aborted' \subseteq Message,
         H.msg = handlers[s].msg, H.pc \in {"check", "publish", "ack"}, Equipped(H),
         H.results \subseteq handlers[s].results
                              \cup {[job |-> handlers[s].job, crew |-> handlers[s].found]}
  PROVE  IInv'
<1> DEFINE h == handlers[s]
           row == [id |-> Cardinality(rows) + 1,
                   turnaround |-> h.msg.turnaround, job |-> h.job,
                   crew |-> h.found, status |-> "assigned"]
           results == h.results \cup {[job |-> h.job, crew |-> h.found]}
<1>1. /\ published' = published /\ queue' = queue /\ unacked' = unacked
      /\ sent' = sent /\ restarts' = restarts
      /\ drops' = drops /\ overtaken' = overtaken
      /\ rows' = rows \cup {row}
  BY DEF CommitAssignment, broker
<1>2. h.pc = "insert" /\ Working(h)
  BY DEF CommitAssignment, Working
<1>3. /\ h \in Handler /\ SlotInv(h, rows, unacked, drops = 0)
      /\ h.msg \in Message /\ h.msg.kind = "started" /\ h.job \in Job
      /\ h.found \in Crew
  BY <1>2 DEF IInv, TypeOK, SlotsInv, SlotInv, Equipped
<1>4. h.msg.turnaround \in Turnarounds
  BY <1>3, MessageType
<1>5. Cardinality(rows) + 1 \in Nat
  BY FS_CardinalityType DEF IInv
<1>6. /\ row \in Row /\ row.turnaround = h.msg.turnaround /\ row.job = h.job
      /\ row.crew = h.found /\ row.status = "assigned"
  BY <1>3, <1>4, <1>5 DEF Row
<1>8. H.msg = h.msg /\ H.pc \in {"check", "publish", "ack"} /\ Equipped(H)
  OBVIOUS
<1>9. \A r \in H.results : r \in h.results \/ (r.job = h.job /\ r.crew = h.found)
  OBVIOUS
<1> HIDE DEF row, results
<1>10. SlotInv(H, rows', unacked', drops = 0)
  <2>1. Backed(H, rows')
    BY <1>1, <1>2, <1>3, <1>6, <1>8, <1>9 DEF SlotInv, Backed
  <2>2. drops = 0 => Held(H, unacked') /\ Unbooked(H, rows')
    BY <1>1, <1>2, <1>3, <1>8 DEF SlotInv, Held, Unbooked, Working
  <2>3. QED
    BY <1>8, <2>1, <2>2 DEF SlotInv
<1>11. ASSUME NEW u \in Slots \ {s}, drops = 0, Working(handlers[u])
       PROVE  /\ handlers[u].msg \in unacked'
              /\ h.msg # handlers[u].msg
  BY <1>1, <1>2, <1>11 DEF IInv, SlotsInv, SlotInv, Held, OneEachInv, OneEach
<1>12. ASSUME NEW u \in Slots \ {s}, drops = 0,
              handlers[u].pc \in {"find", "insert"},
              NEW new \in rows', new.turnaround = handlers[u].msg.turnaround
       PROVE  new \in rows
  <2>1. Working(handlers[u])
    BY <1>12 DEF Working
  <2>2. handlers[u].msg \in Message /\ handlers[u].msg.kind = "started"
    BY <1>12, <2>1 DEF IInv, SlotsInv, SlotInv, Equipped
  <2>3. handlers[u].msg.turnaround # h.msg.turnaround
    BY <1>3, <1>11, <1>12, <2>1, <2>2, StartedUnique
  <2>4. QED
    BY <1>1, <1>6, <1>12, <2>3
<1>13. handlers' \in [Slots -> Handler] /\ SlotsInv' /\ OneEachInv'
  <2>1. \A x \in rows : \E new \in rows' : /\ new.turnaround = x.turnaround
                                           /\ new.job = x.job
                                           /\ new.crew = x.crew
    BY <1>1
  <2>2. \A u \in Slots \ {s} :
          drops = 0 /\ handlers[u].pc \in {"find", "insert"} =>
            \A new \in rows' : /\ new.status = "assigned"
                               /\ new.turnaround = handlers[u].msg.turnaround
                               => new \in rows
    BY <1>12
  <2>3. \A u \in Slots \ {s} :
          drops = 0 /\ Working(handlers[u]) =>
            /\ handlers[u].msg \in unacked'
            /\ Working(H) => H.msg # handlers[u].msg
    BY <1>8, <1>11
  <2>4. TypeOK /\ SlotsInv /\ OneEachInv
    BY DEF IInv
  <2>5. QED
    BY <1>1, <1>8, <1>10, <2>1, <2>2, <2>3, <2>4, SlotMoves
<1>14. TypeOK'
  BY <1>1, <1>6, <1>13 DEF IInv, TypeOK
<1>15. IsFiniteSet(rows)'
  BY <1>1, FS_AddElement DEF IInv
<1>16. AssignedEventsAreTrue'
  BY <1>1, EventsKept
<1>17. drops = 0 => Unbooked(h, rows)
  BY <1>3 DEF SlotInv
<1>18. AtMostOneOpenPerTask'
  <2>1. SUFFICES ASSUME drops = 0, NEW x \in rows', NEW y \in rows',
                        x.status = "assigned", y.status = "assigned",
                        x.turnaround = y.turnaround, x.job = y.job
                 PROVE  x = y
    BY <1>1 DEF AtMostOneOpenPerTask
  <2>2. \A z \in rows : ~ /\ z.status = "assigned"
                          /\ z.turnaround = row.turnaround
                          /\ z.job = row.job
    BY <1>2, <1>6, <1>17, <2>1 DEF Unbooked
  <2>3. QED
    BY <1>1, <2>1, <2>2 DEF IInv, AtMostOneOpenPerTask
<1>19. NoDoubleBookingWithinTurnaround'
  <2>1. SUFFICES ASSUME drops = 0, NEW x \in rows', NEW y \in rows',
                        x.status = "assigned", y.status = "assigned",
                        x.turnaround = y.turnaround, x.crew = y.crew
                 PROVE  x = y
    BY <1>1 DEF NoDoubleBookingWithinTurnaround
  <2>2. \A z \in rows : ~ /\ z.status = "assigned"
                          /\ z.turnaround = row.turnaround
                          /\ z.crew = row.crew
    BY <1>2, <1>6, <1>17, <2>1 DEF Unbooked
  <2>3. QED
    BY <1>1, <2>1, <2>2 DEF IInv, NoDoubleBookingWithinTurnaround
<1>20. QED
  BY <1>13, <1>14, <1>15, <1>16, <1>18, <1>19 DEF IInv

LEMMA InsertInv ==
  ASSUME IInv, NEW s \in Slots, Insert(s)
  PROVE  IInv'
<1>1. PICK h \in Handler : h = handlers[s] /\ SlotInv(h, rows, unacked, drops = 0)
  BY DEF IInv, TypeOK, SlotsInv
<1> DEFINE results == h.results \cup {[job |-> h.job, crew |-> h.found]}
<1>2. /\ CommitAssignment(h) /\ handlers' = [handlers EXCEPT ![s] = Advance(h, results)]
      /\ UNCHANGED <<broker, sent, restarts, drops, overtaken>> /\ aborted' = aborted
  BY <1>1 DEF Insert, history
<1>3. Working(h) /\ h.pc = "insert"
  BY <1>2 DEF CommitAssignment, Working
<1>4. Equipped(h) /\ h.msg.kind = "started" /\ h.job \in Job /\ h.found \in Crew
  BY <1>1, <1>3 DEF SlotInv, Equipped
<1>5. results \in SUBSET Result
  BY <1>4 DEF Handler, Result
<1> HIDE DEF results
<1>6. PICK H : H = Advance(h, results)
  OBVIOUS
<1>7. /\ H \in Handler /\ H.msg = h.msg /\ H.results = results
      /\ H.pc \in {"check", "publish", "ack"} /\ Equipped(H)
  BY <1>3, <1>4, <1>5, <1>6, AdvanceType
<1>8. QED
  BY <1>1, <1>2, <1>6, <1>7, CommitInv DEF IInv, TypeOK, results

\* An exception after the commit loses the results, not the row.
LEMMA InsertRefreshFailsInv ==
  ASSUME IInv, NEW s \in Slots, InsertRefreshFails(s)
  PROVE  IInv'
<1>1. PICK h \in Handler : h = handlers[s] /\ SlotInv(h, rows, unacked, drops = 0)
  BY DEF IInv, TypeOK, SlotsInv
<1> DEFINE H == [h EXCEPT !.pc = "ack", !.results = {}]
<1>2. /\ CommitAssignment(h) /\ handlers' = [handlers EXCEPT ![s] = H]
      /\ UNCHANGED <<broker, sent, restarts, drops, overtaken>>
      /\ aborted' = aborted \cup {h.msg}
  BY <1>1 DEF InsertRefreshFails, Abort
<1>3. Working(h) /\ h.pc = "insert"
  BY <1>2 DEF CommitAssignment, Working
<1>4. Equipped(h)
  BY <1>1 DEF SlotInv
<1>5. /\ H \in Handler /\ H.msg = h.msg /\ H.pc = "ack" /\ H.results = {}
      /\ H.job = h.job
  BY DEF Handler
<1> HIDE DEF H
<1>6. Equipped(H) /\ h.msg \in Message
  BY <1>3, <1>4, <1>5 DEF Equipped, Working
<1>7. aborted' \subseteq Message
  BY <1>2, <1>6 DEF IInv, TypeOK
<1>8. QED
  BY <1>1, <1>2, <1>5, <1>6, <1>7, CommitInv

LEMMA PublishResultInv ==
  ASSUME IInv, NEW s \in Slots, PublishResult(s)
  PROVE  IInv'
<1> DEFINE h == handlers[s]
<1>1. /\ published' = published /\ queue' = queue /\ unacked' = unacked
      /\ rows' = rows /\ restarts' = restarts
      /\ drops' = drops /\ aborted' = aborted /\ overtaken' = overtaken
  BY DEF PublishResult, broker, history
<1>2. h.pc = "publish" /\ Working(h)
  BY DEF PublishResult, Working
<1>3. /\ h \in Handler /\ SlotInv(h, rows, unacked, drops = 0)
      /\ h.msg \in Message /\ h.msg.kind = "started" /\ h.job \in Job
  BY <1>2 DEF IInv, TypeOK, SlotsInv, SlotInv, Equipped
<1>4. PICK r \in h.results :
        /\ sent' = sent \cup {[turnaround |-> h.msg.turnaround,
                               job |-> r.job, crew |-> r.crew]}
        /\ handlers' = [handlers EXCEPT
             ![s].results = @ \ {r},
             ![s].pc = IF h.results = {r} THEN "ack" ELSE @]
  BY DEF PublishResult
<1>5. r \in Result
  BY <1>3 DEF Handler
<1> DEFINE H == [h EXCEPT !.results = @ \ {r},
                          !.pc = IF h.results = {r} THEN "ack" ELSE @]
           e == [turnaround |-> h.msg.turnaround, job |-> r.job, crew |-> r.crew]
<1>6. /\ H \in Handler /\ H.msg = h.msg /\ H.pc \in {"publish", "ack"}
      /\ H.job = h.job /\ H.results \subseteq h.results
  BY <1>2, <1>3 DEF Handler
<1>7. handlers' = [handlers EXCEPT ![s] = H]
  BY <1>4
<1>8. e \in CrewEvent
  BY <1>3, <1>5, MessageType DEF CrewEvent, Result
<1>9. AssignedEventsAreTrue'
  <2>1. e.crew # None => \E row \in rows : /\ row.turnaround = e.turnaround
                                           /\ row.job = e.job
                                           /\ row.crew = e.crew
    BY <1>2, <1>3 DEF SlotInv, Backed
  <2>2. QED
    BY <1>1, <1>4, <2>1 DEF IInv, AssignedEventsAreTrue
<1> HIDE DEF H
<1>10. SlotInv(H, rows, unacked, drops = 0)
  BY <1>2, <1>3, <1>6 DEF SlotInv, Equipped, Backed, Held, Unbooked, Working
<1>11. handlers' \in [Slots -> Handler] /\ SlotsInv' /\ OneEachInv'
  BY <1>1, <1>2, <1>6, <1>7, <1>10, LocalStep
<1>12. TypeOK'
  BY <1>1, <1>4, <1>8, <1>11 DEF IInv, TypeOK
<1>13. QED
  BY <1>1, <1>9, <1>11, <1>12, TableKept DEF IInv

\* Freeing closes rows and opens none.
LEMMA FreeInv ==
  ASSUME IInv, NEW s \in Slots, Free(s)
  PROVE  IInv'
<1> DEFINE h == handlers[s]
           open == OpenRows(h.msg.turnaround, h.job)
           closed == {[x EXCEPT !.status = "completed"] : x \in open}
<1>1. /\ published' = published /\ queue' = queue /\ unacked' = unacked
      /\ sent' = sent /\ restarts' = restarts /\ drops' = drops
  BY DEF Free, broker
<1>2. h.pc = "free" /\ Working(h)
  BY DEF Free, Working
<1>3. /\ h \in Handler /\ SlotInv(h, rows, unacked, drops = 0)
      /\ h.msg \in Message /\ h.job \in Job
  BY <1>2 DEF IInv, TypeOK, SlotsInv, SlotInv, Equipped
<1>4. overtaken' \subseteq Turnarounds \X Job
  BY <1>3, MessageType DEF Free, IInv, TypeOK
<1>5. CASE /\ Cardinality(open) < 2
           /\ rows' = (rows \ open) \cup closed
           /\ handlers' = [handlers EXCEPT ![s].pc = "ack"]
           /\ aborted' = aborted
  <2> DEFINE H == [h EXCEPT !.pc = "ack"]
  <2>1. rows \subseteq Row /\ IsFiniteSet(rows) /\ open \subseteq rows
    BY DEF IInv, TypeOK, OpenRows
  <2>2. \A x \in Row : /\ [x EXCEPT !.status = "completed"] \in Row
                       /\ [x EXCEPT !.status = "completed"].status = "completed"
                       /\ [x EXCEPT !.status = "completed"].turnaround = x.turnaround
                       /\ [x EXCEPT !.status = "completed"].job = x.job
                       /\ [x EXCEPT !.status = "completed"].crew = x.crew
    BY DEF Row
  <2>3. closed \subseteq Row /\ \A x \in closed : x.status = "completed"
    <3>1. ASSUME NEW y \in closed
          PROVE  y \in Row /\ y.status = "completed"
      <4>1. PICK x \in open : y = [x EXCEPT !.status = "completed"]
        OBVIOUS
      <4>2. x \in Row
        BY <2>1
      <4>3. QED
        BY <2>2, <4>1, <4>2
    <3>2. QED
      BY <3>1
  <2>4. rows' \subseteq Row
    BY <1>5, <2>1, <2>3
  <2>5. \A x \in rows' : x.status = "assigned" => x \in rows
    BY <1>5, <2>3
  <2>6. \A x \in rows : \E new \in rows' : /\ new.turnaround = x.turnaround
                                           /\ new.job = x.job
                                           /\ new.crew = x.crew
    <3>1. ASSUME NEW x \in rows
          PROVE  \E new \in rows' : /\ new.turnaround = x.turnaround
                                    /\ new.job = x.job
                                    /\ new.crew = x.crew
      <4>1. CASE x \in open
        <5>1. [x EXCEPT !.status = "completed"] \in rows'
          BY <1>5, <4>1
        <5>2. QED
          BY <2>1, <2>2, <5>1
      <4>2. CASE x \notin open
        BY <1>5, <4>2
      <4>3. QED
        BY <4>1, <4>2
    <3>2. QED
      BY <3>1
  <2>7. IsFiniteSet(closed)
    <3>1. IsFiniteSet(open) /\ Cardinality(open) \in Nat
      BY <2>1, FS_Subset, FS_CardinalityType
    <3>2. CASE Cardinality(open) = 0
      <4>1. closed = {}
        BY <3>1, <3>2, FS_EmptySet
      <4>2. QED
        BY <4>1, FS_EmptySet
    <3>3. CASE Cardinality(open) = 1
      <4>1. PICK x : open = {x}
        BY <3>1, <3>3, FS_Singleton
      <4>2. closed = {[x EXCEPT !.status = "completed"]}
        BY <4>1
      <4>3. QED
        BY <4>2, FS_Singleton
    <3>4. QED
      BY <1>5, <3>1, <3>2, <3>3
  <2>8. IsFiniteSet(rows)'
    <3>1. IsFiniteSet(rows \ open)
      BY <2>1, FS_Difference
    <3>2. IsFiniteSet((rows \ open) \cup closed)
      BY <2>7, <3>1, FS_Union
    <3>3. QED
      BY <1>5, <3>2
  <2>9. /\ H \in Handler /\ H.msg = h.msg /\ H.pc = "ack"
        /\ H.job = h.job /\ H.results = h.results
    BY <1>3 DEF Handler
  <2>10. handlers' = [handlers EXCEPT ![s] = H]
    BY <1>5
  <2> HIDE DEF H, closed, open
  <2>11. SlotInv(H, rows, unacked, drops = 0)
    BY <1>2, <1>3, <2>9 DEF SlotInv, Equipped, Backed, Held, Unbooked, Working
  <2>12. SlotInv(H, rows', unacked', drops = 0)
    BY <1>1, <2>5, <2>6, <2>11, SlotKept
  <2>13. \A u \in Slots \ {s} :
           drops = 0 /\ Working(handlers[u]) =>
             /\ handlers[u].msg \in unacked'
             /\ Working(H) => H.msg # handlers[u].msg
    BY <1>1, <1>2, <2>9 DEF IInv, SlotsInv, SlotInv, Held, OneEachInv, OneEach
  <2>14. TypeOK /\ SlotsInv /\ OneEachInv
    BY DEF IInv
  <2>15. handlers' \in [Slots -> Handler] /\ SlotsInv' /\ OneEachInv'
    BY <1>1, <2>5, <2>6, <2>9, <2>10, <2>12, <2>13, <2>14, SlotMoves
  <2>16. TypeOK'
    BY <1>1, <1>4, <1>5, <2>4, <2>15 DEF IInv, TypeOK
  <2>17. AtMostOneOpenPerTask'
    BY <1>1, <2>5 DEF IInv, AtMostOneOpenPerTask
  <2>18. NoDoubleBookingWithinTurnaround'
    BY <1>1, <2>5 DEF IInv, NoDoubleBookingWithinTurnaround
  <2>19. AssignedEventsAreTrue'
    BY <1>1, <2>6, EventsKept
  <2>20. QED
    BY <2>8, <2>15, <2>16, <2>17, <2>18, <2>19 DEF IInv
<1>6. CASE Abort(s) /\ rows' = rows
  <2>1. /\ handlers' \in [Slots -> Handler] /\ SlotsInv' /\ OneEachInv'
        /\ aborted' \subseteq Message
    BY <1>1, <1>2, <1>6, AbortSlot
  <2>2. TypeOK'
    BY <1>1, <1>4, <1>6, <2>1 DEF IInv, TypeOK
  <2>3. AssignedEventsAreTrue'
    BY <1>1, <1>6, EventsKept
  <2>4. QED
    BY <1>1, <1>6, <2>1, <2>2, <2>3, TableKept DEF IInv
<1>7. QED
  BY <1>5, <1>6 DEF Free

LEMMA AckInv ==
  ASSUME IInv, NEW s \in Slots, Ack(s)
  PROVE  IInv'
<1> DEFINE h == handlers[s]
<1>1. /\ published' = published /\ rows' = rows /\ sent' = sent
      /\ restarts' = restarts /\ drops' = drops
      /\ aborted' = aborted /\ overtaken' = overtaken
      /\ handlers' = [handlers EXCEPT ![s] = Idle]
  BY DEF Ack, history
<1>2. h.pc = "ack" /\ Working(h)
  BY DEF Ack, Working
<1>3. queue' \in Seq(published) /\ unacked' \subseteq unacked
      /\ unacked \ {h.msg} \subseteq unacked'
  <2>1. CASE h.live
    <3>1. PICK i \in DOMAIN queue : queue' = RemoveAt(queue, i)
      BY <2>1 DEF Ack
    <3>2. queue' \in Seq(published)
      BY <3>1, RemoveAtType DEF IInv, TypeOK
    <3>3. unacked' = unacked \ {h.msg}
      BY <2>1 DEF Ack
    <3>4. QED
      BY <3>2, <3>3
  <2>2. CASE ~h.live
    <3>1. unacked' = unacked /\ queue' = queue
      BY <2>2 DEF Ack
    <3>2. QED
      BY <3>1 DEF IInv, TypeOK
  <2>3. QED
    BY <2>1, <2>2
<1>4. Idle \in Handler /\ Idle.pc = "idle"
  BY DispatchAssumption DEF Idle, Handler, Result, Job
<1>5. SlotInv(Idle, rows', unacked', drops = 0)
  BY <1>4 DEF SlotInv, Equipped, Backed, Held, Unbooked, Working
<1>6. \A u \in Slots \ {s} :
        drops = 0 /\ Working(handlers[u]) =>
          /\ handlers[u].msg \in unacked'
          /\ Working(Idle) => Idle.msg # handlers[u].msg
  BY <1>2, <1>3, <1>4 DEF IInv, SlotsInv, SlotInv, Held, OneEachInv, OneEach, Working
<1>7. TypeOK /\ SlotsInv /\ OneEachInv
  BY DEF IInv
<1>8. handlers' \in [Slots -> Handler] /\ SlotsInv' /\ OneEachInv'
  BY <1>1, <1>4, <1>5, <1>6, <1>7, SlotMoves
<1>9. TypeOK'
  BY <1>1, <1>3, <1>8 DEF IInv, TypeOK
<1>10. AssignedEventsAreTrue'
  BY <1>1, EventsKept
<1>11. QED
  BY <1>1, <1>8, <1>9, <1>10, TableKept DEF IInv

LEMMA SqlErrorInv ==
  ASSUME IInv, NEW s \in Slots, SqlError(s)
  PROVE  IInv'
<1>1. /\ published' = published /\ queue' = queue /\ unacked' = unacked
      /\ rows' = rows /\ sent' = sent /\ restarts' = restarts
      /\ drops' = drops /\ overtaken' = overtaken
  BY DEF SqlError, broker
<1>2. Working(handlers[s]) /\ Abort(s)
  BY DEF SqlError, Working
<1>3. /\ handlers' \in [Slots -> Handler] /\ SlotsInv' /\ OneEachInv'
      /\ aborted' \subseteq Message
  BY <1>1, <1>2, AbortSlot
<1>4. TypeOK'
  BY <1>1, <1>3 DEF IInv, TypeOK
<1>5. AssignedEventsAreTrue'
  BY <1>1, EventsKept
<1>6. QED
  BY <1>1, <1>3, <1>4, <1>5, TableKept DEF IInv

LEMMA RestartInv == IInv /\ Restart => IInv'
<1> SUFFICES ASSUME IInv, Restart PROVE IInv'
  OBVIOUS
<1>1. /\ published' = published /\ queue' = queue /\ rows' = rows
      /\ sent' = sent /\ restarts' = restarts + 1 /\ drops' = drops
      /\ aborted' = aborted /\ overtaken' = overtaken /\ unacked' = {}
      /\ handlers' = [s \in Slots |-> Idle]
  BY DEF Restart
<1>2. Idle \in Handler /\ Idle.pc = "idle" /\ ~Working(Idle)
  BY DispatchAssumption DEF Idle, Handler, Result, Job, Working
<1>3. SlotsInv' /\ OneEachInv'
  BY <1>1, <1>2 DEF SlotsInv, SlotInv, Equipped, Backed, Held, Unbooked,
                    OneEachInv, OneEach
<1>4. TypeOK'
  BY <1>1, <1>2 DEF IInv, TypeOK
<1>5. AssignedEventsAreTrue'
  BY <1>1, EventsKept
<1>6. QED
  BY <1>1, <1>3, <1>4, <1>5, TableKept DEF IInv

\* After a connection loss only what has been committed counts.
LEMMA ConnectionLossInv == IInv /\ ConnectionLoss => IInv'
<1> SUFFICES ASSUME IInv, ConnectionLoss PROVE IInv'
  OBVIOUS
<1>1. /\ published' = published /\ queue' = queue /\ rows' = rows
      /\ sent' = sent /\ restarts' = restarts /\ drops' = drops + 1
      /\ aborted' = aborted /\ overtaken' = overtaken /\ unacked' = {}
      /\ handlers' = [s \in Slots |-> [handlers[s] EXCEPT !.live = FALSE]]
  BY DEF ConnectionLoss
<1>2. drops \in Nat /\ drops' # 0
  BY <1>1 DEF IInv, TypeOK
<1>3. ASSUME NEW s \in Slots
      PROVE  /\ handlers'[s] \in Handler
             /\ handlers'[s].pc = handlers[s].pc
             /\ handlers'[s].msg = handlers[s].msg
             /\ handlers'[s].job = handlers[s].job
             /\ handlers'[s].found = handlers[s].found
             /\ handlers'[s].results = handlers[s].results
  BY <1>1 DEF IInv, TypeOK, Handler
<1>4. ASSUME NEW s \in Slots
      PROVE  SlotInv(handlers'[s], rows', unacked', drops' = 0)
  <2>1. SlotInv(handlers[s], rows, unacked, drops = 0)
    BY DEF IInv, SlotsInv
  <2>2. Equipped(handlers'[s]) /\ Backed(handlers'[s], rows')
    BY <1>1, <1>3, <2>1 DEF SlotInv, Equipped, Backed, Working
  <2>3. QED
    BY <1>2, <2>2 DEF SlotInv
<1>5. SlotsInv' /\ OneEachInv'
  BY <1>2, <1>4 DEF SlotsInv, OneEachInv
<1>6. TypeOK'
  BY <1>1, <1>2, <1>3 DEF IInv, TypeOK
<1>7. AssignedEventsAreTrue'
  BY <1>1, EventsKept
<1>8. AtMostOneOpenPerTask' /\ NoDoubleBookingWithinTurnaround'
  BY <1>2 DEF AtMostOneOpenPerTask, NoDoubleBookingWithinTurnaround
<1>9. QED
  BY <1>1, <1>5, <1>6, <1>7, <1>8 DEF IInv

----------------------------------------------------------------------------

LEMMA StepInv == IInv /\ [Next]_vars => IInv'
<1> SUFFICES ASSUME IInv, [Next]_vars PROVE IInv'
  OBVIOUS
<1>1. ASSUME NEW t \in Turnarounds, PublishStarted(t)
      PROVE  IInv'
  BY <1>1, PublishInv DEF PublishStarted, Message
<1>2. ASSUME NEW t \in Turnarounds, NEW k \in Job, NEW n \in Copy, PublishCompleted(t, k, n)
      PROVE  IInv'
  BY <1>2, PublishInv DEF PublishCompleted, Message
<1>3. ASSUME NEW s \in Slots, Deliver(s)
      PROVE  IInv'
  BY <1>3, DeliverInv
<1>4. ASSUME NEW s \in Slots, Handle(s)
      PROVE  IInv'
  BY <1>4, CheckInv, FindInv, InsertInv, PublishResultInv, FreeInv, AckInv DEF Handle
<1>5. ASSUME NEW s \in Slots, InsertRefreshFails(s) \/ SqlError(s)
      PROVE  IInv'
  BY <1>5, InsertRefreshFailsInv, SqlErrorInv
<1>6. CASE Restart
  BY <1>6, RestartInv
<1>7. CASE ConnectionLoss
  BY <1>7, ConnectionLossInv
<1>8. CASE UNCHANGED vars
  <2>1. /\ published' = published /\ queue' = queue /\ unacked' = unacked
        /\ handlers' = handlers /\ rows' = rows /\ sent' = sent
        /\ restarts' = restarts /\ drops' = drops
        /\ aborted' = aborted /\ overtaken' = overtaken
    BY <1>8 DEF vars
  <2>2. TypeOK' /\ SlotsInv' /\ OneEachInv'
    BY <2>1 DEF IInv, TypeOK, SlotsInv, OneEachInv
  <2>3. AssignedEventsAreTrue'
    BY <2>1, EventsKept
  <2>4. QED
    BY <2>1, <2>2, <2>3, TableKept DEF IInv
<1>9. QED
  BY <1>1, <1>2, <1>3, <1>4, <1>5, <1>6, <1>7, <1>8 DEF Next

----------------------------------------------------------------------------

InQueue(m) == \E i \in DOMAIN queue : queue[i] = m

\* A message is in the queue once, and for as long as it is unacked; a task completes
\* after its turnaround has started.
QueueInv ==
  /\ \A i, j \in DOMAIN queue : queue[i] = queue[j] => i = j
  /\ \A m \in unacked : InQueue(m)
  /\ \A t \in Turnarounds, k \in Job, n \in Copy :
       Completed(t, k, n) \in published => Started(t) \in published

\* What is left behind by a turnaround.started that was handled.
Answered(m) ==
  m.kind = "started" /\ m \notin aborted =>
    \A k \in Job : \E e \in sent : e.turnaround = m.turnaround /\ e.job = k

\* What is left behind by a task.completed that was handled: nobody inserts a row for
\* the task any more.
Freed(m) ==
  /\ m.kind = "completed" /\ m \notin aborted
  /\ <<m.turnaround, m.job>> \notin overtaken
  => /\ OpenRows(m.turnaround, m.job) = {}
     /\ Acked(Started(m.turnaround))

Settled(m) == Freed(m) /\ (restarts = 0 => Answered(m))

\* The tasks that a first delivery has passed have a result, or their event; those
\* that it has not passed have no row.
Covers(h) ==
  /\ h.pc \in {"check", "find", "insert"} =>
       /\ \A k \in Job : k < h.job => \E r \in h.results : r.job = k
       /\ \A row \in rows : row.turnaround = h.msg.turnaround => row.job < h.job
  /\ h.pc = "publish" =>
       \A k \in Job : \/ \E r \in h.results : r.job = k
                      \/ \E e \in sent : e.turnaround = h.msg.turnaround /\ e.job = k

Sound(h) ==
  /\ h.pc = "free" => h.msg.kind = "completed"
  /\ Working(h) /\ h.msg.kind = "completed" =>
       h.pc \in {"free", "ack"} /\ h.job = h.msg.job
  /\ drops = 0 /\ restarts = 0 => Covers(h)
  /\ drops = 0 /\ h.pc = "ack" => Settled(h.msg)

\* A turnaround has rows only once its turnaround.started was delivered.
UntouchedInv ==
  drops = 0 /\ restarts = 0 =>
    \A row \in rows : \/ Started(row.turnaround) \in unacked
                      \/ Acked(Started(row.turnaround))

HandledInv ==
  /\ QueueInv
  /\ UntouchedInv
  /\ \A s \in Slots : Sound(handlers[s])
  /\ drops = 0 => \A m \in Message : Acked(m) => Settled(m)

\* The two forms of a message.
LEMMA MessageForms ==
  ASSUME NEW m \in Message
  PROVE  /\ m.turnaround \in Turnarounds
         /\ \/ m.kind = "started" /\ m = Started(m.turnaround)
            \/ /\ m.kind = "completed" /\ m.job \in Job /\ m.copy \in Copy
               /\ m = Completed(m.turnaround, m.job, m.copy)
BY DEF Message, Started, Completed

LEMMA StartedForm ==
  ASSUME NEW t
  PROVE  Started(t).kind = "started" /\ Started(t).turnaround = t
BY DEF Started

\* A message that was settled stays so, as long as rows are opened only for
\* turnarounds whose turnaround.started is still to be acked.
LEMMA SettledKept ==
  ASSUME NEW m \in Message, Settled(m),
         restarts' = 0 => restarts = 0,
         sent \subseteq sent', aborted \subseteq aborted', overtaken \subseteq overtaken',
         \A n \in Message : Acked(n) => Acked(n)',
         \A new \in rows' : new.status = "assigned" =>
           new \in rows \/ ~Acked(Started(new.turnaround))
  PROVE  Settled(m)'
<1>1. Answered(m) => Answered(m)'
  BY DEF Answered
<1>2. Freed(m)'
  <2>1. SUFFICES ASSUME m.kind = "completed", m \notin aborted,
                        <<m.turnaround, m.job>> \notin overtaken
                 PROVE  OpenRows(m.turnaround, m.job)' = {} /\ Acked(Started(m.turnaround))'
    BY DEF Freed
  <2>2. OpenRows(m.turnaround, m.job) = {} /\ Acked(Started(m.turnaround))
    BY <2>1 DEF Settled, Freed
  <2>3. OpenRows(m.turnaround, m.job)' = {}
    BY <2>2 DEF OpenRows
  <2>4. Started(m.turnaround) \in Message
    BY MessageForms DEF Message
  <2>5. QED
    BY <2>2, <2>3, <2>4
<1>3. QED
  BY <1>1, <1>2 DEF Settled

LEMMA CoversKept ==
  ASSUME NEW h, Covers(h), sent \subseteq sent',
         h.pc \in {"check", "find", "insert"} =>
           \A new \in rows' : new.turnaround = h.msg.turnaround =>
             \E row \in rows : row.turnaround = new.turnaround /\ row.job = new.job
  PROVE  Covers(h)'
<1>1. h.pc \in {"check", "find", "insert"} =>
        /\ \A k \in Job : k < h.job => \E r \in h.results : r.job = k
        /\ \A new \in rows' : new.turnaround = h.msg.turnaround => new.job < h.job
  BY DEF Covers
<1>2. h.pc = "publish" =>
        \A k \in Job : \/ \E r \in h.results : r.job = k
                       \/ \E e \in sent' : e.turnaround = h.msg.turnaround /\ e.job = k
  BY DEF Covers
<1>3. QED
  BY <1>1, <1>2 DEF Covers

\* Slot s moves to H; the others keep what they have, as no two handle one message.
LEMMA OneMoves ==
  ASSUME IInv, HandledInv, NEW s \in Slots, NEW H \in Handler,
         handlers' = [handlers EXCEPT ![s] = H], drops' = drops, restarts' = restarts,
         sent \subseteq sent', aborted \subseteq aborted', overtaken \subseteq overtaken',
         QueueInv', UntouchedInv', Sound(H)',
         \A m \in Message : Acked(m) => Acked(m)',
         drops = 0 => \A m \in Message : Acked(m)' => Acked(m) \/ Settled(m),
         drops = 0 => \A new \in rows' :
           /\ new.status = "assigned" => new \in rows \/ ~Acked(Started(new.turnaround))
           /\ \/ \E row \in rows : row.turnaround = new.turnaround /\ row.job = new.job
              \/ Working(handlers[s]) /\ handlers[s].msg = Started(new.turnaround)
  PROVE  HandledInv'
<1>1. handlers \in [Slots -> Handler]
  BY DEF IInv, TypeOK
<1>2. \A m \in Message : drops = 0 /\ Settled(m) => Settled(m)'
  BY SettledKept
<1>3. ASSUME NEW u \in Slots PROVE Sound(handlers[u])'
  <2>1. CASE u = s
    BY <1>1, <2>1
  <2>2. CASE u # s
    <3>1. PICK h \in Handler : h = handlers[u]
      BY <1>1
    <3>2. handlers'[u] = h
      BY <1>1, <2>2, <3>1
    <3>3. Sound(h)
      BY <3>1 DEF HandledInv
    <3>4. Working(h) => h.msg \in Message
      BY <3>1 DEF IInv, SlotsInv, SlotInv, Equipped
    <3>5. ASSUME drops = 0, restarts = 0 PROVE Covers(h)'
      <4>1. ASSUME h.pc \in {"check", "find", "insert"}, NEW new \in rows',
                   new.turnaround = h.msg.turnaround
            PROVE  \E row \in rows : row.turnaround = new.turnaround /\ row.job = new.job
        <5>1. Working(h) /\ h.msg.kind = "started"
          BY <3>1, <4>1 DEF Working, IInv, SlotsInv, SlotInv, Equipped
        <5>2. h.msg = Started(new.turnaround)
          BY <3>4, <4>1, <5>1, MessageForms
        <5>3. ~ /\ Working(handlers[s])
                /\ handlers[s].msg = Started(new.turnaround)
          BY <2>2, <3>1, <3>5, <5>1, <5>2 DEF IInv, OneEachInv, OneEach
        <5>4. QED
          BY <3>5, <5>3
      <4>2. Covers(h)
        BY <3>3, <3>5 DEF Sound
      <4>3. QED
        BY <4>1, <4>2, CoversKept
    <3>6. ASSUME drops = 0, h.pc = "ack" PROVE Settled(h.msg)'
      BY <1>2, <3>3, <3>4, <3>6 DEF Sound, Working
    <3>7. Sound(h)'
      BY <3>3, <3>5, <3>6 DEF Sound
    <3>8. QED
      BY <3>2, <3>7
  <2>3. QED
    BY <2>1, <2>2
<1>4. drops' = 0 => \A m \in Message : Acked(m)' => Settled(m)'
  BY <1>2 DEF HandledInv
<1>5. QED
  BY <1>3, <1>4 DEF HandledInv

\* The same, for a step that touches neither the table nor the queue.
LEMMA OneSteps ==
  ASSUME IInv, HandledInv, NEW s \in Slots, NEW H \in Handler,
         handlers' = [handlers EXCEPT ![s] = H], UNCHANGED <<broker, rows, restarts, drops>>,
         sent \subseteq sent', aborted \subseteq aborted', overtaken \subseteq overtaken',
         Sound(H)'
  PROVE  HandledInv'
<1>1. /\ published' = published /\ queue' = queue /\ unacked' = unacked /\ rows' = rows
      /\ restarts' = restarts /\ drops' = drops
  BY DEF broker
<1>2. QueueInv'
  BY <1>1 DEF HandledInv, QueueInv, InQueue
<1>3. UntouchedInv'
  BY <1>1 DEF HandledInv, UntouchedInv, Acked
<1>4. \A m \in Message : Acked(m)' <=> Acked(m)
  BY <1>1 DEF Acked
<1>5. QED
  BY <1>1, <1>2, <1>3, <1>4, OneMoves

LEMMA InitHandled == Init => HandledInv
<1> SUFFICES ASSUME Init PROVE HandledInv
  OBVIOUS
<1>1. /\ published = {} /\ queue = <<>> /\ unacked = {} /\ rows = {}
      /\ handlers = [s \in Slots |-> Idle]
  BY DEF Init
<1>2. QueueInv /\ UntouchedInv
  BY <1>1 DEF QueueInv, UntouchedInv
<1>3. ~Working(Idle) /\ Idle.pc = "idle"
  BY DEF Idle, Working
<1>4. \A s \in Slots : Sound(handlers[s])
  BY <1>1, <1>3 DEF Sound, Covers
<1>5. \A m \in Message : ~Acked(m)
  BY <1>1 DEF Acked
<1>6. QED
  BY <1>2, <1>4, <1>5 DEF HandledInv

\* A message is appended once.
LEMMA PublishHandled ==
  ASSUME IInv, HandledInv, NEW m \in Message, Publish(m),
         m.kind = "completed" => Started(m.turnaround) \in published
  PROVE  HandledInv'
<1>1. /\ m \notin published /\ published' = published \cup {m} /\ queue' = Append(queue, m)
      /\ unacked' = unacked /\ handlers' = handlers /\ rows' = rows
      /\ sent' = sent /\ restarts' = restarts /\ drops' = drops
      /\ aborted' = aborted /\ overtaken' = overtaken
  BY DEF Publish, history
<1>2. /\ queue \in Seq(published \cup {m}) /\ m \in published \cup {m} /\ Len(queue) \in Nat
      /\ \A i \in 1 .. Len(queue) : queue[i] \in published
  BY SeqMonotonic, ElementOfSeq, LenProperties DEF IInv, TypeOK
<1>3. /\ DOMAIN queue = 1 .. Len(queue) /\ DOMAIN queue' = 1 .. Len(queue) + 1
      /\ queue'[Len(queue) + 1] = m
      /\ \A i \in 1 .. Len(queue) : queue'[i] = queue[i]
  BY <1>1, <1>2, AppendProperties, LenProperties
<1>4. \A n : InQueue(n) => InQueue(n)'
  BY <1>2, <1>3 DEF InQueue
<1>5. \A n : InQueue(n)' => InQueue(n) \/ n = m
  BY <1>2, <1>3 DEF InQueue
<1>6. InQueue(m)'
  BY <1>2, <1>3 DEF InQueue
<1>7. QueueInv'
  <2>1. \A i, j \in DOMAIN queue' : queue'[i] = queue'[j] => i = j
    BY <1>1, <1>2, <1>3 DEF HandledInv, QueueInv
  <2>2. \A n \in unacked' : InQueue(n)'
    BY <1>1, <1>4 DEF HandledInv, QueueInv
  <2>3. \A t \in Turnarounds, k \in Job, n \in Copy :
          Completed(t, k, n) \in published' => Started(t) \in published'
    <3>1. \A t, k, n : Completed(t, k, n).kind = "completed" /\ Completed(t, k, n).turnaround = t
      BY DEF Completed
    <3>2. QED
      BY <1>1, <3>1 DEF HandledInv, QueueInv
  <2>4. QED
    BY <2>1, <2>2, <2>3 DEF QueueInv
<1>8. \A n : Acked(n)' <=> Acked(n)
  <2>1. \A n : Acked(n) <=> n \in published /\ ~InQueue(n)
    BY DEF Acked, InQueue
  <2>2. \A n : Acked(n)' <=> n \in published' /\ ~InQueue(n)'
    BY DEF Acked, InQueue
  <2>3. QED
    BY <1>1, <1>4, <1>5, <1>6, <2>1, <2>2
<1>9. UntouchedInv'
  BY <1>1, <1>8 DEF HandledInv, UntouchedInv
<1>10. \A n \in Message : Settled(n) => Settled(n)'
  BY <1>1, <1>8, SettledKept
<1>11. \A s \in Slots : Sound(handlers[s])'
  <2>1. SUFFICES ASSUME NEW h, Sound(h), Working(h) => h.msg \in Message PROVE Sound(h)'
    <3>1. \A s \in Slots : /\ Sound(handlers[s])
                           /\ Working(handlers[s]) => handlers[s].msg \in Message
      BY DEF HandledInv, IInv, SlotsInv, SlotInv, Equipped
    <3>2. QED
      BY <1>1, <2>1, <3>1
  <2>2. Covers(h) => Covers(h)'
    BY <1>1, CoversKept
  <2>3. QED
    BY <1>1, <1>10, <2>1, <2>2 DEF Sound, Working
<1>12. QED
  BY <1>1, <1>7, <1>8, <1>9, <1>10, <1>11 DEF HandledInv

\* A message that is handed out is not handled yet: its turnaround has no rows, unless
\* it was handed out before a restart.
LEMMA DeliverHandled ==
  ASSUME IInv, HandledInv, NEW s \in Slots, Deliver(s)
  PROVE  HandledInv'
<1>1. PICK i \in DOMAIN queue :
        /\ queue[i] \notin unacked
        /\ unacked' = unacked \cup {queue[i]}
        /\ handlers' = [handlers EXCEPT ![s] =
             [Idle EXCEPT !.msg = queue[i], !.live = TRUE,
                          !.pc = IF queue[i].kind = "started" THEN "check" ELSE "free",
                          !.job = IF queue[i].kind = "started" THEN 1 ELSE queue[i].job]]
  BY DEF Deliver
<1>2. /\ published' = published /\ queue' = queue /\ rows' = rows /\ sent' = sent
      /\ restarts' = restarts /\ drops' = drops
      /\ aborted' = aborted /\ overtaken' = overtaken
  BY DEF Deliver, history
<1>3. PICK m \in Message : m = queue[i]
  BY ElementOfSeq DEF IInv, TypeOK
<1> DEFINE H == [Idle EXCEPT !.msg = m, !.live = TRUE,
                             !.pc = IF m.kind = "started" THEN "check" ELSE "free",
                             !.job = IF m.kind = "started" THEN 1 ELSE m.job]
<1>4. 1 \in Job /\ 0 \in 0 .. Jobs /\ Job \subseteq 0 .. Jobs
  BY DispatchAssumption DEF Job
<1>5. m.kind \in {"started", "completed"} /\ (m.kind = "completed" => m.job \in Job)
  BY MessageForms
<1>6. /\ H \in Handler /\ H.msg = m
      /\ m.kind = "started" => H.pc = "check" /\ H.job = 1
      /\ m.kind = "completed" => H.pc = "free" /\ H.job = m.job
  BY <1>4, <1>5 DEF Handler, Idle, Result
<1>7. handlers' = [handlers EXCEPT ![s] = H]
  BY <1>1, <1>3
<1> HIDE DEF H
<1>8. InQueue(m) /\ m \notin unacked
  BY <1>1, <1>3 DEF InQueue
<1>9. Sound(H)'
  <2>1. ASSUME drops = 0, restarts = 0, m.kind = "started" PROVE Covers(H)'
    <3>1. \A row \in rows : row.turnaround # m.turnaround
      <4>1. m = Started(m.turnaround)
        BY <2>1, MessageForms, StartedForm
      <4>2. ~Acked(m)
        BY <1>8 DEF Acked, InQueue
      <4>3. QED
        BY <1>8, <2>1, <4>1, <4>2 DEF HandledInv, UntouchedInv
    <3>2. \A k \in Job : ~(k < 1)
      BY DEF Job
    <3>3. QED
      BY <1>2, <1>6, <2>1, <3>1, <3>2 DEF Covers
  <2>2. m.kind = "completed" => Covers(H)'
    BY <1>6 DEF Covers
  <2>3. QED
    BY <1>2, <1>5, <1>6, <2>1, <2>2 DEF Sound
<1>10. QueueInv'
  <2>1. \A n \in unacked' : InQueue(n)'
    BY <1>1, <1>2, <1>3, <1>8 DEF HandledInv, QueueInv, InQueue
  <2>2. QED
    BY <1>2, <2>1 DEF HandledInv, QueueInv
<1>11. \A n \in Message : Acked(n)' <=> Acked(n)
  BY <1>2 DEF Acked
<1>12. UntouchedInv'
  BY <1>1, <1>2 DEF HandledInv, UntouchedInv, Acked
<1>13. QED
  BY <1>2, <1>6, <1>7, <1>9, <1>10, <1>11, <1>12, OneMoves

\* A message whose handler ended in an exception is accounted for by aborted.
LEMMA AbortHandled ==
  ASSUME IInv, HandledInv, NEW s \in Slots, Working(handlers[s]), Abort(s),
         UNCHANGED <<broker, rows, sent, restarts, drops>>, overtaken \subseteq overtaken'
  PROVE  HandledInv'
<1>1. PICK h \in Handler : h = handlers[s]
  BY DEF IInv, TypeOK
<1> DEFINE H == [h EXCEPT !.pc = "ack", !.results = {}]
<1>2. /\ handlers' = [handlers EXCEPT ![s] = H]
      /\ aborted' = aborted \cup {h.msg}
  BY <1>1 DEF Abort
<1>3. H \in Handler /\ H.msg = h.msg /\ H.pc = "ack" /\ H.job = h.job
  BY DEF Handler
<1> HIDE DEF H
<1>4. Sound(h)
  BY <1>1 DEF HandledInv
<1>5. Settled(H.msg)'
  BY <1>2, <1>3 DEF Settled, Freed, Answered
<1>6. Sound(H)'
  BY <1>1, <1>3, <1>4, <1>5 DEF Sound, Covers, Working
<1>7. QED
  BY <1>2, <1>3, <1>6, OneSteps

\* The loop goes on with a result for the task it leaves.
LEMMA AdvanceCovers ==
  ASSUME NEW h \in Handler, NEW results \in SUBSET Result, h.job \in Job,
         \A k \in Job : k <= h.job => \E r \in results : r.job = k,
         NEW R, NEW S,
         \A row \in R : row.turnaround = h.msg.turnaround => row.job <= h.job /\ row.job \in Job
  PROVE  LET H == Advance(h, results)
         IN  /\ H.pc \in {"check", "publish"}
             /\ H.pc = "check" =>
                  /\ \A k \in Job : k < H.job => \E r \in H.results : r.job = k
                  /\ \A row \in R : row.turnaround = H.msg.turnaround => row.job < H.job
             /\ H.pc = "publish" => \A k \in Job : \E r \in H.results : r.job = k
<1>1. Jobs \in Nat \ {0} /\ h.job \in 1 .. Jobs
  BY DispatchAssumption DEF Job
<1>2. CASE h.job < Jobs
  <2> DEFINE H == [h EXCEPT !.pc = "check", !.job = @ + 1, !.found = None,
                            !.results = results]
  <2>1. /\ Advance(h, results) = H /\ H.pc = "check" /\ H.job = h.job + 1
        /\ H.results = results /\ H.msg = h.msg
    BY <1>2 DEF Advance, Handler
  <2> HIDE DEF H
  <2>2. \A k \in Job : k < h.job + 1 => k <= h.job
    BY <1>1 DEF Job
  <2>3. \A k \in Job : k <= h.job => k < h.job + 1
    BY <1>1 DEF Job
  <2>4. QED
    BY <2>1, <2>2, <2>3
<1>3. CASE ~(h.job < Jobs)
  <2> DEFINE H == [h EXCEPT !.pc = IF results = {} THEN "ack" ELSE "publish",
                            !.found = None, !.results = results]
  <2>1. results # {}
    BY <1>1
  <2>2. /\ Advance(h, results) = H /\ H.pc = "publish" /\ H.results = results
    BY <1>3, <2>1 DEF Advance, Handler
  <2> HIDE DEF H
  <2>3. \A k \in Job : k <= h.job
    BY <1>1, <1>3 DEF Job
  <2>4. QED
    BY <2>2, <2>3
<1>4. QED
  BY <1>2, <1>3

\* A coroutine that goes on with its loop: on a first delivery it has a result for the
\* task it leaves; otherwise nothing is asked of it.
LEMMA AdvanceSound ==
  ASSUME IInv, NEW h \in Handler, NEW results \in SUBSET Result, Working(h), Equipped(h),
         h.msg.kind = "started",
         drops' = 0 /\ restarts' = 0 =>
           /\ \A k \in Job : k <= h.job => \E r \in results : r.job = k
           /\ \A row \in rows' : row.turnaround = h.msg.turnaround =>
                row.job <= h.job /\ row.job \in Job
  PROVE  Sound(Advance(h, results))'
<1>1. PICK H : H = Advance(h, results)
  OBVIOUS
<1>2. /\ H.msg = h.msg /\ H.results = results /\ H.pc \in {"check", "publish", "ack"}
  BY <1>1, AdvanceType
<1>3. h.job \in Job
  BY DEF Equipped
<1>4. ASSUME drops' = 0, restarts' = 0 PROVE Covers(H)' /\ H.pc # "ack"
  <2>1. /\ H.pc \in {"check", "publish"}
        /\ H.pc = "check" =>
             /\ \A k \in Job : k < H.job => \E r \in H.results : r.job = k
             /\ \A row \in rows' : row.turnaround = H.msg.turnaround => row.job < H.job
        /\ H.pc = "publish" => \A k \in Job : \E r \in H.results : r.job = k
    BY <1>1, <1>3, <1>4, AdvanceCovers
  <2>2. QED
    BY <2>1 DEF Covers
<1>5. Freed(H.msg)'
  BY <1>2 DEF Freed
<1>6. drops' = 0 /\ H.pc = "ack" => Settled(H.msg)'
  BY <1>4, <1>5 DEF Settled
<1>7. Sound(H)'
  BY <1>2, <1>4, <1>6 DEF Sound
<1>8. QED
  BY <1>1, <1>7

\* What is left after the removal of element i.
LEMMA RemoveAtElements ==
  ASSUME NEW S, NEW q \in Seq(S), NEW i \in 1 .. Len(q)
  PROVE  /\ DOMAIN RemoveAt(q, i) = 1 .. Len(q) - 1
         /\ \A j \in 1 .. Len(q) - 1 :
              RemoveAt(q, i)[j] = IF j < i THEN q[j] ELSE q[j + 1]
<1>1. Len(q) \in Nat /\ \A j \in 1 .. Len(q) : q[j] \in S
  BY ElementOfSeq
<1> DEFINE front == SubSeq(q, 1, i - 1)
           back == SubSeq(q, i + 1, Len(q))
<1>2. /\ front \in Seq(S) /\ Len(front) = i - 1
      /\ \A j \in 1 .. i - 1 : front[j] = q[j]
  <2>1. \A j \in 1 .. i - 1 : q[j] \in S
    BY <1>1
  <2>2. QED
    BY <1>1, <2>1, SubSeqProperties
<1>3. /\ back \in Seq(S) /\ Len(back) = Len(q) - i
      /\ \A j \in 1 .. Len(q) - i : back[j] = q[i + j]
  <2>1. \A j \in i + 1 .. Len(q) : q[j] \in S
    BY <1>1
  <2>2. QED
    BY <1>1, <2>1, SubSeqProperties
<1>4. RemoveAt(q, i) = front \o back
  BY DEF RemoveAt
<1> HIDE DEF front, back
<1>5. /\ front \o back \in Seq(S) /\ Len(front \o back) = Len(q) - 1
      /\ \A j \in 1 .. Len(q) - 1 :
           (front \o back)[j] = IF j <= i - 1 THEN front[j] ELSE back[j - (i - 1)]
  <2>1. /\ front \o back \in Seq(S) /\ Len(front \o back) = Len(front) + Len(back)
        /\ \A j \in 1 .. Len(front) + Len(back) :
             (front \o back)[j] = IF j <= Len(front) THEN front[j]
                                  ELSE back[j - Len(front)]
    BY <1>2, <1>3, ConcatProperties
  <2>2. Len(front) + Len(back) = Len(q) - 1
    BY <1>1, <1>2, <1>3
  <2>3. QED
    BY <1>2, <2>1, <2>2
<1>6. DOMAIN (front \o back) = 1 .. Len(q) - 1
  BY <1>5
<1>7. ASSUME NEW j \in 1 .. Len(q) - 1
      PROVE  (front \o back)[j] = IF j < i THEN q[j] ELSE q[j + 1]
  <2>1. CASE j < i
    BY <1>1, <1>2, <1>5, <2>1
  <2>2. CASE ~(j < i)
    <3>1. j - (i - 1) \in 1 .. Len(q) - i /\ i + (j - (i - 1)) = j + 1
      BY <1>1, <2>2
    <3>2. QED
      BY <1>3, <1>5, <2>2, <3>1
  <2>3. QED
    BY <2>1, <2>2
<1>8. QED
  BY <1>4, <1>6, <1>7

\* What is known of a coroutine before it moves.
LEMMA SlotOf ==
  ASSUME IInv, HandledInv, NEW s \in Slots
  PROVE  \E h \in Handler : /\ h = handlers[s] /\ Sound(h)
                            /\ SlotInv(h, rows, unacked, drops = 0)
                            /\ drops = 0 /\ restarts = 0 => Covers(h)
                            /\ Working(h) => h.msg \in Message
BY DEF IInv, TypeOK, SlotsInv, HandledInv, SlotInv, Equipped, Sound

\* On a first delivery the check finds no row, as nobody else inserts any.
LEMMA CheckHandled ==
  ASSUME IInv, HandledInv, NEW s \in Slots, Check(s)
  PROVE  HandledInv'
<1>1. PICK h \in Handler : /\ h = handlers[s] /\ Sound(h)
                           /\ SlotInv(h, rows, unacked, drops = 0)
                           /\ drops = 0 /\ restarts = 0 => Covers(h)
                           /\ Working(h) => h.msg \in Message
  BY SlotOf
<1>2. /\ UNCHANGED <<broker, rows, sent, restarts, drops>> /\ overtaken' = overtaken
      /\ h.pc = "check" /\ Working(h)
  BY <1>1 DEF Check, Working
<1>3. Equipped(h) /\ h.msg.kind = "started" /\ h.job \in Job
  BY <1>1, <1>2 DEF SlotInv, Equipped
<1> DEFINE open == OpenRows(h.msg.turnaround, h.job)
<1>4. CASE /\ handlers' = [handlers EXCEPT ![s].pc = "find"] /\ aborted' = aborted
  <2> DEFINE H == [h EXCEPT !.pc = "find"]
  <2>1. /\ H \in Handler /\ H.msg = h.msg /\ H.pc = "find" /\ H.job = h.job
        /\ H.results = h.results
    BY DEF Handler
  <2>2. handlers' = [handlers EXCEPT ![s] = H]
    BY <1>1, <1>4
  <2> HIDE DEF H
  <2>3. drops = 0 /\ restarts = 0 => Covers(H)'
    BY <1>1, <1>2, <2>1 DEF Covers
  <2>4. Sound(H)'
    BY <1>2, <1>3, <2>1, <2>3 DEF Sound
  <2>5. QED
    BY <1>2, <1>4, <2>1, <2>2, <2>4, OneSteps
<1>5. CASE /\ Cardinality(open) = 1 /\ aborted' = aborted
           /\ handlers' = [handlers EXCEPT ![s] = Advance(h, h.results)]
  <2>1. h.results \in SUBSET Result
    BY DEF Handler
  <2>2. ~(drops = 0 /\ restarts = 0)
    <3>1. SUFFICES ASSUME Covers(h) PROVE FALSE
      BY <1>1
    <3>2. \A row \in rows : row.turnaround = h.msg.turnaround => row.job < h.job
      BY <1>2, <3>1 DEF Covers
    <3>3. h.job \in Nat
      BY <1>3, DispatchAssumption DEF Job
    <3>4. open = {}
      BY <3>2, <3>3 DEF OpenRows
    <3>5. QED
      BY <1>5, <3>4, FS_EmptySet
  <2>3. PICK H : H = Advance(h, h.results)
    OBVIOUS
  <2>4. H \in Handler
    BY <1>2, <1>3, <2>1, <2>3, AdvanceType
  <2>5. Sound(Advance(h, h.results))'
    BY <1>2, <1>3, <2>1, <2>2, AdvanceSound
  <2>6. Sound(H)'
    BY <2>3, <2>5
  <2>7. QED
    BY <1>2, <1>5, <2>3, <2>4, <2>6, OneSteps
<1>6. CASE Abort(s)
  BY <1>1, <1>2, <1>6, AbortHandled
<1>7. QED
  BY <1>1, <1>4, <1>5, <1>6 DEF Check

LEMMA FindHandled ==
  ASSUME IInv, HandledInv, NEW s \in Slots, Find(s)
  PROVE  HandledInv'
<1>1. PICK h \in Handler : /\ h = handlers[s] /\ Sound(h)
                           /\ SlotInv(h, rows, unacked, drops = 0)
                           /\ drops = 0 /\ restarts = 0 => Covers(h)
                           /\ Working(h) => h.msg \in Message
  BY SlotOf
<1>2. /\ UNCHANGED <<broker, rows, sent, restarts, drops>> /\ overtaken' = overtaken
      /\ aborted' = aborted /\ h.pc = "find" /\ Working(h)
  BY <1>1 DEF Find, Working, history
<1>3. Equipped(h) /\ h.msg.kind = "started" /\ h.job \in Job /\ Job \subseteq Nat
  BY <1>1, <1>2, DispatchAssumption DEF SlotInv, Equipped, Job
<1>4. CASE handlers' = [handlers EXCEPT ![s] =
             Advance(h, h.results \cup {[job |-> h.job, crew |-> None]})]
  <2> DEFINE results == h.results \cup {[job |-> h.job, crew |-> None]}
  <2>1. results \in SUBSET Result
    BY <1>3 DEF Handler, Result
  <2>2. PICK H : H = Advance(h, results)
    OBVIOUS
  <2>3. h.results \subseteq results /\ \E r \in results : r.job = h.job
    <3>1. PICK r : r = [job |-> h.job, crew |-> None]
      OBVIOUS
    <3>2. r.job = h.job /\ r \in results
      BY <3>1
    <3>3. QED
      BY <3>2
  <2>4. handlers' = [handlers EXCEPT ![s] = H]
    BY <1>4, <2>2
  <2> HIDE DEF results
  <2>5. H \in Handler
    BY <1>2, <1>3, <2>1, <2>2, AdvanceType
  <2>6. ASSUME drops' = 0, restarts' = 0
        PROVE  /\ \A k \in Job : k <= h.job => \E r \in results : r.job = k
               /\ \A row \in rows' : row.turnaround = h.msg.turnaround =>
                    row.job <= h.job /\ row.job \in Job
    <3>1. Covers(h)
      BY <1>1, <1>2, <2>6
    <3>2. \A k \in Job : k < h.job => \E r \in results : r.job = k
      BY <1>2, <2>3, <3>1 DEF Covers
    <3>3. \A k \in Job : k <= h.job => k < h.job \/ k = h.job
      BY <1>3, DispatchAssumption DEF Job
    <3>4. \A row \in rows : row.job \in Job
      BY DEF IInv, TypeOK, Row
    <3>5. \A row \in rows : row.turnaround = h.msg.turnaround => row.job < h.job
      BY <1>2, <3>1 DEF Covers
    <3>6. \A k \in Job : k < h.job => k <= h.job
      BY <1>3, DispatchAssumption DEF Job
    <3>7. QED
      BY <1>2, <2>3, <3>2, <3>3, <3>4, <3>5, <3>6
  <2>7. Sound(Advance(h, results))'
    BY <1>2, <1>3, <2>1, <2>6, AdvanceSound
  <2>8. Sound(H)'
    BY <2>2, <2>7
  <2>9. QED
    BY <1>2, <2>4, <2>5, <2>8, OneSteps
<1>5. ASSUME NEW c \in FirstByName(Available(h.job)),
             handlers' = [handlers EXCEPT ![s].pc = "insert", ![s].found = c]
      PROVE  HandledInv'
  <2> DEFINE H == [h EXCEPT !.pc = "insert", !.found = c]
  <2>1. c \in Crew
    BY <1>3, DispatchAssumption DEF FirstByName, Available
  <2>2. /\ H \in Handler /\ H.msg = h.msg /\ H.pc = "insert" /\ H.job = h.job
        /\ H.results = h.results
    BY <2>1 DEF Handler
  <2>3. handlers' = [handlers EXCEPT ![s] = H]
    BY <1>1, <1>5
  <2> HIDE DEF H
  <2>4. drops = 0 /\ restarts = 0 => Covers(H)'
    BY <1>1, <1>2, <2>2 DEF Covers
  <2>5. Sound(H)'
    BY <1>2, <1>3, <2>2, <2>4 DEF Sound
  <2>6. QED
    BY <1>2, <2>2, <2>3, <2>5, OneSteps
<1>6. QED
  BY <1>1, <1>4, <1>5 DEF Find

\* A row is opened only for a turnaround whose turnaround.started is still unacked.
LEMMA CommitHandled ==
  ASSUME IInv, HandledInv, NEW s \in Slots, CommitAssignment(handlers[s]),
         NEW H \in Handler, handlers' = [handlers EXCEPT ![s] = H],
         UNCHANGED <<broker, sent, restarts, drops, overtaken>>, aborted \subseteq aborted',
         Sound(H)'
  PROVE  HandledInv'
<1>1. PICK h \in Handler : /\ h = handlers[s] /\ Sound(h)
                           /\ SlotInv(h, rows, unacked, drops = 0)
                           /\ Working(h) => h.msg \in Message
  BY SlotOf
<1> DEFINE new == [id |-> Cardinality(rows) + 1,
                   turnaround |-> h.msg.turnaround, job |-> h.job,
                   crew |-> h.found, status |-> "assigned"]
<1>2. /\ published' = published /\ queue' = queue /\ unacked' = unacked
      /\ sent' = sent /\ restarts' = restarts
      /\ drops' = drops /\ overtaken' = overtaken
      /\ rows' = rows \cup {new} /\ h.pc = "insert" /\ Working(h)
  BY <1>1 DEF CommitAssignment, broker, Working
<1>3. h.msg.kind = "started" /\ h.msg \in Message
  BY <1>1, <1>2 DEF SlotInv, Equipped
<1>4. new.turnaround = h.msg.turnaround
  OBVIOUS
<1> HIDE DEF new
<1>5. h.msg = Started(new.turnaround)
  BY <1>3, <1>4, MessageForms
<1>6. drops = 0 => h.msg \in unacked /\ ~Acked(h.msg)
  BY <1>1, <1>2 DEF SlotInv, Held, HandledInv, QueueInv, InQueue, Acked
<1>7. QueueInv'
  BY <1>2 DEF HandledInv, QueueInv, InQueue
<1>8. UntouchedInv'
  BY <1>2, <1>5, <1>6 DEF HandledInv, UntouchedInv, Acked
<1>9. \A m \in Message : Acked(m)' <=> Acked(m)
  BY <1>2 DEF Acked
<1>10. drops = 0 => \A x \in rows' :
         /\ x.status = "assigned" => x \in rows \/ ~Acked(Started(x.turnaround))
         /\ \/ \E row \in rows : row.turnaround = x.turnaround /\ row.job = x.job
            \/ Working(handlers[s]) /\ handlers[s].msg = Started(x.turnaround)
  BY <1>1, <1>2, <1>5, <1>6
<1>11. QED
  BY <1>2, <1>7, <1>8, <1>9, <1>10, OneMoves

LEMMA InsertHandled ==
  ASSUME IInv, HandledInv, NEW s \in Slots, Insert(s)
  PROVE  HandledInv'
<1>1. PICK h \in Handler : /\ h = handlers[s] /\ Sound(h)
                           /\ SlotInv(h, rows, unacked, drops = 0)
                           /\ drops = 0 /\ restarts = 0 => Covers(h)
                           /\ Working(h) => h.msg \in Message
  BY SlotOf
<1> DEFINE new == [id |-> Cardinality(rows) + 1,
                   turnaround |-> h.msg.turnaround, job |-> h.job,
                   crew |-> h.found, status |-> "assigned"]
           results == h.results \cup {[job |-> h.job, crew |-> h.found]}
<1>2. /\ CommitAssignment(h) /\ handlers' = [handlers EXCEPT ![s] = Advance(h, results)]
      /\ UNCHANGED <<broker, sent, restarts, drops, overtaken>> /\ aborted' = aborted
  BY <1>1 DEF Insert, history
<1>3. rows' = rows \cup {new} /\ h.pc = "insert" /\ Working(h)
  BY <1>2 DEF CommitAssignment, Working
<1>4. /\ Equipped(h) /\ h.msg.kind = "started" /\ h.job \in Job /\ h.found \in Crew
      /\ Job \subseteq Nat
  BY <1>1, <1>3, DispatchAssumption DEF SlotInv, Equipped, Job
<1>5. new.job = h.job
  OBVIOUS
<1>6. results \in SUBSET Result
  BY <1>4 DEF Handler, Result
<1>7. h.results \subseteq results /\ \E r \in results : r.job = h.job
  <2>1. PICK r : r = [job |-> h.job, crew |-> h.found]
    OBVIOUS
  <2>2. r.job = h.job /\ r \in results
    BY <2>1
  <2>3. QED
    BY <2>2
<1> HIDE DEF new, results
<1>8. PICK H : H = Advance(h, results)
  OBVIOUS
<1>9. H \in Handler
  BY <1>3, <1>4, <1>6, <1>8, AdvanceType
<1>10. ASSUME drops' = 0, restarts' = 0
       PROVE  /\ \A k \in Job : k <= h.job => \E r \in results : r.job = k
              /\ \A row \in rows' : row.turnaround = h.msg.turnaround =>
                   row.job <= h.job /\ row.job \in Job
  <2>1. Covers(h)
    BY <1>1, <1>2, <1>10
  <2>2. \A k \in Job : k < h.job => \E r \in results : r.job = k
    BY <1>3, <1>7, <2>1 DEF Covers
  <2>3. \A k \in Job : k <= h.job <=> k < h.job \/ k = h.job
    BY <1>4, DispatchAssumption DEF Job
  <2>4. \A row \in rows' : row.job \in Job
    BY <1>3, <1>4, <1>5 DEF IInv, TypeOK, Row
  <2>5. \A row \in rows : row.turnaround = h.msg.turnaround => row.job < h.job
    BY <1>3, <2>1 DEF Covers
  <2>6. QED
    BY <1>3, <1>4, <1>5, <1>7, <2>2, <2>3, <2>4, <2>5
<1>11. Sound(Advance(h, results))'
  BY <1>3, <1>4, <1>6, <1>10, AdvanceSound
<1>12. Sound(H)'
  BY <1>8, <1>11
<1>13. QED
  BY <1>1, <1>2, <1>8, <1>9, <1>12, CommitHandled

LEMMA InsertRefreshFailsHandled ==
  ASSUME IInv, HandledInv, NEW s \in Slots, InsertRefreshFails(s)
  PROVE  HandledInv'
<1>1. PICK h \in Handler : h = handlers[s] /\ Sound(h)
  BY SlotOf
<1> DEFINE H == [h EXCEPT !.pc = "ack", !.results = {}]
<1>2. /\ CommitAssignment(h) /\ handlers' = [handlers EXCEPT ![s] = H]
      /\ UNCHANGED <<broker, sent, restarts, drops, overtaken>>
      /\ aborted' = aborted \cup {h.msg}
  BY <1>1 DEF InsertRefreshFails, Abort
<1>3. H \in Handler /\ H.msg = h.msg /\ H.pc = "ack" /\ H.job = h.job
  BY DEF Handler
<1> HIDE DEF H
<1>4. Working(h) /\ h.pc = "insert"
  BY <1>2 DEF CommitAssignment, Working
<1>5. Settled(H.msg)'
  BY <1>2, <1>3 DEF Settled, Freed, Answered
<1>6. Sound(H)'
  BY <1>1, <1>3, <1>4, <1>5 DEF Sound, Covers, Working
<1>7. QED
  BY <1>1, <1>2, <1>3, <1>6, CommitHandled

\* A result that leaves the list is an event.
LEMMA PublishResultHandled ==
  ASSUME IInv, HandledInv, NEW s \in Slots, PublishResult(s)
  PROVE  HandledInv'
<1>1. PICK h \in Handler : /\ h = handlers[s] /\ Sound(h)
                           /\ SlotInv(h, rows, unacked, drops = 0)
                           /\ drops = 0 /\ restarts = 0 => Covers(h)
                           /\ Working(h) => h.msg \in Message
  BY SlotOf
<1>2. PICK r \in h.results :
        /\ sent' = sent \cup {[turnaround |-> h.msg.turnaround,
                               job |-> r.job, crew |-> r.crew]}
        /\ handlers' = [handlers EXCEPT
             ![s].results = @ \ {r},
             ![s].pc = IF h.results = {r} THEN "ack" ELSE @]
  BY <1>1 DEF PublishResult
<1>3. /\ UNCHANGED <<broker, rows, restarts, drops>> /\ overtaken' = overtaken
      /\ aborted' = aborted /\ h.pc = "publish" /\ Working(h)
  BY <1>1 DEF PublishResult, Working, history
<1>4. h.msg.kind = "started"
  BY <1>1, <1>3 DEF SlotInv, Equipped
<1> DEFINE H == [h EXCEPT !.results = @ \ {r},
                          !.pc = IF h.results = {r} THEN "ack" ELSE @]
           e == [turnaround |-> h.msg.turnaround, job |-> r.job, crew |-> r.crew]
<1>5. /\ H \in Handler /\ H.msg = h.msg /\ H.job = h.job /\ H.results = h.results \ {r}
      /\ H.pc = IF h.results = {r} THEN "ack" ELSE "publish"
  BY <1>3 DEF Handler
<1>6. handlers' = [handlers EXCEPT ![s] = H]
  BY <1>1, <1>2
<1>7. e \in sent' /\ e.turnaround = h.msg.turnaround /\ e.job = r.job /\ sent \subseteq sent'
  BY <1>2
<1> HIDE DEF H, e
<1>8. ASSUME drops = 0, restarts = 0
      PROVE  \A k \in Job : \/ \E q \in H.results : q.job = k
                            \/ \E x \in sent' : x.turnaround = h.msg.turnaround /\ x.job = k
  <2>1. Covers(h)
    BY <1>1, <1>8
  <2>2. \A k \in Job : \/ \E q \in h.results : q.job = k
                       \/ \E x \in sent : x.turnaround = h.msg.turnaround /\ x.job = k
    BY <1>3, <2>1 DEF Covers
  <2>3. QED
    BY <1>5, <1>7, <2>2
<1>9. drops = 0 /\ restarts = 0 => Covers(H)'
  BY <1>5, <1>8 DEF Covers
<1>10. ASSUME drops = 0, H.pc = "ack" PROVE Settled(H.msg)'
  <2>1. H.results = {}
    BY <1>5, <1>10
  <2>2. restarts = 0 => Answered(H.msg)'
    BY <1>5, <1>8, <1>10, <2>1 DEF Answered
  <2>3. Freed(H.msg)'
    BY <1>4, <1>5 DEF Freed
  <2>4. QED
    BY <1>3, <2>2, <2>3 DEF Settled
<1>11. Sound(H)'
  BY <1>3, <1>4, <1>5, <1>9, <1>10 DEF Sound
<1>12. QED
  BY <1>3, <1>5, <1>6, <1>7, <1>11, OneSteps

\* A task is freed for good if its turnaround.started was acked before.
LEMMA FreeHandled ==
  ASSUME IInv, HandledInv, NEW s \in Slots, Free(s)
  PROVE  HandledInv'
<1>1. PICK h \in Handler : /\ h = handlers[s] /\ Sound(h)
                           /\ SlotInv(h, rows, unacked, drops = 0)
                           /\ drops = 0 /\ restarts = 0 => Covers(h)
                           /\ Working(h) => h.msg \in Message
  BY SlotOf
<1>2. /\ UNCHANGED <<broker, sent, restarts, drops>> /\ overtaken \subseteq overtaken'
      /\ h.pc = "free" /\ Working(h)
  BY <1>1 DEF Free, Working
<1>3. PICK t \in Turnarounds, k \in Job, n \in Copy :
        h.msg = Completed(t, k, n) /\ h.msg.turnaround = t /\ h.msg.job = k /\ h.job = k
        /\ h.msg.kind = "completed"
  BY <1>1, <1>2, MessageForms DEF Sound
<1>4. (\E i \in DOMAIN queue : queue[i] = Started(t)) => <<t, k>> \in overtaken'
  BY <1>1, <1>3 DEF Free
<1>5. CASE Abort(s) /\ rows' = rows
  BY <1>1, <1>2, <1>5, AbortHandled DEF broker
<1>6. CASE /\ rows' = (rows \ OpenRows(t, k))
                        \cup {[x EXCEPT !.status = "completed"] : x \in OpenRows(t, k)}
           /\ handlers' = [handlers EXCEPT ![s].pc = "ack"]
           /\ aborted' = aborted
  <2> DEFINE H == [h EXCEPT !.pc = "ack"]
             open == OpenRows(t, k)
             closed == {[x EXCEPT !.status = "completed"] : x \in open}
  <2>1. /\ H \in Handler /\ H.msg = h.msg /\ H.pc = "ack" /\ H.job = h.job
    BY DEF Handler
  <2>2. handlers' = [handlers EXCEPT ![s] = H]
    BY <1>1, <1>6
  <2>3. /\ published' = published /\ queue' = queue /\ unacked' = unacked
        /\ sent' = sent /\ restarts' = restarts /\ drops' = drops
    BY <1>2 DEF broker
  <2>4. \A x \in closed : /\ x.status = "completed"
                          /\ \E row \in rows : /\ row.turnaround = x.turnaround
                                               /\ row.job = x.job
    <3>1. SUFFICES ASSUME NEW x \in closed
                   PROVE  /\ x.status = "completed"
                          /\ \E row \in rows : /\ row.turnaround = x.turnaround
                                               /\ row.job = x.job
      OBVIOUS
    <3>2. PICK row \in open : x = [row EXCEPT !.status = "completed"]
      OBVIOUS
    <3>3. row \in rows /\ row \in Row
      BY DEF OpenRows, IInv, TypeOK
    <3>4. x.status = "completed" /\ x.turnaround = row.turnaround /\ x.job = row.job
      BY <3>2, <3>3 DEF Row
    <3>5. QED
      BY <3>3, <3>4
  <2>5. rows' = (rows \ open) \cup closed
    BY <1>6
  <2> HIDE DEF H, closed
  <2>6. \A x \in rows' : /\ x.status = "assigned" => x \in rows \ open
                         /\ \E row \in rows : /\ row.turnaround = x.turnaround
                                              /\ row.job = x.job
    BY <2>4, <2>5
  <2>7. OpenRows(t, k)' = {}
    BY <2>6 DEF OpenRows
  <2>8. ASSUME drops = 0, <<t, k>> \notin overtaken' PROVE Acked(Started(t))'
    <3>1. h.msg \in published
      BY <1>1, <1>2, <2>8 DEF SlotInv, Held, IInv, TypeOK
    <3>2. Started(t) \in published
      BY <1>3, <3>1 DEF HandledInv, QueueInv
    <3>3. QED
      BY <1>4, <2>3, <2>8, <3>2 DEF Acked
  <2>9. drops = 0 => Settled(H.msg)'
    <3>1. SUFFICES ASSUME drops = 0 PROVE Freed(h.msg)' /\ Answered(h.msg)'
      BY <2>1 DEF Settled
    <3>2. Freed(h.msg)'
      BY <1>3, <2>7, <2>8, <3>1 DEF Freed
    <3>3. QED
      BY <1>3, <3>2 DEF Answered
  <2>10. Sound(H)'
    BY <1>3, <2>1, <2>3, <2>9 DEF Sound, Covers
  <2>11. QueueInv'
    BY <2>3 DEF HandledInv, QueueInv, InQueue
  <2>12. \A m : Acked(m)' <=> Acked(m)
    BY <2>3 DEF Acked
  <2>13. UntouchedInv'
    <3>1. SUFFICES ASSUME drops = 0, restarts = 0, NEW x \in rows'
                   PROVE  Started(x.turnaround) \in unacked \/ Acked(Started(x.turnaround))
      BY <2>3, <2>12 DEF UntouchedInv
    <3>2. PICK row \in rows : row.turnaround = x.turnaround
      BY <2>6
    <3>3. QED
      BY <3>1, <3>2 DEF HandledInv, UntouchedInv
  <2>14. QED
    BY <1>2, <1>6, <2>1, <2>2, <2>3, <2>6, <2>10, <2>11, <2>12, <2>13, OneMoves
<1>7. QED
  BY <1>1, <1>3, <1>5, <1>6 DEF Free

\* The ack removes the one copy of the message.
LEMMA AckHandled ==
  ASSUME IInv, HandledInv, NEW s \in Slots, Ack(s)
  PROVE  HandledInv'
<1>1. PICK h \in Handler : /\ h = handlers[s] /\ Sound(h)
                           /\ SlotInv(h, rows, unacked, drops = 0)
                           /\ drops = 0 /\ restarts = 0 => Covers(h)
                           /\ Working(h) => h.msg \in Message
  BY SlotOf
<1>2. /\ published' = published /\ rows' = rows /\ sent' = sent
      /\ restarts' = restarts /\ drops' = drops
      /\ aborted' = aborted /\ overtaken' = overtaken
      /\ handlers' = [handlers EXCEPT ![s] = Idle]
      /\ h.pc = "ack" /\ Working(h)
  BY <1>1 DEF Ack, history, Working
<1>3. Idle \in Handler /\ Idle.pc = "idle" /\ ~Working(Idle)
  BY DispatchAssumption DEF Idle, Handler, Result, Job, Working
<1>4. Sound(Idle)'
  BY <1>3 DEF Sound, Covers
<1>5. drops = 0 => Settled(h.msg)
  BY <1>1, <1>2 DEF Sound
<1>6. /\ QueueInv'
      /\ unacked \ {h.msg} \subseteq unacked'
      /\ \A m : InQueue(m)' => InQueue(m)
      /\ \A m : InQueue(m) => InQueue(m)' \/ m = h.msg
      /\ h.msg \notin unacked' => h.msg \notin unacked \/ ~InQueue(h.msg)'
  <2>1. CASE h.live
    <3>1. PICK i \in DOMAIN queue : queue[i] = h.msg /\ queue' = RemoveAt(queue, i)
      BY <1>1, <2>1 DEF Ack
    <3>2. unacked' = unacked \ {h.msg}
      BY <1>1, <2>1 DEF Ack
    <3>3. /\ queue \in Seq(published) /\ Len(queue) \in Nat /\ i \in 1 .. Len(queue)
          /\ DOMAIN queue = 1 .. Len(queue)
      BY DEF IInv, TypeOK
    <3>4. /\ DOMAIN queue' = 1 .. Len(queue) - 1
          /\ \A j \in 1 .. Len(queue) - 1 :
               queue'[j] = IF j < i THEN queue[j] ELSE queue[j + 1]
      BY <3>1, <3>3, RemoveAtElements
    <3>5. \A j, k \in 1 .. Len(queue) : queue[j] = queue[k] => j = k
      BY <3>3 DEF HandledInv, QueueInv
    <3>6. \A j, k \in DOMAIN queue' : queue'[j] = queue'[k] => j = k
      <4>1. SUFFICES ASSUME NEW j \in 1 .. Len(queue) - 1, NEW k \in 1 .. Len(queue) - 1,
                            queue'[j] = queue'[k]
                     PROVE  j = k
        BY <3>4
      <4>2. /\ j \in 1 .. Len(queue) /\ j + 1 \in 1 .. Len(queue)
            /\ k \in 1 .. Len(queue) /\ k + 1 \in 1 .. Len(queue)
        BY <3>3
      <4>3. CASE j < i /\ k < i
        BY <3>4, <3>5, <4>1, <4>2, <4>3
      <4>4. CASE j < i /\ ~(k < i)
        <5>1. queue[j] = queue[k + 1]
          BY <3>4, <4>1, <4>4
        <5>2. j = k + 1
          BY <3>5, <4>2, <5>1
        <5>3. QED
          BY <3>3, <4>2, <4>4, <5>2
      <4>5. CASE ~(j < i) /\ k < i
        <5>1. queue[j + 1] = queue[k]
          BY <3>4, <4>1, <4>5
        <5>2. j + 1 = k
          BY <3>5, <4>2, <5>1
        <5>3. QED
          BY <3>3, <4>2, <4>5, <5>2
      <4>6. CASE ~(j < i) /\ ~(k < i)
        <5>1. queue[j + 1] = queue[k + 1]
          BY <3>4, <4>1, <4>6
        <5>2. j + 1 = k + 1
          BY <3>5, <4>2, <5>1
        <5>3. QED
          BY <3>3, <4>2, <5>2
      <4>7. QED
        BY <4>3, <4>4, <4>5, <4>6
    <3>7. \A m : InQueue(m)' => InQueue(m)
      BY <3>3, <3>4 DEF InQueue
    <3>8. ASSUME NEW m, InQueue(m), m # h.msg PROVE InQueue(m)'
      <4>1. PICK j \in 1 .. Len(queue) : queue[j] = m
        BY <3>3, <3>8 DEF InQueue
      <4>2. j # i
        BY <3>1, <3>8, <4>1
      <4>3. CASE j < i
        <5>1. j \in 1 .. Len(queue) - 1 /\ queue'[j] = m
          BY <3>3, <3>4, <4>1, <4>3
        <5>2. QED
          BY <3>4, <5>1 DEF InQueue
      <4>4. CASE ~(j < i)
        <5>1. /\ j - 1 \in 1 .. Len(queue) - 1 /\ ~(j - 1 < i) /\ j - 1 + 1 = j
          BY <3>3, <4>2, <4>4
        <5>2. queue'[j - 1] = m
          BY <3>4, <4>1, <5>1
        <5>3. QED
          BY <3>4, <5>1, <5>2 DEF InQueue
      <4>5. QED
        BY <4>3, <4>4
    <3>9. ~InQueue(h.msg)'
      <4>1. SUFFICES ASSUME NEW j \in 1 .. Len(queue) - 1, queue'[j] = queue[i] PROVE FALSE
        BY <3>1, <3>4 DEF InQueue
      <4>2. j \in 1 .. Len(queue) /\ j + 1 \in 1 .. Len(queue)
        BY <3>3
      <4>3. CASE j < i
        BY <3>3, <3>4, <3>5, <4>1, <4>2, <4>3
      <4>4. CASE ~(j < i)
        <5>1. queue[j + 1] = queue[i]
          BY <3>4, <4>1, <4>4
        <5>2. j + 1 = i
          BY <3>3, <3>5, <4>2, <5>1
        <5>3. QED
          BY <3>3, <4>2, <4>4, <5>2
      <4>5. QED
        BY <4>3, <4>4
    <3>10. QueueInv'
      BY <1>2, <3>2, <3>6, <3>8 DEF HandledInv, QueueInv
    <3>11. QED
      BY <3>2, <3>7, <3>8, <3>9, <3>10
  <2>2. CASE ~h.live
    <3>1. unacked' = unacked /\ queue' = queue
      BY <1>1, <2>2 DEF Ack
    <3>2. QED
      BY <1>2, <3>1 DEF HandledInv, QueueInv, InQueue
  <2>3. QED
    BY <2>1, <2>2
<1>7. /\ \A m : Acked(m) <=> m \in published /\ ~InQueue(m)
      /\ \A m : Acked(m)' <=> m \in published /\ ~InQueue(m)'
  BY <1>2 DEF Acked, InQueue
<1>8. \A m : Acked(m) => Acked(m)'
  BY <1>6, <1>7
<1>9. UntouchedInv'
  <2>1. SUFFICES ASSUME drops = 0, restarts = 0, NEW row \in rows
                 PROVE  Started(row.turnaround) \in unacked' \/ Acked(Started(row.turnaround))'
    BY <1>2 DEF UntouchedInv
  <2>2. Started(row.turnaround) \in unacked \/ Acked(Started(row.turnaround))
    BY <2>1 DEF HandledInv, UntouchedInv
  <2>3. unacked \subseteq published
    BY DEF IInv, TypeOK
  <2>4. QED
    BY <1>6, <1>7, <1>8, <2>2, <2>3
<1>10. drops = 0 => \A m \in Message : Acked(m)' => Acked(m) \/ Settled(m)
  BY <1>5, <1>6, <1>7
<1>11. QED
  BY <1>2, <1>3, <1>4, <1>6, <1>8, <1>9, <1>10, OneMoves

\* A restart gives up the claim about answers, but not about freed tasks.
LEMMA RestartHandled ==
  ASSUME IInv, HandledInv, Restart
  PROVE  HandledInv'
<1>1. /\ published' = published /\ queue' = queue /\ rows' = rows
      /\ sent' = sent /\ restarts' = restarts + 1 /\ drops' = drops
      /\ aborted' = aborted /\ overtaken' = overtaken /\ unacked' = {}
      /\ handlers' = [s \in Slots |-> Idle]
  BY DEF Restart
<1>2. restarts' # 0
  BY <1>1 DEF IInv, TypeOK
<1>3. Idle.pc = "idle" /\ ~Working(Idle)
  BY DEF Idle, Working
<1>4. QueueInv' /\ UntouchedInv'
  BY <1>1, <1>2 DEF HandledInv, QueueInv, UntouchedInv
<1>5. \A s \in Slots : Sound(handlers[s])'
  BY <1>1, <1>2, <1>3 DEF Sound
<1>6. \A m \in Message : Acked(m)' <=> Acked(m)
  BY <1>1 DEF Acked
<1>7. \A m \in Message : Settled(m) => Settled(m)'
  BY <1>1, <1>2, <1>6, SettledKept
<1>8. QED
  BY <1>1, <1>4, <1>5, <1>6, <1>7 DEF HandledInv

LEMMA ConnectionLossHandled ==
  ASSUME IInv, HandledInv, ConnectionLoss
  PROVE  HandledInv'
<1>1. /\ published' = published /\ queue' = queue /\ drops' = drops + 1 /\ unacked' = {}
      /\ handlers' = [s \in Slots |-> [handlers[s] EXCEPT !.live = FALSE]]
  BY DEF ConnectionLoss
<1>2. drops' # 0
  BY <1>1 DEF IInv, TypeOK
<1>3. QueueInv' /\ UntouchedInv'
  BY <1>1, <1>2 DEF HandledInv, QueueInv, UntouchedInv
<1>4. ASSUME NEW s \in Slots PROVE Sound(handlers[s])'
  <2>1. /\ handlers'[s].pc = handlers[s].pc /\ handlers'[s].msg = handlers[s].msg
        /\ handlers'[s].job = handlers[s].job
    BY <1>1 DEF IInv, TypeOK, Handler
  <2>2. Sound(handlers[s])
    BY DEF HandledInv
  <2>3. QED
    BY <1>2, <2>1, <2>2 DEF Sound, Working
<1>5. QED
  BY <1>2, <1>3, <1>4 DEF HandledInv

LEMMA StepHandled == IInv /\ HandledInv /\ [Next]_vars => HandledInv'
<1> SUFFICES ASSUME IInv, HandledInv, [Next]_vars PROVE HandledInv'
  OBVIOUS
<1>1. ASSUME NEW t \in Turnarounds, PublishStarted(t)
      PROVE  HandledInv'
  BY <1>1, PublishHandled, StartedForm DEF PublishStarted, Message
<1>2. ASSUME NEW t \in Turnarounds, NEW k \in Job, NEW n \in Copy, PublishCompleted(t, k, n)
      PROVE  HandledInv'
  <2>1. Completed(t, k, n) \in Message /\ Completed(t, k, n).turnaround = t
    BY DEF Message, Completed
  <2>2. n = 1 \/ n - 1 \in Copy
    BY DispatchAssumption DEF Copy
  <2>3. Started(t) \in published
    BY <1>2, <2>2 DEF PublishCompleted, HandledInv, QueueInv
  <2>4. QED
    BY <1>2, <2>1, <2>3, PublishHandled DEF PublishCompleted
<1>3. ASSUME NEW s \in Slots, Deliver(s)
      PROVE  HandledInv'
  BY <1>3, DeliverHandled
<1>4. ASSUME NEW s \in Slots, Handle(s)
      PROVE  HandledInv'
  BY <1>4, CheckHandled, FindHandled, InsertHandled, PublishResultHandled, FreeHandled,
     AckHandled DEF Handle
<1>5. ASSUME NEW s \in Slots, SqlError(s)
      PROVE  HandledInv'
  <2>1. /\ UNCHANGED <<broker, rows, sent, restarts, drops>> /\ overtaken' = overtaken
        /\ Working(handlers[s]) /\ Abort(s)
    BY <1>5 DEF SqlError, Working
  <2>2. QED
    BY <2>1, AbortHandled
<1>6. ASSUME NEW s \in Slots, InsertRefreshFails(s)
      PROVE  HandledInv'
  BY <1>6, InsertRefreshFailsHandled
<1>7. CASE Restart
  BY <1>7, RestartHandled
<1>8. CASE ConnectionLoss
  BY <1>8, ConnectionLossHandled
<1>9. CASE UNCHANGED vars
  BY <1>9 DEF vars, HandledInv, QueueInv, InQueue, UntouchedInv, Acked, Sound, Covers,
              Settled, Freed, Answered, OpenRows
<1>10. QED
  BY <1>1, <1>2, <1>3, <1>4, <1>5, <1>6, <1>7, <1>8, <1>9 DEF Next

----------------------------------------------------------------------------

\* The row of a task that was completed before its turnaround.started was acked is in
\* overtaken; after the ack, nothing assigns the task again.
CompletedInv ==
  drops = 0 =>
    \A row \in rows : row.status = "completed" =>
      <<row.turnaround, row.job>> \in overtaken \/ Acked(Started(row.turnaround))

OnceInv == AssignedOnceUnlessOvertaken /\ CompletedInv

\* A message that was acked stays so: it is published once.
LEMMA AckedStays ==
  ASSUME IInv, HandledInv, [Next]_vars, NEW m, Acked(m)
  PROVE  Acked(m)'
<1>1. m \in published /\ ~InQueue(m)
  BY DEF Acked, InQueue
<1>2. /\ queue \in Seq(published) /\ Len(queue) \in Nat /\ DOMAIN queue = 1 .. Len(queue)
  BY LenProperties DEF IInv, TypeOK
<1>3. ASSUME m \in published', queue' = queue PROVE Acked(m)'
  BY <1>1, <1>3 DEF Acked, InQueue
<1>4. ASSUME NEW n, Publish(n) PROVE Acked(m)'
  <2>1. n # m /\ published' = published \cup {n} /\ queue' = Append(queue, n)
    BY <1>1, <1>4 DEF Publish
  <2>2. queue \in Seq(published \cup {n}) /\ n \in published \cup {n}
    BY <1>2, SeqMonotonic
  <2>3. /\ DOMAIN queue' = 1 .. Len(queue) + 1
        /\ queue'[Len(queue) + 1] = n
        /\ \A i \in 1 .. Len(queue) : queue'[i] = queue[i]
    BY <2>1, <2>2, AppendProperties, LenProperties
  <2>4. ASSUME NEW i \in DOMAIN queue' PROVE queue'[i] # m
    <3>1. i \in 1 .. Len(queue) \/ i = Len(queue) + 1
      BY <1>2, <2>3
    <3>2. QED
      BY <1>1, <1>2, <2>1, <2>3, <3>1 DEF InQueue
  <2>5. QED
    BY <1>1, <2>1, <2>4 DEF Acked
<1>5. ASSUME NEW s \in Slots, Ack(s) PROVE Acked(m)'
  <2>1. published' = published
    BY <1>5 DEF Ack
  <2>2. CASE handlers[s].live
    <3>1. PICK i \in DOMAIN queue : queue' = RemoveAt(queue, i)
      BY <1>5, <2>2 DEF Ack
    <3>2. /\ DOMAIN queue' = 1 .. Len(queue) - 1
          /\ \A j \in 1 .. Len(queue) - 1 :
               queue'[j] = IF j < i THEN queue[j] ELSE queue[j + 1]
      BY <1>2, <3>1, RemoveAtElements
    <3>3. ASSUME NEW j \in DOMAIN queue' PROVE queue'[j] # m
      <4>1. j \in 1 .. Len(queue) - 1 /\ j \in 1 .. Len(queue) /\ j + 1 \in 1 .. Len(queue)
        BY <1>2, <3>2
      <4>2. queue[j] # m /\ queue[j + 1] # m
        BY <1>1, <1>2, <4>1 DEF InQueue
      <4>3. QED
        BY <3>2, <4>1, <4>2
    <3>4. QED
      BY <1>1, <2>1, <3>3 DEF Acked
  <2>3. CASE ~handlers[s].live
    BY <1>1, <1>3, <1>5, <2>1, <2>3 DEF Ack
  <2>4. QED
    BY <2>2, <2>3
<1>6. ASSUME NEW s \in Slots,
             Deliver(s) \/ Check(s) \/ Find(s) \/ Insert(s) \/ PublishResult(s) \/ Free(s)
               \/ InsertRefreshFails(s) \/ SqlError(s)
      PROVE  Acked(m)'
  BY <1>1, <1>3, <1>6 DEF Deliver, Check, Find, Insert, PublishResult, Free,
                          InsertRefreshFails, SqlError, broker
<1>7. CASE Restart \/ ConnectionLoss \/ UNCHANGED vars
  BY <1>1, <1>3, <1>7 DEF Restart, ConnectionLoss, vars
<1>8. QED
  BY <1>4, <1>5, <1>6, <1>7 DEF Next, PublishStarted, PublishCompleted, Handle

\* A step that leaves the table alone keeps what is said of it.
LEMMA OnceKept ==
  ASSUME OnceInv, rows' = rows, drops' = drops, overtaken' = overtaken,
         \A m : Acked(m) => Acked(m)'
  PROVE  OnceInv'
<1>1. AssignedOnceUnlessOvertaken'
  BY DEF OnceInv, AssignedOnceUnlessOvertaken
<1>2. CompletedInv'
  BY DEF OnceInv, CompletedInv
<1>3. QED
  BY <1>1, <1>2 DEF OnceInv

\* The coroutine that inserts has its message unacked, so the rows that its task has
\* were overtaken.
LEMMA CommitOnce ==
  ASSUME IInv, HandledInv, OnceInv, NEW s \in Slots, CommitAssignment(handlers[s]),
         drops' = drops, overtaken' = overtaken,
         \A m : Acked(m) => Acked(m)'
  PROVE  OnceInv'
<1>1. PICK h \in Handler : /\ h = handlers[s]
                           /\ SlotInv(h, rows, unacked, drops = 0)
                           /\ Working(h) => h.msg \in Message
  BY SlotOf
<1>2. PICK new : new = [id |-> Cardinality(rows) + 1,
                        turnaround |-> h.msg.turnaround, job |-> h.job,
                        crew |-> h.found, status |-> "assigned"]
  OBVIOUS
<1>3. /\ h.pc = "insert" /\ Working(h) /\ rows' = rows \cup {new}
      /\ drops' = drops /\ overtaken' = overtaken
  BY <1>1, <1>2 DEF CommitAssignment, Working
<1>4. /\ new.turnaround = h.msg.turnaround /\ new.job = h.job /\ new.status = "assigned"
  BY <1>2
<1>5. h.msg = Started(new.turnaround)
  BY <1>1, <1>3, <1>4, MessageForms, StartedForm DEF SlotInv, Equipped, Completed
<1>6. drops = 0 => ~Acked(Started(new.turnaround))
  BY <1>1, <1>3, <1>5 DEF SlotInv, Held, HandledInv, QueueInv, InQueue, Acked
<1>7. ASSUME drops = 0, NEW row \in rows,
             row.turnaround = new.turnaround, row.job = new.job
      PROVE  <<row.turnaround, row.job>> \in overtaken
  <2>1. row.status # "assigned"
    BY <1>1, <1>3, <1>4, <1>7 DEF SlotInv, Unbooked
  <2>2. row.status = "completed"
    BY <2>1 DEF IInv, TypeOK, Row
  <2>3. QED
    BY <1>6, <1>7, <2>2 DEF OnceInv, CompletedInv
<1>8. AssignedOnceUnlessOvertaken'
  <2>1. SUFFICES ASSUME drops = 0, NEW x \in rows', NEW y \in rows',
                        x.turnaround = y.turnaround, x.job = y.job, x # y
                 PROVE  <<x.turnaround, x.job>> \in overtaken
    BY <1>3 DEF AssignedOnceUnlessOvertaken
  <2>2. CASE x \in rows /\ y \in rows
    BY <2>1, <2>2 DEF OnceInv, AssignedOnceUnlessOvertaken
  <2>3. CASE x \in rows /\ y = new
    BY <1>7, <2>1, <2>3
  <2>4. CASE x = new /\ y \in rows
    <3>1. <<y.turnaround, y.job>> \in overtaken
      BY <1>7, <2>1, <2>4
    <3>2. QED
      BY <2>1, <3>1
  <2>5. QED
    BY <1>3, <2>1, <2>2, <2>3, <2>4
<1>9. CompletedInv'
  <2>1. \A row \in rows' : row.status = "completed" => row \in rows
    BY <1>3, <1>4
  <2>2. QED
    BY <1>3, <2>1 DEF OnceInv, CompletedInv
<1>10. QED
  BY <1>8, <1>9 DEF OnceInv

\* Completing an open row replaces it; when the turnaround.started is still unacked, the
\* task becomes one of those that were overtaken.
LEMMA FreeOnce ==
  ASSUME IInv, HandledInv, OnceInv, NEW s \in Slots, Free(s),
         \A m : Acked(m) => Acked(m)'
  PROVE  OnceInv'
<1>1. PICK h \in Handler : /\ h = handlers[s] /\ Sound(h)
                           /\ SlotInv(h, rows, unacked, drops = 0)
                           /\ Working(h) => h.msg \in Message
  BY SlotOf
<1>2. /\ h.pc = "free" /\ Working(h) /\ drops' = drops /\ queue' = queue
      /\ published' = published /\ overtaken \subseteq overtaken'
  BY <1>1 DEF Free, broker, Working
<1>3. PICK t, k : t = h.msg.turnaround /\ k = h.job
  OBVIOUS
<1>4. PICK n \in Copy : h.msg = Completed(t, k, n) /\ t \in Turnarounds /\ k \in Job
  BY <1>1, <1>2, <1>3, MessageForms DEF Sound
<1>5. drops = 0 => <<t, k>> \in overtaken' \/ Acked(Started(t))
  <2>1. SUFFICES ASSUME drops = 0 PROVE <<t, k>> \in overtaken' \/ Acked(Started(t))
    OBVIOUS
  <2>2. h.msg \in published
    BY <1>1, <1>2, <2>1 DEF SlotInv, Held, IInv, TypeOK
  <2>3. Started(t) \in published
    BY <1>4, <2>2 DEF HandledInv, QueueInv
  <2>4. (\E i \in DOMAIN queue : queue[i] = Started(t)) => <<t, k>> \in overtaken'
    BY <1>1, <1>3 DEF Free
  <2>5. QED
    BY <2>3, <2>4 DEF Acked
<1>6. CASE rows' = rows
  <2>1. AssignedOnceUnlessOvertaken'
    BY <1>2, <1>6 DEF OnceInv, AssignedOnceUnlessOvertaken
  <2>2. CompletedInv'
    BY <1>2, <1>6 DEF OnceInv, CompletedInv
  <2>3. QED
    BY <2>1, <2>2 DEF OnceInv
<1>7. CASE rows' = (rows \ OpenRows(t, k))
                     \cup {[x EXCEPT !.status = "completed"] : x \in OpenRows(t, k)}
  <2> DEFINE open == OpenRows(t, k)
             Close(x) == [x EXCEPT !.status = "completed"]
  <2>1. \A x \in open : /\ x \in rows /\ x.turnaround = t /\ x.job = k
                        /\ Close(x).turnaround = t /\ Close(x).job = k
    BY DEF OpenRows, IInv, TypeOK, Row
  <2>2. \A x \in rows' : x \in rows \ open \/ \E z \in open : x = Close(z)
    BY <1>7
  <2> HIDE DEF open, Close
  <2>3. AssignedOnceUnlessOvertaken'
    <3>1. SUFFICES ASSUME drops = 0, NEW x \in rows', NEW y \in rows',
                          x.turnaround = y.turnaround, x.job = y.job, x # y
                   PROVE  <<x.turnaround, x.job>> \in overtaken
      BY <1>2 DEF AssignedOnceUnlessOvertaken
    <3>2. PICK a \in rows : /\ a.turnaround = x.turnaround /\ a.job = x.job
                            /\ \/ a = x /\ a \notin open
                               \/ a \in open /\ x = Close(a)
      BY <2>1, <2>2
    <3>3. PICK b \in rows : /\ b.turnaround = y.turnaround /\ b.job = y.job
                            /\ \/ b = y /\ b \notin open
                               \/ b \in open /\ y = Close(b)
      BY <2>1, <2>2
    <3>4. a # b
      BY <3>1, <3>2, <3>3
    <3>5. <<a.turnaround, a.job>> \in overtaken
      BY <3>1, <3>2, <3>3, <3>4 DEF OnceInv, AssignedOnceUnlessOvertaken
    <3>6. QED
      BY <3>2, <3>5
  <2>4. CompletedInv'
    <3>1. SUFFICES ASSUME drops = 0, NEW x \in rows', x.status = "completed"
                   PROVE  \/ <<x.turnaround, x.job>> \in overtaken'
                          \/ Acked(Started(x.turnaround))'
      BY <1>2 DEF CompletedInv
    <3>2. CASE x \in rows
      BY <1>2, <3>1, <3>2 DEF OnceInv, CompletedInv
    <3>3. CASE \E z \in open : x = Close(z)
      BY <1>5, <2>1, <3>1, <3>3
    <3>4. QED
      BY <2>2, <3>2, <3>3
  <2>5. QED
    BY <2>3, <2>4 DEF OnceInv
<1>8. QED
  BY <1>1, <1>3, <1>6, <1>7 DEF Free

LEMMA StepOnce == IInv /\ HandledInv /\ OnceInv /\ [Next]_vars => OnceInv'
<1> SUFFICES ASSUME IInv, HandledInv, OnceInv, [Next]_vars PROVE OnceInv'
  OBVIOUS
<1>1. \A m : Acked(m) => Acked(m)'
  BY AckedStays
<1>2. ASSUME NEW s \in Slots, Insert(s) \/ InsertRefreshFails(s) PROVE OnceInv'
  BY <1>1, <1>2, CommitOnce DEF Insert, InsertRefreshFails, history
<1>3. ASSUME NEW s \in Slots, Free(s) PROVE OnceInv'
  BY <1>1, <1>3, FreeOnce
<1>4. ASSUME rows' = rows, drops' = drops, overtaken' = overtaken PROVE OnceInv'
  BY <1>1, <1>4, OnceKept
<1>5. ASSUME NEW m, Publish(m) PROVE OnceInv'
  BY <1>4, <1>5 DEF Publish, history
<1>6. ASSUME NEW s \in Slots,
             Deliver(s) \/ Check(s) \/ Find(s) \/ PublishResult(s) \/ Ack(s) \/ SqlError(s)
      PROVE  OnceInv'
  BY <1>4, <1>6 DEF Deliver, Check, Find, PublishResult, Ack, SqlError, history
<1>7. CASE Restart \/ UNCHANGED vars
  BY <1>4, <1>7 DEF Restart, vars
<1>8. CASE ConnectionLoss
  <2>1. drops' # 0
    BY <1>8 DEF ConnectionLoss, IInv, TypeOK
  <2>2. QED
    BY <2>1 DEF OnceInv, AssignedOnceUnlessOvertaken, CompletedInv
<1>9. QED
  BY <1>2, <1>3, <1>5, <1>6, <1>7, <1>8 DEF Next, PublishStarted, PublishCompleted, Handle

----------------------------------------------------------------------------

\* The inductive invariant holds for any turnarounds, tasks, crew members and
\* number of coroutines, through restarts, connection losses and SQL errors.
THEOREM InvariantHolds == Spec => []IInv
BY InitInv, StepInv, PTL DEF Spec

\* The broker, the coroutines, the table and the events keep their types.
THEOREM TypeCorrect == Spec => []TypeOK
<1>1. IInv => TypeOK
  BY DEF IInv
<1>2. QED
  BY <1>1, InvariantHolds, PTL

\* While no connection is lost, the check of auto_assign_crew is worth what its
\* docstring says: a turnaround.started delivered again never assigns a task
\* that still has an open assignment.
THEOREM RedeliveryIsIdempotent == Spec => []AtMostOneOpenPerTask
<1>1. IInv => AtMostOneOpenPerTask
  BY DEF IInv
<1>2. QED
  BY <1>1, InvariantHolds, PTL

\* While no connection is lost, one turnaround never holds a crew member for two
\* of its tasks.
THEOREM NoDoubleBookingInside == Spec => []NoDoubleBookingWithinTurnaround
<1>1. IInv => NoDoubleBookingWithinTurnaround
  BY DEF IInv
<1>2. QED
  BY <1>1, InvariantHolds, PTL

\* Whatever fails, crew.assigned tells of an assignment that was committed.
THEOREM EventsAreTrue == Spec => []AssignedEventsAreTrue
<1>1. IInv => AssignedEventsAreTrue
  BY DEF IInv
<1>2. QED
  BY <1>1, InvariantHolds, PTL

LEMMA HandledHolds == Spec => []HandledInv
BY InitHandled, StepHandled, InvariantHolds, PTL DEF Spec

\* A turnaround.started that is handled without a restart, a connection loss or an
\* exception gets crew.assigned or crew.unavailable for every one of its tasks.
THEOREM StartedIsAnswered == Spec => []EveryTaskAnswered
<1>1. HandledInv => EveryTaskAnswered
  <2>1. SUFFICES ASSUME HandledInv, restarts = 0, drops = 0, NEW t \in Turnarounds,
                        Acked(Started(t)), Started(t) \notin aborted
                 PROVE  \A k \in Job : \E e \in sent : e.turnaround = t /\ e.job = k
    BY DEF EveryTaskAnswered
  <2>2. Started(t) \in Message
    BY DEF Message
  <2>3. QED
    BY <2>1, <2>2, StartedForm DEF HandledInv, Settled, Answered
<1>2. QED
  BY <1>1, HandledHolds, PTL

\* A task whose task.completed was handled holds no crew, and never will, unless its
\* turnaround.started was still unacked then, or the handler ended in an exception.
THEOREM CompletedIsFreed == Spec => []FreedUnlessOvertaken
<1>1. HandledInv => FreedUnlessOvertaken
  <2>1. SUFFICES ASSUME HandledInv, drops = 0, NEW t \in Turnarounds, NEW k \in Job,
                        NEW n \in Copy,
                        Acked(Completed(t, k, n)), Completed(t, k, n) \notin aborted,
                        <<t, k>> \notin overtaken
                 PROVE  OpenRows(t, k) = {}
    BY DEF FreedUnlessOvertaken
  <2>2. /\ Completed(t, k, n) \in Message /\ Completed(t, k, n).kind = "completed"
        /\ Completed(t, k, n).turnaround = t /\ Completed(t, k, n).job = k
    BY DEF Message, Completed
  <2>3. QED
    BY <2>1, <2>2 DEF HandledInv, Settled, Freed
<1>2. QED
  BY <1>1, HandledHolds, PTL

\* Restarts and errors never make a task be assigned twice, whether its assignment is
\* open or completed, unless its completion was handled while its turnaround.started was
\* still unacked.
THEOREM AssignedOnce == Spec => []AssignedOnceUnlessOvertaken
<1>1. Init => OnceInv
  BY DEF Init, OnceInv, AssignedOnceUnlessOvertaken, CompletedInv
<1>2. OnceInv => AssignedOnceUnlessOvertaken
  BY DEF OnceInv
<1>3. QED
  BY <1>1, <1>2, StepOnce, InvariantHolds, HandledHolds, PTL DEF Spec
=============================================================================
