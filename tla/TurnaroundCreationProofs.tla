---------------------- MODULE TurnaroundCreationProofs ----------------------
(***************************************************************************)
(* Proofs about TurnaroundCreation, for any messages, requests, flights,   *)
(* reports and bounds.                                                     *)
(***************************************************************************)
EXTENDS TurnaroundCreation, FiniteSetTheorems, SequenceTheorems, TLAPS

\* A call that has found no turnaround and has not created one yet.
Creating(h) ==
  h.pc \in {"de-icing", "de-icing fetch", "factor", "factor fetch", "create"}

\* A call plans for its own flight.
Own(c, h) == h.plan.flight = FlightOf[c]

\* No fetch starts in the future.
Timely(h, t) == h.started <= t

\* What a call is about to announce is a document of its flight.
Placed(c, h, D) ==
  h.pc = "publish" => h.document \in DOMAIN D /\ D[h.document].flight = FlightOf[c]

\* What a calm call knows of a cache that holds w since time at, at time t.
Calm(h, w, at, t) ==
  h.plan.calm = TRUE =>
    /\ h.pc = "de-icing fetch" => h.started = t
    /\ h.pc = "factor" => w # None /\ t - at < 1 /\ h.plan.decided = w
    /\ h.pc # "factor fetch"
    /\ h.pc = "create" => /\ h.plan.decided = h.plan.scaled
                          /\ h.plan.holdover = h.plan.scaled

\* What the local state h of call c is worth beside the collection D and the cache.
Sane(c, h, D, w, at, t) ==
  Own(c, h) /\ Timely(h, t) /\ Placed(c, h, D) /\ Calm(h, w, at, t)

CallsSane == \A c \in Calls : Sane(c, calls[c], documents, cache, fetchedAt, now)

\* Where no two calls have overlapped, a flight has at most one call at work, and
\* while that one creates the turnaround the flight has none.
Dedup ==
  \A c \in Calls :
    FlightOf[c] \notin overlapped =>
      /\ \A d \in Calls : /\ Running(calls[c]) /\ Running(calls[d])
                          /\ FlightOf[d] = FlightOf[c]
                          => c = d
      /\ Creating(calls[c]) =>
           \A i \in DOMAIN documents : documents[i].flight # FlightOf[c]

\* The inductive invariant.
IInv ==
  /\ TypeOK
  /\ CallsSane
  /\ Dedup
  /\ OneTurnaroundPerFlight
  /\ UnannouncedMeansCut
  /\ OneReportPerPlan

\* A call that has not begun, or has ended, is well-typed and knows nothing.
LEMMA FreshSane ==
  ASSUME NEW c \in Calls, NEW pc \in {"expected", "queued", "done"},
         NEW D, NEW w, NEW at \in Nat, NEW t \in Nat
  PROVE  /\ Fresh(c, pc) \in Call /\ Sane(c, Fresh(c, pc), D, w, at, t)
         /\ Fresh(c, pc).pc = pc
         /\ ~Running(Fresh(c, pc)) /\ ~Creating(Fresh(c, pc))
<1>1. FlightOf[c] \in Flights /\ 0 \in 0 .. MaxTime
  BY CreationAssumption DEF Calls
<1> DEFINE P == [flight |-> FlightOf[c], decided |-> None, holdover |-> None,
                 scaled |-> None, calm |-> TRUE]
           H == [pc |-> pc, started |-> 0, document |-> 0, plan |-> P]
<1>2. P \in Plan /\ P.flight = FlightOf[c]
  BY <1>1 DEF Plan, Report
<1>3. Fresh(c, pc) = H
  BY DEF Fresh
<1> HIDE DEF P
<1>4. H \in Call
  BY <1>1, <1>2 DEF Call, Pc
<1>5. H.pc = pc /\ H.started = 0 /\ H.plan = P
  OBVIOUS
<1> HIDE DEF H
<1>6. Sane(c, H, D, w, at, t)
  <2>1. Own(c, H)
    BY <1>2, <1>5 DEF Own
  <2>2. Timely(H, t)
    BY <1>5 DEF Timely
  <2>3. Placed(c, H, D)
    BY <1>5 DEF Placed
  <2>4. Calm(H, w, at, t)
    BY <1>5 DEF Calm
  <2> QED
    BY <2>1, <2>2, <2>3, <2>4 DEF Sane
<1>7. ~Running(H) /\ ~Creating(H)
  BY <1>5 DEF Running, Creating
<1> QED
  BY <1>3, <1>4, <1>5, <1>6, <1>7

\* The initial states satisfy the invariant.
LEMMA InitHolds == Init => IInv
<1> SUFFICES ASSUME Init PROVE IInv
  OBVIOUS
<1>1. /\ documents = <<>> /\ announced = {} /\ cache = None /\ fetchedAt = 0
      /\ now = 0 /\ faults = 0 /\ cut = {} /\ overlapped = {}
  BY DEF Init
<1>2. \A c \in Calls : \E pc \in {"expected", "queued", "done"} : calls[c] = Fresh(c, pc)
  BY DEF Init
<1>3. \A c \in Calls : /\ calls[c] \in Call
                       /\ Sane(c, calls[c], documents, cache, fetchedAt, now)
                       /\ ~Running(calls[c]) /\ ~Creating(calls[c])
  BY <1>1, <1>2, FreshSane
<1>4. TypeOK
  <2>1. calls \in [Calls -> Call]
    BY <1>3 DEF Init
  <2>2. documents \in Seq(Plan) /\ announced \subseteq DOMAIN documents
    BY <1>1
  <2>3. now \in 0 .. MaxTime /\ fetchedAt \in 0 .. now /\ faults \in 0 .. MaxFaults
    BY <1>1, CreationAssumption
  <2> QED
    BY <1>1, <2>1, <2>2, <2>3 DEF TypeOK, Report
<1>5. CallsSane /\ Dedup
  BY <1>3 DEF CallsSane, Dedup
<1>6. OneTurnaroundPerFlight /\ UnannouncedMeansCut /\ OneReportPerPlan
  BY <1>1 DEF OneTurnaroundPerFlight, UnannouncedMeansCut, OneReportPerPlan
<1> QED
  BY <1>4, <1>5, <1>6 DEF IInv

\* The clock starts within its bound.
LEMMA ZeroTime == MaxTime \in Nat /\ 0 \in 0 .. MaxTime
  BY CreationAssumption

\* What a disturbance leaves as it was.
LEMMA DisturbedKeeps ==
  ASSUME NEW h \in Call
  PROVE  /\ Disturbed(h) \in Call
         /\ Disturbed(h).pc = h.pc
         /\ Disturbed(h).started = h.started
         /\ Disturbed(h).document = h.document
         /\ Disturbed(h).plan.flight = h.plan.flight
         /\ Running(h) => Disturbed(h).plan.calm = FALSE
         /\ ~Running(h) => Disturbed(h) = h
<1> DEFINE P == [h.plan EXCEPT !.calm = FALSE]
<1>1. h.plan \in Plan
  BY DEF Call
<1>2. P \in Plan /\ P.flight = h.plan.flight /\ P.calm = FALSE
  BY <1>1 DEF Plan
<1>3. Running(h) => Disturbed(h) = [h EXCEPT !.plan = P]
  BY <1>1 DEF Disturbed, Call
<1>4. ~Running(h) => Disturbed(h) = h
  BY DEF Disturbed
<1> HIDE DEF P
<1> QED
  BY <1>2, <1>3, <1>4 DEF Call

\* A step that moves one call and leaves the collection and the cache alone.
LEMMA QuietStep ==
  ASSUME IInv, NEW c \in Calls, NEW H \in Call,
         Sane(c, H, documents, cache, fetchedAt, now),
         calls' = [calls EXCEPT ![c] = H],
         documents' = documents, cache' = cache, fetchedAt' = fetchedAt, now' = now,
         announced \subseteq announced', announced' \subseteq DOMAIN documents,
         overlapped \subseteq overlapped', overlapped' \subseteq Flights,
         faults' \in 0 .. MaxFaults, cut \subseteq cut', cut' \subseteq DOMAIN documents,
         H.pc # "publish",
         calls[c].pc = "publish" => calls[c].document \in cut' \cup announced',
         Running(H) => \/ Running(calls[c])
                       \/ FlightOf[c] \in overlapped'
                       \/ \A d \in Calls : Running(calls[d]) => FlightOf[d] # FlightOf[c],
         Creating(H) => \/ Creating(calls[c])
                        \/ \A i \in DOMAIN documents : documents[i].flight # FlightOf[c]
  PROVE  IInv'
<1>1. calls'[c] = H /\ \A d \in Calls : d # c => calls'[d] = calls[d]
  BY DEF IInv, TypeOK
<1>2. TypeOK'
  BY DEF IInv, TypeOK
<1>3. CallsSane'
  BY <1>1 DEF IInv, CallsSane
<1>4. Dedup'
  <2> SUFFICES ASSUME NEW d \in Calls, FlightOf[d] \notin overlapped'
               PROVE  /\ \A e \in Calls : /\ Running(calls'[d]) /\ Running(calls'[e])
                                          /\ FlightOf[e] = FlightOf[d]
                                          => d = e
                      /\ Creating(calls'[d]) =>
                           \A i \in DOMAIN documents : documents[i].flight # FlightOf[d]
    BY DEF Dedup
  <2>1. /\ \A e \in Calls : /\ Running(calls[d]) /\ Running(calls[e])
                            /\ FlightOf[e] = FlightOf[d]
                            => d = e
        /\ Creating(calls[d]) =>
             \A i \in DOMAIN documents : documents[i].flight # FlightOf[d]
    <3>1. Dedup /\ FlightOf[d] \notin overlapped
      BY DEF IInv
    <3> QED
      BY <3>1 DEF Dedup
  <2> QED
    BY <2>1, <1>1
<1>5. OneTurnaroundPerFlight' /\ OneReportPerPlan'
  BY DEF IInv, OneTurnaroundPerFlight, OneReportPerPlan
<1>6. UnannouncedMeansCut'
  <2> SUFFICES ASSUME NEW i \in DOMAIN documents, i \notin cut'
               PROVE  \/ i \in announced'
                      \/ \E d \in Calls : calls'[d].pc = "publish" /\ calls'[d].document = i
    BY DEF UnannouncedMeansCut
  <2>1. \/ i \in announced
        \/ \E d \in Calls : calls[d].pc = "publish" /\ calls[d].document = i
    BY DEF IInv, UnannouncedMeansCut
  <2> QED
    BY <2>1, <1>1
<1> QED
  BY <1>2, <1>3, <1>4, <1>5, <1>6 DEF IInv

\* What the type invariant says of one call, and of the clock.
LEMMA CallTyped ==
  ASSUME IInv, NEW c \in Calls
  PROVE  /\ calls[c] \in Call /\ FlightOf[c] \in Flights
         /\ Sane(c, calls[c], documents, cache, fetchedAt, now)
         /\ Own(c, calls[c]) /\ Timely(calls[c], now)
         /\ Placed(c, calls[c], documents) /\ Calm(calls[c], cache, fetchedAt, now)
         /\ now \in Nat /\ now \in 0 .. MaxTime /\ fetchedAt \in Nat
         /\ fetchedAt <= now /\ cache \in Report
  BY CreationAssumption, ZeroTime DEF IInv, TypeOK, CallsSane, Calls, Sane

\* A call that waits, or has just begun, is as sane as it was before.
LEMMA StillSane ==
  ASSUME NEW c \in Calls, NEW h, NEW H, NEW D, NEW w, NEW at \in Nat, NEW t \in Nat,
         Sane(c, h, D, w, at, t), H.plan = h.plan, H.started = h.started,
         H.pc \in {"queued", "de-icing"}
  PROVE  Sane(c, H, D, w, at, t)
<1>1. Own(c, H)
  BY DEF Sane, Own
<1>2. Timely(H, t)
  BY DEF Sane, Timely
<1>3. Placed(c, H, D)
  BY DEF Placed
<1>4. Calm(H, w, at, t)
  BY DEF Calm
<1> QED
  BY <1>1, <1>2, <1>3, <1>4 DEF Sane

\* A message or request that ends or is requeued.
LEMMA ForgetHolds ==
  ASSUME IInv, NEW c \in Calls, NEW pc \in {"queued", "done"},
         calls[c].pc # "publish", calls' = [calls EXCEPT ![c] = Fresh(c, pc)],
         documents' = documents, announced' = announced, UNCHANGED weather,
         faults' \in 0 .. MaxFaults, cut' = cut, overlapped' = overlapped
  PROVE  IInv'
<1> DEFINE H == Fresh(c, pc)
<1>1. /\ H \in Call /\ Sane(c, H, documents, cache, fetchedAt, now)
      /\ H.pc = pc /\ ~Running(H) /\ ~Creating(H)
  BY FreshSane, CallTyped
<1> HIDE DEF H
<1>2. calls' = [calls EXCEPT ![c] = H]
  BY DEF H
<1> QED
  BY <1>1, <1>2, QuietStep DEF IInv, TypeOK, weather

\* The Flight Service publishes an arrival.
LEMMA ArriveHolds ==
  ASSUME IInv, NEW c \in Arrivals, Arrive(c)
  PROVE  IInv'
<1> DEFINE H == [calls[c] EXCEPT !.pc = "queued"]
<1>1. c \in Calls
  BY DEF Calls
<1>2. calls' = [calls EXCEPT ![c] = H] /\ calls[c].pc = "expected"
  BY DEF Arrive
<1>3. H \in Call /\ H.pc = "queued" /\ Sane(c, H, documents, cache, fetchedAt, now)
  <2>1. /\ H \in Call /\ H.pc = "queued"
        /\ H.plan = calls[c].plan /\ H.started = calls[c].started
    BY <1>1, CallTyped DEF Call, Pc
  <2> HIDE DEF H
  <2> QED
    BY <1>1, <2>1, CallTyped, StillSane
<1> HIDE DEF H
<1>4. ~Running(H) /\ ~Creating(H)
  BY <1>3 DEF Running, Creating
<1> QED
  BY <1>1, <1>2, <1>3, <1>4, QuietStep
  DEF Arrive, IInv, TypeOK, store, weather, history

\* findByFlightId
LEMMA FindHolds ==
  ASSUME IInv, NEW c \in Calls, Find(c)
  PROVE  IInv'
<1>1. CASE /\ \A i \in DOMAIN documents : documents[i].flight # FlightOf[c]
           /\ Begin(c)
  <2> DEFINE H == [calls[c] EXCEPT !.pc = "de-icing"]
  <2>1. calls' = [calls EXCEPT ![c] = H] /\ calls[c].pc = "queued"
    BY <1>1 DEF Begin, Find
  <2>2. H \in Call /\ H.pc = "de-icing" /\ Sane(c, H, documents, cache, fetchedAt, now)
    <3>1. /\ H \in Call /\ H.pc = "de-icing"
          /\ H.plan = calls[c].plan /\ H.started = calls[c].started
      BY CallTyped DEF Call, Pc
    <3> HIDE DEF H
    <3> QED
      BY <3>1, CallTyped, StillSane
  <2> HIDE DEF H
  <2>3. overlapped \subseteq overlapped' /\ overlapped' \subseteq Flights
    BY <1>1, CallTyped DEF Begin, IInv, TypeOK
  <2>4. \/ FlightOf[c] \in overlapped'
        \/ \A d \in Calls : Running(calls[d]) => FlightOf[d] # FlightOf[c]
    BY <1>1 DEF Begin
  <2> QED
    BY <1>1, <2>1, <2>2, <2>3, <2>4, QuietStep
    DEF Begin, IInv, TypeOK, store, weather
<1>2. CASE calls' = Done(c) /\ UNCHANGED <<store, weather, history>>
  BY <1>2, ForgetHolds DEF Find, Done, IInv, TypeOK, store, history
<1> QED
  BY <1>1, <1>2 DEF Find

\* A call at work that moves on.
LEMMA WorkHolds ==
  ASSUME IInv, NEW c \in Calls, NEW H \in Call, Creating(calls[c]), H.pc # "publish",
         Sane(c, H, documents, cache, fetchedAt, now),
         calls' = [calls EXCEPT ![c] = H], UNCHANGED <<store, weather, history>>
  PROVE  IInv'
<1>1. Running(calls[c]) /\ calls[c].pc # "publish"
  BY DEF Running, Creating
<1>2. /\ documents' = documents /\ announced' = announced /\ cache' = cache
      /\ fetchedAt' = fetchedAt /\ now' = now /\ faults' = faults /\ cut' = cut
      /\ overlapped' = overlapped
  BY DEF store, weather, history
<1>3. /\ announced \subseteq DOMAIN documents /\ overlapped \subseteq Flights
      /\ faults \in 0 .. MaxFaults /\ cut \subseteq DOMAIN documents
  BY DEF IInv, TypeOK
<1> QED
  BY <1>1, <1>2, <1>3, QuietStep

\* A call that fetches nothing is timely; so is one that starts to fetch now.
LEMMA ZeroTimely == ASSUME NEW h, h.started = 0, NEW t \in Nat PROVE Timely(h, t)
  BY DEF Timely

LEMMA NowTimely == ASSUME NEW h, NEW t \in Nat, h.started = t PROVE Timely(h, t)
  BY DEF Timely

\* What getCurrentWeather answers suits its call: the first look-up.
LEMMA DeIcingAnswered ==
  ASSUME NEW c \in Calls, NEW h \in Call, Own(c, h), NEW t \in Nat,
         NEW w \in Report, NEW W \in Report, NEW at \in Nat, NEW D,
         h.pc = "de-icing" \/ h.pc = "de-icing fetch"
  PROVE  LET H == Answer(h, w, W)
         IN  /\ H \in Call
             /\ H.pc = "factor"
             /\ Own(c, H)
             /\ Timely(H, t)
             /\ Placed(c, H, D)
             /\ (h.plan.calm = TRUE => w = W /\ W # None /\ t - at < 1)
                => Calm(H, W, at, t)
<1> DEFINE P == [h.plan EXCEPT !.decided = w]
           H == [h EXCEPT !.pc = "factor", !.started = 0, !.plan = P]
<1>1. h.plan \in Plan
  BY DEF Call
<1>2. /\ P \in Plan /\ P.flight = h.plan.flight /\ P.calm = h.plan.calm
      /\ P.decided = w
  BY <1>1 DEF Plan
<1>3. Answer(h, w, W) = H
  BY <1>1 DEF Answer, Call
<1> HIDE DEF P
<1>4. 0 \in 0 .. MaxTime
  BY ZeroTime
<1>5. H \in Call
  BY <1>2, <1>4 DEF Call, Pc
<1>6. H.pc = "factor" /\ H.started = 0 /\ H.plan = P
  BY DEF Call
<1> HIDE DEF H
<1>7. Own(c, H)
  BY <1>2, <1>6 DEF Own
<1>8. H.started = 0
  BY <1>6
<1>9. Timely(H, t)
  BY <1>8, ZeroTimely
<1>10. Placed(c, H, D)
  BY <1>6 DEF Placed
<1>11. (h.plan.calm = TRUE => w = W /\ W # None /\ t - at < 1) => Calm(H, W, at, t)
  BY <1>2, <1>6 DEF Calm
<1> QED
  BY <1>3, <1>5, <1>6, <1>7, <1>9, <1>10, <1>11

\* The same for the second look-up and the holdover.
LEMMA FactorAnswered ==
  ASSUME NEW c \in Calls, NEW h \in Call, Own(c, h), NEW t \in Nat,
         NEW w \in Report, NEW W \in Report, NEW at \in Nat, NEW D,
         h.pc = "factor" \/ h.pc = "factor fetch"
  PROVE  LET H == Answer(h, w, W)
         IN  /\ H \in Call
             /\ H.pc = "create"
             /\ Own(c, H)
             /\ Timely(H, t)
             /\ Placed(c, H, D)
             /\ (h.plan.calm = TRUE => w = W /\ h.plan.decided = W)
                => Calm(H, W, at, t)
<1> DEFINE P == [h.plan EXCEPT !.scaled = w, !.holdover = W]
           H == [h EXCEPT !.pc = "create", !.started = 0, !.plan = P]
<1>1. h.plan \in Plan
  BY DEF Call
<1>2. /\ P \in Plan /\ P.flight = h.plan.flight /\ P.calm = h.plan.calm
      /\ P.decided = h.plan.decided /\ P.scaled = w /\ P.holdover = W
  BY <1>1 DEF Plan
<1>3. Answer(h, w, W) = H
  BY <1>1 DEF Answer, Call
<1> HIDE DEF P
<1>4. 0 \in 0 .. MaxTime
  BY ZeroTime
<1>5. H \in Call
  BY <1>2, <1>4 DEF Call, Pc
<1>6. H.pc = "create" /\ H.started = 0 /\ H.plan = P
  BY DEF Call
<1> HIDE DEF H
<1>7. Own(c, H)
  BY <1>2, <1>6 DEF Own
<1>8. H.started = 0
  BY <1>6
<1>9. Timely(H, t)
  BY <1>8, ZeroTimely
<1>10. Placed(c, H, D)
  BY <1>6 DEF Placed
<1>11. (h.plan.calm = TRUE => w = W /\ h.plan.decided = W) => Calm(H, W, at, t)
  BY <1>2, <1>6 DEF Calm
<1> QED
  BY <1>3, <1>5, <1>6, <1>7, <1>9, <1>10, <1>11

\* A call that starts a fetch is still sane; one that needs a second fetch was not
\* calm.
LEMMA FetchStarted ==
  ASSUME NEW c \in Calls, NEW h \in Call, Own(c, h), NEW t \in 0 .. MaxTime, t \in Nat,
         NEW pc, NEW D, NEW w, NEW at \in Nat,
         \/ h.pc = "de-icing" /\ pc = "de-icing fetch"
         \/ h.pc = "factor" /\ pc = "factor fetch" /\ h.plan.calm # TRUE
  PROVE  /\ [h EXCEPT !.pc = pc, !.started = t] \in Call
         /\ [h EXCEPT !.pc = pc, !.started = t].pc # "publish"
         /\ Sane(c, [h EXCEPT !.pc = pc, !.started = t], D, w, at, t)
<1> DEFINE H == [h EXCEPT !.pc = pc, !.started = t]
<1>1. pc \in Pc
  BY DEF Pc
<1>2. H \in Call
  BY <1>1 DEF Call
<1>3. H.pc = pc
  BY DEF Call
<1>4. H.started = t
  BY DEF Call
<1>5. H.plan = h.plan
  BY DEF Call
<1> HIDE DEF H
<1>6. Own(c, H)
  BY <1>5 DEF Own
<1>7. Timely(H, t)
  BY <1>4, NowTimely
<1>8. Placed(c, H, D)
  BY <1>3 DEF Placed
<1>9. Calm(H, w, at, t)
  BY <1>3, <1>4, <1>5 DEF Calm
<1>10. Sane(c, H, D, w, at, t)
  BY <1>6, <1>7, <1>8, <1>9 DEF Sane
<1> QED
  BY <1>2, <1>3, <1>10 DEF H

\* getCurrentWeather up to its fetch: a calm call asks a cache that is as its first
\* look-up left it.
LEMMA AskWeatherHolds ==
  ASSUME IInv, NEW c \in Calls, AskWeather(c)
  PROVE  IInv'
<1>1. calls[c].pc \in {"de-icing", "factor"} /\ UNCHANGED <<store, weather, history>>
  BY DEF AskWeather
<1>2. /\ Creating(calls[c]) /\ calls[c] \in Call /\ Own(c, calls[c])
      /\ cache \in Report /\ fetchedAt \in Nat /\ now \in Nat
  BY <1>1, CallTyped DEF Creating
<1>3. CASE Kept /\ calls' = [calls EXCEPT ![c] = Answer(calls[c], cache, cache)]
  <2> DEFINE H == Answer(calls[c], cache, cache)
  <2>1. CASE calls[c].pc = "de-icing"
    <3>1. cache # None /\ now - fetchedAt < 1
      BY <1>3 DEF Kept
    <3>2. /\ H \in Call /\ H.pc = "factor" /\ Own(c, H) /\ Timely(H, now)
          /\ Placed(c, H, documents) /\ Calm(H, cache, fetchedAt, now)
      BY <1>2, <2>1, <3>1, DeIcingAnswered
    <3>3. calls' = [calls EXCEPT ![c] = H]
      BY <1>3
    <3> HIDE DEF H
    <3>4. H.pc # "publish" /\ Sane(c, H, documents, cache, fetchedAt, now)
      BY <3>2 DEF Sane
    <3> QED
      BY <1>1, <1>2, <3>2, <3>3, <3>4, WorkHolds
  <2>2. CASE calls[c].pc = "factor"
    <3>1. calls[c].plan.calm = TRUE => calls[c].plan.decided = cache
      BY <2>2, CallTyped DEF Calm
    <3>2. /\ H \in Call /\ H.pc = "create" /\ Own(c, H) /\ Timely(H, now)
          /\ Placed(c, H, documents) /\ Calm(H, cache, fetchedAt, now)
      BY <1>2, <2>2, <3>1, FactorAnswered
    <3>3. calls' = [calls EXCEPT ![c] = H]
      BY <1>3
    <3> HIDE DEF H
    <3>4. H.pc # "publish" /\ Sane(c, H, documents, cache, fetchedAt, now)
      BY <3>2 DEF Sane
    <3> QED
      BY <1>1, <1>2, <3>2, <3>3, <3>4, WorkHolds
  <2> QED
    BY <1>1, <2>1, <2>2
<1>4. CASE ~Kept /\ calls' = [calls EXCEPT
                                ![c].pc = IF @ = "factor" THEN "factor fetch"
                                          ELSE "de-icing fetch",
                                ![c].started = now]
  <2>1. PICK pc : /\ \/ calls[c].pc = "de-icing" /\ pc = "de-icing fetch"
                     \/ calls[c].pc = "factor" /\ pc = "factor fetch"
                  /\ calls' = [calls EXCEPT ![c] = [calls[c] EXCEPT !.pc = pc,
                                                                    !.started = now]]
    <3>1. calls[c].pc = "factor" \/ calls[c].pc = "de-icing"
      BY <1>1
    <3> QED
      BY <1>4, <3>1 DEF IInv, TypeOK
  <2> DEFINE H == [calls[c] EXCEPT !.pc = pc, !.started = now]
  <2>2. H \in Call /\ H.pc # "publish" /\ Sane(c, H, documents, cache, fetchedAt, now)
    <3>1. calls[c].pc = "factor" => calls[c].plan.calm # TRUE
      BY <1>4, CallTyped DEF Calm, Kept
    <3>2. /\ calls[c] \in Call /\ Own(c, calls[c]) /\ now \in 0 .. MaxTime
          /\ now \in Nat /\ fetchedAt \in Nat
      BY CallTyped
    <3> QED
      BY <2>1, <3>1, <3>2, FetchStarted
  <2>3. calls' = [calls EXCEPT ![c] = H]
    BY <2>1
  <2> HIDE DEF H
  <2> QED
    BY <1>1, <1>2, <2>2, <2>3, WorkHolds
<1> QED
  BY <1>3, <1>4 DEF AskWeather

\* A call that is no longer calm is sane whatever became of the cache.
LEMMA DisturbedSane ==
  ASSUME NEW c \in Calls, NEW h \in Call, NEW D, NEW w, NEW at \in Nat, NEW t \in Nat, Own(c, h),
         Timely(h, t), Placed(c, h, D), Running(h) \/ Calm(h, w, at, t)
  PROVE  Sane(c, Disturbed(h), D, w, at, t)
<1> DEFINE H == Disturbed(h)
<1>1. H.pc = h.pc
  BY DisturbedKeeps, Zenon
<1>2. H.started = h.started
  BY DisturbedKeeps, Zenon
<1>3. H.document = h.document
  BY DisturbedKeeps, Zenon
<1>4. H.plan.flight = h.plan.flight
  BY DisturbedKeeps, Zenon
<1>5. Running(h) => H.plan.calm = FALSE
  BY DisturbedKeeps, Zenon
<1>6. ~Running(h) => H = h
  BY DisturbedKeeps, Zenon
<1> HIDE DEF H
<1>7. Own(c, H)
  BY <1>4 DEF Own
<1>8. Timely(H, t)
  BY <1>2 DEF Timely
<1>9. Placed(c, H, D)
  BY <1>1, <1>3 DEF Placed
<1>10. Calm(H, w, at, t)
  BY <1>5, <1>6 DEF Calm
<1>11. Sane(c, H, D, w, at, t)
  BY <1>7, <1>8, <1>9, <1>10 DEF Sane
<1> QED
  BY <1>11 DEF H

\* A refused fetch ends the calm of its call.
LEMMA FetchRefusedHolds ==
  ASSUME IInv, NEW c \in Calls, FetchRefused(c)
  PROVE  IInv'
<1>1. PICK w \in Report :
        calls' = [calls EXCEPT ![c] = Disturbed(Answer(calls[c], w, cache))]
  BY CallTyped DEF FetchRefused, Report
<1>2. UNCHANGED <<store, weather, history>>
  BY DEF FetchRefused
<1>3. calls[c].pc \in {"de-icing fetch", "factor fetch"}
  BY DEF FetchRefused, Fetching
<1> DEFINE A == Answer(calls[c], w, cache)
           H == Disturbed(A)
<1>4. /\ calls[c] \in Call /\ cache \in Report
      /\ now \in Nat /\ fetchedAt \in Nat
  BY CallTyped
<1>5. calls[c] \in Call /\ Own(c, calls[c])
  BY CallTyped
<1>6. /\ A \in Call /\ A.pc \in {"factor", "create"} /\ Own(c, A) /\ Timely(A, now)
      /\ Placed(c, A, documents)
  <2>1. CASE calls[c].pc = "de-icing fetch"
    BY <1>4, <1>5, <2>1, DeIcingAnswered
  <2>2. CASE calls[c].pc = "factor fetch"
    BY <1>4, <1>5, <2>2, FactorAnswered
  <2> QED
    BY <1>3, <2>1, <2>2
<1>8. calls' = [calls EXCEPT ![c] = H]
  BY <1>1
<1> HIDE DEF A
<1>9. Running(A)
  BY <1>6 DEF Running
<1>12. Sane(c, H, documents, cache, fetchedAt, now)
  BY <1>4, <1>6, <1>9, DisturbedSane
<1>13. H \in Call
  BY <1>6, DisturbedKeeps, Zenon
<1>14. H.pc = A.pc
  BY <1>6, DisturbedKeeps, Zenon
<1>15. H.pc # "publish"
  BY <1>6, <1>14
<1> HIDE DEF H
<1>16. Creating(calls[c])
  BY <1>3 DEF Creating
<1> QED
  BY <1>2, <1>8, <1>12, <1>13, <1>15, <1>16, WorkHolds, Zenon

\* publishTurnaroundStarted, or its failure.
LEMMA PublishHolds ==
  ASSUME IInv, NEW c \in Calls, PublishStarted(c)
  PROVE  IInv'
<1> DEFINE H == Fresh(c, "done")
<1>1. /\ H \in Call /\ Sane(c, H, documents, cache, fetchedAt, now)
      /\ H.pc = "done" /\ ~Running(H) /\ ~Creating(H)
  BY FreshSane, CallTyped
<1>2. /\ calls' = [calls EXCEPT ![c] = H] /\ calls[c].pc = "publish"
      /\ documents' = documents /\ UNCHANGED weather /\ overlapped' = overlapped
  BY DEF PublishStarted, Done
<1> HIDE DEF H
<1>3. /\ announced \subseteq announced' /\ announced' \subseteq DOMAIN documents
      /\ faults' \in 0 .. MaxFaults /\ cut \subseteq cut' /\ cut' \subseteq DOMAIN documents
      /\ calls[c].document \in cut' \cup announced'
  <2>1. calls[c].document \in DOMAIN documents
    BY <1>2, CallTyped DEF Placed
  <2>2. /\ announced \subseteq DOMAIN documents /\ faults \in 0 .. MaxFaults
        /\ cut \subseteq DOMAIN documents /\ MaxFaults \in Nat
    BY CreationAssumption DEF IInv, TypeOK
  <2>3. CASE announced' = announced \cup {calls[c].document} /\ UNCHANGED <<faults, cut>>
    BY <2>1, <2>2, <2>3
  <2>4. CASE /\ faults < MaxFaults /\ faults' = faults + 1
             /\ cut' = cut \cup {calls[c].document} /\ UNCHANGED announced
    BY <2>1, <2>2, <2>4
  <2> QED
    BY <2>3, <2>4 DEF PublishStarted
<1>4. cache' = cache /\ fetchedAt' = fetchedAt /\ now' = now
  BY <1>2 DEF weather
<1>5. overlapped \subseteq overlapped' /\ overlapped' \subseteq Flights
  BY <1>2 DEF IInv, TypeOK
<1>6. H.pc # "publish"
  BY <1>1
<1> QED
  BY <1>1, <1>2, <1>3, <1>4, <1>5, <1>6, QuietStep

\* A failing database command.
LEMMA DatabaseErrorHolds ==
  ASSUME IInv, NEW c \in Calls, DatabaseError(c)
  PROVE  IInv'
<1>1. PICK pc \in {"queued", "done"} : Fail(c, pc)
  BY DEF DatabaseError, Failed
<1>2. faults' \in 0 .. MaxFaults
  BY <1>1, CreationAssumption DEF Fail, IInv, TypeOK
<1> QED
  BY <1>1, <1>2, ForgetHolds DEF Fail, store

\* createTurnaround stores the document, and its call goes on to announce it or ends: no
\* other call was creating a turnaround for the flight, and the flight had none, unless
\* two calls have overlapped.
LEMMA StoredHolds ==
  ASSUME IInv, NEW c \in Calls, calls[c].pc = "create",
         documents' = Append(documents, calls[c].plan), NEW H \in Call,
         calls' = [calls EXCEPT ![c] = H],
         Own(c, H), Timely(H, now), Calm(H, cache, fetchedAt, now), ~Creating(H),
         H.pc = "publish" => H.document = Len(documents) + 1,
         cut' = cut \/ cut' = cut \cup {Len(documents) + 1},
         H.pc # "publish" => Len(documents) + 1 \in cut',
         announced' = announced, UNCHANGED weather, faults' \in 0 .. MaxFaults,
         overlapped' = overlapped
  PROVE  IInv'
<1> DEFINE n == Len(documents) + 1
           p == calls[c].plan
<1>1. /\ calls[c] \in Call /\ FlightOf[c] \in Flights /\ Own(c, calls[c])
      /\ Calm(calls[c], cache, fetchedAt, now) /\ now \in Nat /\ documents \in Seq(Plan)
  BY CallTyped DEF IInv, TypeOK
<1>2. documents' = Append(documents, p)
  OBVIOUS
<1>3. /\ announced' = announced /\ cache' = cache /\ fetchedAt' = fetchedAt
      /\ now' = now /\ overlapped' = overlapped
  BY DEF weather
<1>4. p \in Plan /\ p.flight = FlightOf[c]
  BY <1>1 DEF Call, Own
<1>5. p.calm = TRUE => p.decided = p.scaled /\ p.holdover = p.scaled
  BY <1>1 DEF Calm
<1>6. /\ n \in Nat /\ n \notin DOMAIN documents /\ documents' \in Seq(Plan)
      /\ DOMAIN documents' = DOMAIN documents \cup {n} /\ documents'[n] = p
      /\ \A i \in DOMAIN documents : documents'[i] = documents[i]
  <2> HIDE DEF p
  <2> QED
    BY <1>1, <1>2, <1>4
<1>7. /\ H.pc = "publish" => H.document = n
      /\ cut' = cut \/ cut' = cut \cup {n}
      /\ H.pc # "publish" => n \in cut'
  OBVIOUS
<1> HIDE DEF n, p
<1>10. calls'[c] = H /\ \A d \in Calls : d # c => calls'[d] = calls[d]
  BY DEF IInv, TypeOK
<1>11. /\ Creating(calls[c]) /\ Running(calls[c])
       /\ \A d \in Calls : Running(calls'[d]) => Running(calls[d])
  BY <1>10 DEF Creating, Running
<1>12. TypeOK'
  <2>1. calls' \in [Calls -> Call]
    BY DEF IInv, TypeOK
  <2>2. announced' \subseteq DOMAIN documents' /\ cut' \subseteq DOMAIN documents'
    BY <1>3, <1>6, <1>7 DEF IInv, TypeOK
  <2> QED
    BY <1>3, <1>6, <2>1, <2>2 DEF IInv, TypeOK
<1>13. CallsSane'
  <2>1. Sane(c, H, documents', cache, fetchedAt, now)
    <3>1. Placed(c, H, documents')
      BY <1>4, <1>6, <1>7 DEF Placed
    <3> QED
      BY <3>1 DEF Sane
  <2>2. ASSUME NEW d \in Calls, d # c
        PROVE  Sane(d, calls[d], documents', cache, fetchedAt, now)
    <3>1. Sane(d, calls[d], documents, cache, fetchedAt, now)
      BY CallTyped
    <3>2. Placed(d, calls[d], documents')
      BY <1>6, <3>1 DEF Sane, Placed
    <3> QED
      BY <3>1, <3>2 DEF Sane
  <2> QED
    BY <1>3, <1>10, <2>1, <2>2 DEF CallsSane
<1>14. FlightOf[c] \notin overlapped =>
         /\ \A d \in Calls : Running(calls[d]) /\ FlightOf[d] = FlightOf[c] => c = d
         /\ \A i \in DOMAIN documents : documents[i].flight # FlightOf[c]
  <2>1. Dedup
    BY DEF IInv
  <2> QED
    BY <1>11, <2>1 DEF Dedup
<1>15. Dedup'
  <2> SUFFICES ASSUME NEW d \in Calls, FlightOf[d] \notin overlapped
               PROVE  /\ \A e \in Calls : /\ Running(calls'[d]) /\ Running(calls'[e])
                                          /\ FlightOf[e] = FlightOf[d]
                                          => d = e
                      /\ Creating(calls'[d]) =>
                           \A i \in DOMAIN documents' : documents'[i].flight # FlightOf[d]
    BY <1>3 DEF Dedup
  <2>1. /\ \A e \in Calls : /\ Running(calls[d]) /\ Running(calls[e])
                            /\ FlightOf[e] = FlightOf[d]
                            => d = e
        /\ Creating(calls[d]) =>
             \A i \in DOMAIN documents : documents[i].flight # FlightOf[d]
    <3>1. Dedup
      BY DEF IInv
    <3> QED
      BY <3>1 DEF Dedup
  <2>2. \A e \in Calls : Running(calls'[e]) => Running(calls[e])
    BY <1>11
  <2>3. Creating(calls'[d]) => d # c /\ Creating(calls[d]) /\ Running(calls[d])
    BY <1>10 DEF Creating, Running
  <2>4. ASSUME Creating(calls'[d]), NEW i \in DOMAIN documents'
        PROVE  documents'[i].flight # FlightOf[d]
    <3>1. CASE i = n
      <4>1. documents'[i].flight = FlightOf[c]
        BY <1>4, <1>6, <3>1
      <4> QED
        BY <1>11, <2>1, <2>3, <2>4, <4>1
    <3>2. CASE i \in DOMAIN documents
      BY <1>6, <2>1, <2>3, <2>4, <3>2
    <3> QED
      BY <1>6, <3>1, <3>2
  <2> QED
    BY <2>1, <2>2, <2>4
<1>16. OneTurnaroundPerFlight'
  <2> SUFFICES ASSUME NEW i \in DOMAIN documents', NEW j \in DOMAIN documents',
                      documents'[i].flight = documents'[j].flight,
                      documents'[i].flight \notin overlapped
               PROVE  i = j
    BY <1>3 DEF OneTurnaroundPerFlight
  <2>1. \A k, l \in DOMAIN documents :
          documents[k].flight = documents[l].flight /\ documents[k].flight \notin overlapped
          => k = l
    BY DEF IInv, OneTurnaroundPerFlight
  <2>2. documents'[n].flight = FlightOf[c]
    BY <1>4, <1>6
  <2> QED
    BY <1>6, <1>14, <2>1, <2>2
<1>17. UnannouncedMeansCut'
  <2> SUFFICES ASSUME NEW i \in DOMAIN documents', i \notin cut'
               PROVE  \/ i \in announced
                      \/ \E d \in Calls : calls'[d].pc = "publish" /\ calls'[d].document = i
    BY <1>3 DEF UnannouncedMeansCut
  <2>1. CASE i = n
    BY <1>7, <1>10, <2>1
  <2>2. CASE i \in DOMAIN documents
    <3>1. \/ i \in announced
          \/ \E d \in Calls : calls[d].pc = "publish" /\ calls[d].document = i
      BY <1>7, <2>2 DEF IInv, UnannouncedMeansCut
    <3> QED
      BY <1>10, <3>1
  <2> QED
    BY <1>6, <2>1, <2>2
<1>18. OneReportPerPlan'
  BY <1>5, <1>6 DEF IInv, OneReportPerPlan
<1> QED
  BY <1>12, <1>13, <1>15, <1>16, <1>17, <1>18 DEF IInv

\* A document whose call goes on to announce it.
LEMMA CreateHolds ==
  ASSUME IInv, NEW c \in Calls, Create(c)
  PROVE  IInv'
<1> DEFINE n == Len(documents) + 1
           P == [flight |-> FlightOf[c], decided |-> None, holdover |-> None,
                 scaled |-> None, calm |-> TRUE]
           H == [pc |-> "publish", started |-> 0, plan |-> P, document |-> n]
<1>1. /\ FlightOf[c] \in Flights /\ now \in Nat /\ n \in Nat
      /\ faults \in 0 .. MaxFaults
  BY CallTyped DEF IInv, TypeOK
<1>2. P \in Plan /\ P.flight = FlightOf[c]
  BY <1>1 DEF Plan, Report
<1>3. calls' = [calls EXCEPT ![c] = H]
  <2>1. Fresh(c, "publish") = [pc |-> "publish", started |-> 0, document |-> 0, plan |-> P]
    BY DEF Fresh
  <2> HIDE DEF P, n
  <2>2. [Fresh(c, "publish") EXCEPT !.document = n] = H
    BY <2>1
  <2> QED
    BY <2>2 DEF Create, n
<1>4. /\ calls[c].pc = "create" /\ documents' = Append(documents, calls[c].plan)
      /\ announced' = announced /\ UNCHANGED weather
      /\ faults' = faults /\ cut' = cut /\ overlapped' = overlapped
  BY DEF Create, history
<1> HIDE DEF P
<1>5. H \in Call
  BY <1>1, <1>2, ZeroTime DEF Call, Pc
<1>6. H.pc = "publish" /\ H.started = 0 /\ H.plan = P /\ H.document = n
  OBVIOUS
<1> HIDE DEF H
<1>7. Own(c, H)
  BY <1>2, <1>6 DEF Own
<1>8. Timely(H, now)
  BY <1>1, <1>6, ZeroTimely
<1>9. Calm(H, cache, fetchedAt, now) /\ ~Creating(H)
  BY <1>6 DEF Calm, Creating
<1> QED
  BY <1>1, <1>3, <1>4, <1>5, <1>6, <1>7, <1>8, <1>9, StoredHolds

\* A document whose call learns of an error only.
LEMMA CreateUnansweredHolds ==
  ASSUME IInv, NEW c \in Calls, CreateUnanswered(c)
  PROVE  IInv'
<1> DEFINE H == Fresh(c, Failed(c))
<1>1. Failed(c) \in {"queued", "done"}
  BY DEF Failed
<1>2. now \in Nat /\ fetchedAt \in Nat /\ faults \in 0 .. MaxFaults /\ MaxFaults \in Nat
  BY CallTyped, CreationAssumption DEF IInv, TypeOK
<1>3. /\ H \in Call /\ Sane(c, H, documents, cache, fetchedAt, now)
      /\ H.pc \in {"queued", "done"} /\ ~Creating(H)
  BY <1>1, <1>2, FreshSane
<1>4. /\ calls[c].pc = "create" /\ documents' = Append(documents, calls[c].plan)
      /\ calls' = [calls EXCEPT ![c] = H]
      /\ announced' = announced /\ UNCHANGED weather /\ overlapped' = overlapped
      /\ cut' = cut \cup {Len(documents) + 1}
  BY DEF CreateUnanswered
<1>5. faults' \in 0 .. MaxFaults
  BY <1>2 DEF CreateUnanswered
<1> HIDE DEF H
<1>6. Own(c, H) /\ Timely(H, now) /\ Calm(H, cache, fetchedAt, now)
  BY <1>3 DEF Sane
<1> QED
  BY <1>3, <1>4, <1>5, <1>6, StoredHolds

\* A step that stores nothing and announces nothing, but may touch every call, the
\* cache and the clock: no call gets closer to a turnaround than it was.
LEMMA WideStep ==
  ASSUME IInv, documents' = documents, announced' = announced, overlapped' = overlapped,
         faults' \in 0 .. MaxFaults, cut \subseteq cut', cut' \subseteq DOMAIN documents,
         cache' \in Report, now' \in 0 .. MaxTime, fetchedAt' \in 0 .. now',
         calls' \in [Calls -> Call],
         \A d \in Calls :
           /\ Sane(d, calls'[d], documents, cache', fetchedAt', now')
           /\ Running(calls'[d]) => Running(calls[d])
           /\ Creating(calls'[d]) => Creating(calls[d])
           /\ calls[d].pc = "publish" => \/ calls[d].document \in cut'
                                         \/ /\ calls'[d].pc = "publish"
                                            /\ calls'[d].document = calls[d].document
  PROVE  IInv'
<1>1. TypeOK'
  BY DEF IInv, TypeOK
<1>2. CallsSane'
  BY DEF CallsSane
<1>3. Dedup'
  BY DEF IInv, Dedup
<1>4. OneTurnaroundPerFlight' /\ OneReportPerPlan'
  BY DEF IInv, OneTurnaroundPerFlight, OneReportPerPlan
<1>5. UnannouncedMeansCut'
  <2> SUFFICES ASSUME NEW i \in DOMAIN documents, i \notin cut'
               PROVE  \/ i \in announced
                      \/ \E d \in Calls : calls'[d].pc = "publish" /\ calls'[d].document = i
    BY DEF UnannouncedMeansCut
  <2>1. \/ i \in announced
        \/ \E d \in Calls : calls[d].pc = "publish" /\ calls[d].document = i
    BY DEF IInv, UnannouncedMeansCut
  <2> QED
    BY <2>1
<1> QED
  BY <1>1, <1>2, <1>3, <1>4, <1>5 DEF IInv

\* A call at rest knows nothing of the cache.
LEMMA RestCalm ==
  ASSUME NEW h, ~Running(h), h.pc \in Pc, NEW w, NEW at \in Nat, NEW t \in Nat
  PROVE  Calm(h, w, at, t)
  BY DEF Running, Calm, Pc

\* A disturbed call is no further than it was.
LEMMA DisturbedGoesNowhere ==
  ASSUME NEW h \in Call
  PROVE  /\ Disturbed(h) \in Call
         /\ Running(Disturbed(h)) => Running(h)
         /\ Creating(Disturbed(h)) => Creating(h)
         /\ h.pc = "publish" => /\ Disturbed(h).pc = "publish"
                                /\ Disturbed(h).document = h.document
<1>1. Disturbed(h).pc = h.pc
  BY DisturbedKeeps, Zenon
<1>2. Disturbed(h).document = h.document
  BY DisturbedKeeps, Zenon
<1>3. Disturbed(h) \in Call
  BY DisturbedKeeps, Zenon
<1> QED
  BY <1>1, <1>2, <1>3 DEF Running, Creating

\* Time passes: no call is calm any more.
LEMMA TickHolds ==
  ASSUME IInv, Tick
  PROVE  IInv'
<1>1. /\ documents' = documents /\ announced' = announced /\ overlapped' = overlapped
      /\ cut' = cut /\ faults' = faults /\ cache' = cache /\ fetchedAt' = fetchedAt
      /\ now' = now + 1 /\ now < MaxTime
  BY DEF Tick, store, history
<1>2. /\ faults \in 0 .. MaxFaults /\ cut \subseteq DOMAIN documents /\ cache \in Report
      /\ now \in 0 .. MaxTime /\ fetchedAt \in 0 .. now /\ MaxTime \in Nat
  BY ZeroTime DEF IInv, TypeOK
<1>3. /\ now' \in 0 .. MaxTime /\ fetchedAt' \in 0 .. now'
      /\ now' \in Nat /\ fetchedAt' \in Nat
  BY <1>1, <1>2
<1>4. \A d \in Calls : calls'[d] = Disturbed(calls[d])
  BY DEF Tick
<1>5. ASSUME NEW d \in Calls
      PROVE  /\ calls'[d] \in Call
             /\ Sane(d, calls'[d], documents, cache', fetchedAt', now')
             /\ Running(calls'[d]) => Running(calls[d])
             /\ Creating(calls'[d]) => Creating(calls[d])
             /\ calls[d].pc = "publish" =>
                  calls'[d].pc = "publish" /\ calls'[d].document = calls[d].document
  <2>1. /\ calls[d] \in Call /\ Own(d, calls[d]) /\ Timely(calls[d], now)
        /\ Placed(d, calls[d], documents)
    BY CallTyped
  <2>2. Timely(calls[d], now')
    BY <1>1, <1>2, <2>1 DEF Timely, Call
  <2>3. Running(calls[d]) \/ Calm(calls[d], cache', fetchedAt', now')
    BY <1>3, <2>1, RestCalm DEF Call
  <2>4. Sane(d, calls'[d], documents, cache', fetchedAt', now')
    BY <1>3, <1>4, <2>1, <2>2, <2>3, DisturbedSane
  <2> QED
    BY <1>4, <2>1, <2>4, DisturbedGoesNowhere
<1>6. calls' \in [Calls -> Call]
  BY <1>5 DEF Tick
<1> QED
  BY <1>1, <1>2, <1>3, <1>5, <1>6, WideStep

\* The process dies: running calls begin again or are gone, and the cache is empty.
LEMMA RestartHolds ==
  ASSUME IInv, Restart
  PROVE  IInv'
<1>1. /\ documents' = documents /\ announced' = announced /\ overlapped' = overlapped
      /\ cut' = cut \cup {calls[d].document : d \in {e \in Calls : calls[e].pc = "publish"}}
      /\ cache' = None /\ fetchedAt' = 0 /\ now' = now
      /\ faults < MaxFaults /\ faults' = faults + 1
  BY DEF Restart, store
<1>2. /\ faults \in 0 .. MaxFaults /\ now \in 0 .. MaxTime /\ MaxTime \in Nat
      /\ MaxFaults \in Nat
  BY CreationAssumption DEF IInv, TypeOK
<1>3. /\ now' \in 0 .. MaxTime /\ fetchedAt' \in 0 .. now' /\ cache' \in Report
      /\ now' \in Nat /\ fetchedAt' \in Nat /\ faults' \in 0 .. MaxFaults
  BY <1>1, <1>2 DEF Report
<1>4. ASSUME NEW d \in Calls
      PROVE  /\ calls'[d] \in Call
             /\ Sane(d, calls'[d], documents, cache', fetchedAt', now')
             /\ Running(calls'[d]) => Running(calls[d])
             /\ Creating(calls'[d]) => Creating(calls[d])
  <2>1. /\ calls[d] \in Call /\ Own(d, calls[d]) /\ Timely(calls[d], now)
        /\ Placed(d, calls[d], documents)
    BY CallTyped
  <2>2. CASE ~Running(calls[d])
    <3>1. calls'[d] = calls[d]
      BY <2>2 DEF Restart
    <3>2. Calm(calls[d], cache', fetchedAt', now')
      BY <1>3, <2>1, <2>2, RestCalm DEF Call
    <3> QED
      BY <1>1, <2>1, <3>1, <3>2 DEF Sane
  <2>3. CASE Running(calls[d])
    <3>1. PICK pc \in {"expected", "queued", "done"} : calls'[d] = Fresh(d, pc)
      BY <2>3 DEF Restart, Failed
    <3> QED
      BY <1>3, <3>1, FreshSane
  <2> QED
    BY <2>2, <2>3
<1>5. calls' \in [Calls -> Call]
  BY <1>4 DEF Restart
<1>6. cut \subseteq cut' /\ cut' \subseteq DOMAIN documents
  <2>1. \A d \in Calls : calls[d].pc = "publish" => calls[d].document \in DOMAIN documents
    BY CallTyped DEF Placed
  <2> QED
    BY <1>1, <2>1 DEF IInv, TypeOK
<1> QED
  BY <1>1, <1>3, <1>4, <1>5, <1>6, WideStep

\* A fetch ends: its report, kept since the fetch began, is the cache, and only the
\* call that fetched it may still be calm.
LEMMA FetchedHolds ==
  ASSUME IInv, NEW c \in Calls, NEW w \in Reports, Fetched(c, w)
  PROVE  IInv'
<1>1. /\ documents' = documents /\ announced' = announced /\ overlapped' = overlapped
      /\ cut' = cut /\ faults' = faults /\ cache' = w /\ now' = now
      /\ fetchedAt' = calls[c].started
  BY DEF Fetched, Store, store, history
<1>2. calls[c].pc = "de-icing fetch" \/ calls[c].pc = "factor fetch"
  BY DEF Fetched, Fetching
<1>3. /\ calls[c] \in Call /\ Own(c, calls[c]) /\ Timely(calls[c], now)
      /\ Calm(calls[c], cache, fetchedAt, now)
      /\ now \in Nat /\ now \in 0 .. MaxTime
  BY CallTyped
<1>4. w \in Report /\ w # None
  BY CreationAssumption DEF Report
<1>5. calls[c].started \in Nat /\ calls[c].started \in 0 .. now
  BY <1>3, ZeroTime DEF Call, Timely
<1>6. faults \in 0 .. MaxFaults /\ cut \subseteq DOMAIN documents
  BY DEF IInv, TypeOK
<1> DEFINE at == calls[c].started
           A == Answer(calls[c], w, w)
<1>7. /\ A \in Call /\ A.pc \in {"factor", "create"} /\ Own(c, A) /\ Timely(A, now)
      /\ Placed(c, A, documents) /\ Calm(A, w, at, now)
  <2>1. CASE calls[c].pc = "de-icing fetch"
    <3>1. calls[c].plan.calm = TRUE => at = now
      BY <1>3, <2>1 DEF Calm
    <3>2. now - now < 1
      BY <1>3
    <3> HIDE DEF at
    <3> QED
      BY <1>3, <1>4, <1>5, <2>1, <3>1, <3>2, DeIcingAnswered DEF at
  <2>2. CASE calls[c].pc = "factor fetch"
    <3>1. calls[c].plan.calm # TRUE
      BY <1>3, <2>2 DEF Calm
    <3> QED
      BY <1>3, <1>4, <1>5, <2>2, <3>1, FactorAnswered
  <2> QED
    BY <1>2, <2>1, <2>2
<1>8. calls'[c] = A /\ \A d \in Calls : d # c => calls'[d] = Disturbed(calls[d])
  BY DEF Fetched, Store
<1> HIDE DEF A
<1>9. ASSUME NEW d \in Calls
      PROVE  /\ calls'[d] \in Call
             /\ Sane(d, calls'[d], documents, cache', fetchedAt', now')
             /\ Running(calls'[d]) => Running(calls[d])
             /\ Creating(calls'[d]) => Creating(calls[d])
             /\ calls[d].pc = "publish" =>
                  calls'[d].pc = "publish" /\ calls'[d].document = calls[d].document
  <2>1. CASE d = c
    <3>1. Sane(c, A, documents, w, at, now)
      BY <1>7 DEF Sane
    <3>2. Running(calls[c]) /\ Creating(calls[c]) /\ calls[c].pc # "publish"
      BY <1>2 DEF Running, Creating
    <3> QED
      BY <1>1, <1>7, <1>8, <2>1, <3>1, <3>2
  <2>2. CASE d # c
    <3>1. /\ calls[d] \in Call /\ Own(d, calls[d]) /\ Timely(calls[d], now)
          /\ Placed(d, calls[d], documents)
      BY CallTyped
    <3>2. Running(calls[d]) \/ Calm(calls[d], w, at, now)
      BY <1>3, <1>5, <3>1, RestCalm DEF Call
    <3>3. Sane(d, Disturbed(calls[d]), documents, w, at, now)
      BY <1>3, <1>5, <3>1, <3>2, DisturbedSane
    <3> QED
      BY <1>1, <1>8, <2>2, <3>1, <3>3, DisturbedGoesNowhere
  <2> QED
    BY <2>1, <2>2
<1>10. calls' \in [Calls -> Call]
  BY <1>9 DEF Fetched, Store
<1> QED
  BY <1>1, <1>3, <1>4, <1>5, <1>6, <1>9, <1>10, WideStep

\* Every step preserves the invariant.
LEMMA NextHolds ==
  ASSUME IInv, [Next]_vars
  PROVE  IInv'
<1>1. ASSUME NEW c \in Calls, Handle(c) PROVE IInv'
  BY <1>1, FindHolds, AskWeatherHolds, FetchRefusedHolds, CreateHolds, PublishHolds,
     FetchedHolds
  DEF Handle
<1>2. CASE UNCHANGED vars
  <2>1. /\ documents' = documents /\ announced' = announced /\ cache' = cache
        /\ fetchedAt' = fetchedAt /\ now' = now /\ calls' = calls /\ faults' = faults
        /\ cut' = cut /\ overlapped' = overlapped
    BY <1>2 DEF vars
  <2>2. TypeOK' /\ CallsSane'
    BY <2>1 DEF IInv, TypeOK, CallsSane
  <2>3. Dedup'
    BY <2>1 DEF IInv, Dedup
  <2>4. OneTurnaroundPerFlight' /\ UnannouncedMeansCut' /\ OneReportPerPlan'
    BY <2>1 DEF IInv, OneTurnaroundPerFlight, UnannouncedMeansCut, OneReportPerPlan
  <2> QED
    BY <2>2, <2>3, <2>4 DEF IInv
<1> QED
  BY <1>1, <1>2, ArriveHolds, DatabaseErrorHolds, CreateUnansweredHolds, RestartHolds,
     TickHolds
  DEF Next

\* The inductive invariant holds in every reachable state.
THEOREM InvariantHolds == Spec => []IInv
  BY InitHolds, NextHolds, PTL DEF Spec

\* The collection, the cache, the clock and the calls are well-typed.
THEOREM TypeCorrect == Spec => []TypeOK
<1>1. IInv => TypeOK
  BY DEF IInv
<1> QED
  BY <1>1, InvariantHolds, PTL

\* Redelivery, repeated arrivals and manual requests create no second turnaround for
\* a flight, unless two of them were creating it at the same time.
THEOREM NoSecondTurnaround == Spec => []OneTurnaroundPerFlight
<1>1. IInv => OneTurnaroundPerFlight
  BY DEF IInv
<1> QED
  BY <1>1, InvariantHolds, PTL

\* A turnaround is announced unless its own call was cut off between insert and publish.
THEOREM AnnouncedUnlessCut == Spec => []UnannouncedMeansCut
<1>1. IInv => UnannouncedMeansCut
  BY DEF IInv
<1> QED
  BY <1>1, InvariantHolds, PTL

\* A calm call decides on de-icing, its holdover and durations by one report.
THEOREM OneReport == Spec => []OneReportPerPlan
<1>1. IInv => OneReportPerPlan
  BY DEF IInv
<1> QED
  BY <1>1, InvariantHolds, PTL

----------------------------------------------------------------------------

\* Sorting by order puts a task where its order says, when the orders of the list are the
\* numbers up to its length.
LEMMA OrderIsPlace ==
  ASSUME NEW n \in Nat, NEW s, DOMAIN s = 1..n,
         \A i \in 1..n : s[i].order \in 1..n,
         \A i, j \in 1..n : s[i].order = s[j].order => i = j
  PROVE  /\ DOMAIN ByOrder(s) = 1..n
         /\ \A i \in 1..n : ByOrder(s)[s[i].order] = s[i]
<1> DEFINE place == [i \in 1..n |-> s[i].order]
<1>1. place \in Injection(1..n, 1..n)
  BY DEF Injection, IsInjective
<1>2. place \in Surjection(1..n, 1..n)
  BY <1>1, FS_Interval, FS_Injection
<1>3. ASSUME NEW i \in 1..n
      PROVE  Cardinality(Preceding(s, i)) = s[i].order - 1
  <2> DEFINE P == Preceding(s, i)
             f == [j \in P |-> s[j].order]
             k == s[i].order - 1
  <2>1. k \in Nat /\ k <= n
    OBVIOUS
  <2>2. P = {j \in 1..n : s[j].order < s[i].order}
    BY DEF Preceding
  <2>3. f \in Injection(P, 1..k)
    <3>1. \A j \in P : s[j].order \in 1..k
      BY <2>1, <2>2
    <3>2. QED
      BY <3>1, <2>2 DEF Injection, IsInjective
  <2>4. \A t \in 1..k : \E j \in P : f[j] = t
    <3>1. TAKE t \in 1..k
    <3>2. t \in 1..n
      BY <2>1
    <3> HIDE DEF place
    <3>3. PICK j \in 1..n : place[j] = t
      BY <1>2, <3>2 DEF Surjection
    <3> USE DEF place
    <3>4. QED
      BY <3>3, <2>1, <2>2
  <2>5. f \in Surjection(P, 1..k)
    BY <2>3, <2>4 DEF Surjection, Injection
  <2> HIDE DEF P, f, k
  <2>6. IsFiniteSet(1..k) /\ Cardinality(1..k) = k
    BY <2>1, FS_Interval
  <2>7. Cardinality(P) = k
    BY <2>3, <2>5, <2>6, FS_Injection
  <2>8. QED
    BY <2>7 DEF P, k
<1>4. DOMAIN ByOrder(s) = 1..n
  BY DEF ByOrder
<1>5. ASSUME NEW i \in 1..n
      PROVE  ByOrder(s)[s[i].order] = s[i]
  <2>1. \A j \in 1..n : Cardinality(Preceding(s, j)) = s[i].order - 1 <=> j = i
    BY <1>3
  <2>2. (CHOOSE j \in DOMAIN s : Cardinality(Preceding(s, j)) = s[i].order - 1) = i
    BY <2>1
  <2>3. QED
    BY <2>2 DEF ByOrder
<1>6. QED
  BY <1>4, <1>5

\* A list that is numbered and ends with its only boarding.
TaskNames ==
  {"deboarding", "fueling", "catering", "cabin_cleaning", "cargo_unload", "cargo_load",
   "boarding", "de_icing"}

Tasks == [name : TaskNames, minutes : Nat, order : Nat]

Boards(tasks, n) ==
  /\ DOMAIN tasks = 1..n
  /\ \A i \in 1..n : /\ tasks[i] \in Tasks
                     /\ tasks[i].order = i
                     /\ tasks[i].name = "boarding" <=> i = n

\* De-icing comes right before boarding, and the rest stays as it was.
LEMMA DeIcingPlace ==
  ASSUME NEW n \in Nat \ {0}, NEW tasks \in Seq(Tasks), Boards(tasks, n), NEW m \in Nat
  PROVE  /\ DOMAIN InjectDeIcing(tasks, m) = 1..(n + 1)
         /\ \A i \in 1..(n - 1) : InjectDeIcing(tasks, m)[i] = tasks[i]
         /\ InjectDeIcing(tasks, m)[n] = Task("de_icing", m, n)
         /\ InjectDeIcing(tasks, m)[n + 1] = [tasks[n] EXCEPT !.order = n + 1]
<1>1. IndexOf(tasks, "boarding") = n
  BY DEF IndexOf, Boards
<1>2. PICK boards : boards = [tasks[n] EXCEPT !.order = n + 1]
  OBVIOUS
<1>3. boards \in Tasks /\ boards.order = n + 1
  BY <1>2 DEF Boards, Tasks
<1>4. PICK deices : deices = Task("de_icing", m, n)
  OBVIOUS
<1>5. deices \in Tasks /\ deices.order = n
  BY <1>4 DEF Task, Tasks, TaskNames
<1>6. PICK shifted : shifted = [tasks EXCEPT ![n] = boards]
  OBVIOUS
<1>7. /\ shifted \in Seq(Tasks) /\ Len(shifted) = n
      /\ shifted[n] = boards
      /\ \A i \in 1..(n - 1) : shifted[i] = tasks[i]
  BY <1>3, <1>6 DEF Boards
<1>8. PICK s : s = Append(shifted, deices)
  OBVIOUS
<1>9. /\ DOMAIN s = 1..(n + 1) /\ s[n + 1] = deices /\ s[n] = boards
      /\ \A i \in 1..(n - 1) : s[i] = tasks[i] /\ s[i].order = i
  BY <1>5, <1>7, <1>8 DEF Boards
<1>10. InjectDeIcing(tasks, m) = ByOrder(s)
  <2>1. [tasks EXCEPT ![n].order = @ + 1] = shifted
    BY <1>2, <1>6 DEF Boards
  <2>2. tasks[n].order = n
    BY DEF Boards
  <2>3. QED
    BY <1>1, <1>4, <1>8, <2>1, <2>2 DEF InjectDeIcing
<1>11. \A i \in 1..(n + 1) : s[i].order = IF i = n THEN n + 1 ELSE IF i = n + 1 THEN n ELSE i
  BY <1>3, <1>5, <1>9
<1>12. /\ DOMAIN ByOrder(s) = 1..(n + 1)
       /\ \A i \in 1..(n + 1) : ByOrder(s)[s[i].order] = s[i]
  <2>1. \A i \in 1..(n + 1) : s[i].order \in 1..(n + 1)
    BY <1>11
  <2>2. \A i, j \in 1..(n + 1) : s[i].order = s[j].order => i = j
    BY <1>11
  <2>3. QED
    BY <1>9, <2>1, <2>2, OrderIsPlace
<1>13. \A i \in 1..(n - 1) : ByOrder(s)[i] = tasks[i]
  BY <1>9, <1>12
<1>14. ByOrder(s)[n] = deices /\ ByOrder(s)[n + 1] = boards
  BY <1>3, <1>5, <1>9, <1>12
<1>15. QED
  BY <1>2, <1>4, <1>10, <1>12, <1>13, <1>14

\* Scaling and rounding never halve a duration.
Percents == {80, 85, 100, 120}

LEMMA RoundedIsHalfAtLeast ==
  ASSUME NEW minutes \in Nat, NEW percent \in Percents
  PROVE  Rounded(minutes, percent) \in Nat /\ 2 * Rounded(minutes, percent) >= minutes
<1>1. CASE percent = 80
  BY <1>1 DEF Rounded
<1>2. CASE percent = 85
  BY <1>2 DEF Rounded
<1>3. CASE percent = 100
  BY <1>3 DEF Rounded
<1>4. CASE percent = 120
  BY <1>4 DEF Rounded
<1>5. QED
  BY <1>1, <1>2, <1>3, <1>4 DEF Percents

\* Scaling changes durations only.
LEMMA ScalingKeepsTasks ==
  ASSUME NEW n \in Nat \ {0}, NEW tasks \in Seq(Tasks), Boards(tasks, n),
         NEW percent \in Percents
  PROVE  /\ ScaleTasks(tasks, percent) \in Seq(Tasks)
         /\ Boards(ScaleTasks(tasks, percent), n)
         /\ \A i \in 1..n :
              /\ ScaleTasks(tasks, percent)[i].name = tasks[i].name
              /\ 2 * ScaleTasks(tasks, percent)[i].minutes >= tasks[i].minutes
<1>1. PICK scaled : scaled = ScaleTasks(tasks, percent)
  OBVIOUS
<1>2. DOMAIN scaled = 1..n
  BY <1>1 DEF ScaleTasks, Boards
<1>3. ASSUME NEW i \in 1..n
      PROVE  /\ scaled[i] \in Tasks
             /\ scaled[i].name = tasks[i].name
             /\ scaled[i].order = tasks[i].order
             /\ 2 * scaled[i].minutes >= tasks[i].minutes
  <2>1. PICK t : t = tasks[i]
    OBVIOUS
  <2>2. t \in Tasks /\ t.minutes \in Nat
    BY <2>1 DEF Boards, Tasks
  <2>3. PICK m : m = t.minutes
    OBVIOUS
  <2>4. PICK r : r = Rounded(m, percent)
    OBVIOUS
  <2>5. r \in Nat /\ 2 * r >= m
    <3>1. m \in Nat
      BY <2>2, <2>3
    <3>2. Rounded(m, percent) \in Nat /\ 2 * Rounded(m, percent) >= m
      BY <3>1, RoundedIsHalfAtLeast
    <3>3. QED
      BY <2>4, <3>2
  <2>6. scaled[i] = [t EXCEPT !.minutes = r]
    BY <1>1, <2>1, <2>3, <2>4 DEF ScaleTasks, Boards
  <2>7. /\ scaled[i] \in Tasks /\ scaled[i].name = t.name /\ scaled[i].order = t.order
        /\ scaled[i].minutes = r
    BY <2>2, <2>5, <2>6 DEF Tasks
  <2>8. QED
    BY <2>1, <2>3, <2>5, <2>7
<1>4. scaled = [i \in 1..n |-> scaled[i]]
  BY <1>1, <1>2 DEF ScaleTasks
<1>5. scaled \in Seq(Tasks)
  BY <1>3, <1>4
<1>6. Boards(scaled, n)
  BY <1>2, <1>3 DEF Boards
<1>7. QED
  BY <1>1, <1>3, <1>5, <1>6

\* What a template is: a numbered list that ends with boarding, of tasks that take ten
\* minutes at least.
Template(tasks, n) ==
  /\ tasks \in Seq(Tasks)
  /\ Boards(tasks, n)
  /\ \A i \in 1..n : tasks[i].minutes >= 10

LEMMA WideBodyTemplate ==
  Template(WideBodyTasks, 7) /\ \A i \in 1..7 : WideBodyTasks[i].minutes >= 20
<1>1. WideBodyTasks \in Seq(Tasks) /\ DOMAIN WideBodyTasks = 1..7
  BY DEF WideBodyTasks, Task, Tasks, TaskNames
<1>2. Boards(WideBodyTasks, 7)
  BY DEF WideBodyTasks, Task, Tasks, TaskNames, Boards
<1>3. \A i \in 1..7 : WideBodyTasks[i].minutes >= 20
  BY DEF WideBodyTasks, Task
<1>4. \A i \in 1..7 : WideBodyTasks[i].minutes \in Nat
  BY <1>2 DEF Boards, Tasks
<1> HIDE DEF WideBodyTasks
<1>5. ASSUME NEW i \in 1..7
      PROVE  WideBodyTasks[i].minutes >= 10
  <2>1. PICK m : m = WideBodyTasks[i].minutes
    OBVIOUS
  <2>2. m \in Nat /\ m >= 20
    BY <1>3, <1>4, <2>1
  <2>3. QED
    BY <2>1, <2>2
<1>6. QED
  BY <1>1, <1>2, <1>3, <1>5 DEF Template

LEMMA NarrowBodyTemplate == Template(NarrowBodyTasks, 5)
<1>1. NarrowBodyTasks \in Seq(Tasks) /\ DOMAIN NarrowBodyTasks = 1..5
  BY DEF NarrowBodyTasks, Task, Tasks, TaskNames
<1>2. Boards(NarrowBodyTasks, 5)
  BY DEF NarrowBodyTasks, Task, Tasks, TaskNames, Boards
<1>3. \A i \in 1..5 : NarrowBodyTasks[i].minutes >= 10
  BY DEF NarrowBodyTasks, Task
<1>4. QED
  BY <1>1, <1>2, <1>3 DEF Template

\* Every aircraft type has a template.
LEMMA TypeHasTemplate ==
  ASSUME NEW type
  PROVE  \E n \in Nat \ {0} : Template(TasksForAircraft(type), n)
<1>1. ASSUME NEW percent \in {80, 85}
      PROVE  Template(ScaleTasks(WideBodyTasks, percent), 7)
  <2>1. PICK wide : wide = WideBodyTasks
    OBVIOUS
  <2>2. wide \in Seq(Tasks) /\ Boards(wide, 7) /\ \A i \in 1..7 : wide[i].minutes >= 20
    BY <2>1, WideBodyTemplate DEF Template
  <2>3. PICK scaled : scaled = ScaleTasks(wide, percent)
    OBVIOUS
  <2>4. /\ scaled \in Seq(Tasks) /\ Boards(scaled, 7)
        /\ \A i \in 1..7 : 2 * scaled[i].minutes >= wide[i].minutes
    <3>1. PICK n \in Nat \ {0} : n = 7
      OBVIOUS
    <3>2. percent \in Percents
      BY DEF Percents
    <3>3. Boards(wide, n)
      BY <2>2, <3>1
    <3>4. /\ scaled \in Seq(Tasks) /\ Boards(scaled, n)
          /\ \A i \in 1..n : 2 * scaled[i].minutes >= wide[i].minutes
      BY <2>2, <2>3, <3>2, <3>3, ScalingKeepsTasks
    <3>5. QED
      BY <3>1, <3>4
  <2>5. \A i \in 1..7 : wide[i].minutes \in Nat /\ scaled[i].minutes \in Nat
    BY <2>2, <2>4 DEF Boards, Tasks
  <2>6. ASSUME NEW i \in 1..7
        PROVE  scaled[i].minutes >= 10
    <3>1. PICK before, after :
            before = wide[i].minutes /\ after = scaled[i].minutes
      OBVIOUS
    <3>2. before \in Nat /\ after \in Nat /\ before >= 20 /\ 2 * after >= before
      BY <2>2, <2>4, <2>5, <3>1
    <3>3. QED
      BY <3>1, <3>2
  <2>7. QED
    BY <2>1, <2>3, <2>4, <2>6 DEF Template
<1>2. TasksForAircraft(type) \in
        {WideBodyTasks, ScaleTasks(WideBodyTasks, 85), ScaleTasks(WideBodyTasks, 80),
         NarrowBodyTasks}
  BY DEF TasksForAircraft
<1>3. QED
  BY <1>1, <1>2, WideBodyTemplate, NarrowBodyTemplate

\* The elements of a concatenation.
Joined(j, s, t) ==
  /\ Len(j) = Len(s) + Len(t)
  /\ \A i \in 1..(Len(s) + Len(t)) : j[i] = IF i <= Len(s) THEN s[i] ELSE t[i - Len(s)]

LEMMA JoinedLists ==
  ASSUME NEW S, NEW s \in Seq(S), NEW t \in Seq(S)
  PROVE  s \o t \in Seq(S) /\ Joined(s \o t, s, t)
BY ConcatProperties DEF Joined

\* The list is sound for any type and any durations of de-icing.
LEMMA ListIsSound ==
  ASSUME NEW type, NEW percent \in {100, 120}, NEW deIcing \in BOOLEAN,
         NEW holdover \in Nat \ {0}
  PROVE  SoundTaskList(TaskList(type, percent, deIcing, holdover), type, deIcing)
<1>1. PICK template : template = TasksForAircraft(type)
  OBVIOUS
<1>2. PICK n \in Nat \ {0} : Template(template, n)
  BY <1>1, TypeHasTemplate
<1>3. PICK scaled : scaled = ScaleTasks(template, percent)
  OBVIOUS
<1>4. /\ scaled \in Seq(Tasks) /\ Boards(scaled, n)
      /\ \A i \in 1..n : /\ scaled[i].name = template[i].name
                         /\ 2 * scaled[i].minutes >= template[i].minutes
  <2>1. percent \in Percents
    BY DEF Percents
  <2>2. template \in Seq(Tasks) /\ Boards(template, n)
    BY <1>2 DEF Template
  <2>3. QED
    BY <1>3, <2>1, <2>2, ScalingKeepsTasks
<1>5. \A i \in 1..n : /\ scaled[i].minutes \in Nat /\ scaled[i].order = i
                      /\ scaled[i].minutes > 0
  <2>1. \A i \in 1..n : scaled[i].minutes \in Nat /\ template[i].minutes \in Nat
    BY <1>2, <1>4 DEF Template, Boards, Tasks
  <2>2. \A i \in 1..n : template[i].minutes >= 10
    BY <1>2 DEF Template
  <2>3. QED
    BY <1>4, <2>1, <2>2 DEF Boards
<1>6. PICK names : names = Names(template)
  OBVIOUS
<1>7. /\ names \in Seq(TaskNames) /\ Len(names) = n
      /\ \A i \in 1..n : names[i] = template[i].name
  <2>1. DOMAIN template = 1..n /\ \A i \in 1..n : template[i].name \in TaskNames
    BY <1>2 DEF Template, Boards, Tasks
  <2>2. names = [i \in 1..n |-> template[i].name]
    BY <1>6, <2>1 DEF Names
  <2>3. QED
    BY <2>1, <2>2
<1>8. PICK front : front = Front(names)
  OBVIOUS
<1>9. /\ front \in Seq(TaskNames) /\ Len(front) = n - 1
      /\ \A i \in 1..(n - 1) : front[i] = names[i]
  BY <1>7, <1>8 DEF Front
<1>10. PICK list : list = TaskList(type, percent, deIcing, holdover)
  OBVIOUS
<1>11. CASE deIcing
  <2>1. list = InjectDeIcing(scaled, holdover)
    BY <1>1, <1>3, <1>10, <1>11 DEF TaskList
  <2>2. /\ DOMAIN list = 1..(n + 1)
        /\ \A i \in 1..(n - 1) : list[i] = scaled[i]
        /\ list[n] = Task("de_icing", holdover, n)
        /\ list[n + 1] = [scaled[n] EXCEPT !.order = n + 1]
    BY <1>4, <2>1, DeIcingPlace
  <2>3. /\ list[n].name = "de_icing" /\ list[n].minutes = holdover /\ list[n].order = n
    BY <2>2 DEF Task
  <2>4. /\ list[n + 1].name = "boarding" /\ list[n + 1].order = n + 1
        /\ list[n + 1].minutes = scaled[n].minutes
    BY <1>4, <2>2 DEF Boards, Tasks
  <2>5. \A i \in DOMAIN list : list[i].order = i /\ list[i].minutes > 0
    <3>1. ASSUME NEW i \in 1..(n + 1)
          PROVE  i \in 1..(n - 1) \/ i = n \/ i = n + 1
      OBVIOUS
    <3>2. \A i \in 1..(n - 1) : list[i].order = i /\ list[i].minutes > 0
      BY <1>5, <2>2
    <3>3. list[n + 1].minutes > 0
      BY <1>5, <2>4
    <3>4. ASSUME NEW i \in 1..(n + 1)
          PROVE  list[i].order = i /\ list[i].minutes > 0
      BY <2>3, <2>4, <3>1, <3>2, <3>3
    <3>5. QED
      BY <2>2, <3>4
  <2>6. Names(list) = front \o <<"de_icing", "boarding">>
    <3>1. PICK last : last = <<"de_icing", "boarding">>
      OBVIOUS
    <3>2. /\ last \in Seq(TaskNames) /\ Len(last) = 2
          /\ last[1] = "de_icing" /\ last[2] = "boarding"
      BY <3>1 DEF TaskNames
    <3>3. PICK joined : joined = front \o last
      OBVIOUS
    <3>4. joined \in Seq(TaskNames) /\ Joined(joined, front, last)
      <4>1. front \in Seq(TaskNames) /\ last \in Seq(TaskNames)
        BY <1>9, <3>2
      <4>2. front \o last \in Seq(TaskNames) /\ Joined(front \o last, front, last)
        BY <4>1, JoinedLists
      <4>3. QED
        BY <3>3, <4>2
    <3>5. /\ joined \in Seq(TaskNames) /\ Len(joined) = n + 1
          /\ \A i \in 1..(n - 1) : joined[i] = front[i]
          /\ joined[n] = "de_icing" /\ joined[n + 1] = "boarding"
      <4>1. /\ Len(joined) = (n - 1) + 2 /\ joined \in Seq(TaskNames)
            /\ \A i \in 1..((n - 1) + 2) :
                 joined[i] = IF i <= n - 1 THEN front[i] ELSE last[i - (n - 1)]
        BY <1>9, <3>2, <3>4 DEF Joined
      <4>2. \A i \in 1..(n - 1) : joined[i] = front[i]
        BY <4>1
      <4>3. joined[n] = last[1] /\ joined[n + 1] = last[2]
        BY <4>1
      <4>4. QED
        BY <3>2, <4>1, <4>2, <4>3
    <3>6. Names(list) = [i \in 1..(n + 1) |-> list[i].name]
      BY <2>2 DEF Names
    <3>7. \A i \in 1..(n + 1) : list[i].name = joined[i]
      <4>1. \A i \in 1..(n - 1) : list[i].name = joined[i]
        <5>1. \A i \in 1..(n - 1) : i \in 1..n
          OBVIOUS
        <5>2. \A i \in 1..(n - 1) : list[i].name = names[i]
          BY <1>4, <1>7, <2>2, <5>1
        <5>3. QED
          BY <1>9, <3>5, <5>2
      <4>2. QED
        BY <2>3, <2>4, <3>5, <4>1
    <3>8. joined = [i \in 1..(n + 1) |-> joined[i]]
      BY <3>5
    <3>9. QED
      BY <3>1, <3>3, <3>6, <3>7, <3>8
  <2>7. QED
    BY <1>1, <1>6, <1>8, <1>10, <1>11, <2>5, <2>6 DEF SoundTaskList
<1>12. CASE ~deIcing
  <2>1. list = scaled
    BY <1>1, <1>3, <1>10, <1>12 DEF TaskList
  <2>2. DOMAIN list = 1..n
    BY <1>4, <2>1 DEF Boards
  <2>3. \A i \in DOMAIN list : list[i].order = i /\ list[i].minutes > 0
    BY <1>5, <2>1, <2>2
  <2>4. Names(list) = front \o <<"boarding">>
    <3>1. PICK last : last = <<"boarding">>
      OBVIOUS
    <3>2. last \in Seq(TaskNames) /\ Len(last) = 1 /\ last[1] = "boarding"
      BY <3>1 DEF TaskNames
    <3>3. PICK joined : joined = front \o last
      OBVIOUS
    <3>4. joined \in Seq(TaskNames) /\ Joined(joined, front, last)
      <4>1. front \in Seq(TaskNames) /\ last \in Seq(TaskNames)
        BY <1>9, <3>2
      <4>2. front \o last \in Seq(TaskNames) /\ Joined(front \o last, front, last)
        BY <4>1, JoinedLists
      <4>3. QED
        BY <3>3, <4>2
    <3>5. /\ joined \in Seq(TaskNames) /\ Len(joined) = n
          /\ \A i \in 1..(n - 1) : joined[i] = front[i]
          /\ joined[n] = "boarding"
      <4>1. /\ Len(joined) = (n - 1) + 1 /\ joined \in Seq(TaskNames)
            /\ \A i \in 1..((n - 1) + 1) :
                 joined[i] = IF i <= n - 1 THEN front[i] ELSE last[i - (n - 1)]
        BY <1>9, <3>2, <3>4 DEF Joined
      <4>2. \A i \in 1..(n - 1) : joined[i] = front[i]
        BY <4>1
      <4>3. joined[n] = last[1]
        BY <4>1
      <4>4. QED
        BY <3>2, <4>1, <4>2, <4>3
    <3>6. Names(list) = [i \in 1..n |-> list[i].name]
      BY <2>2 DEF Names
    <3>7. \A i \in 1..n : list[i].name = joined[i]
      <4>1. list[n].name = "boarding"
        BY <1>4, <2>1 DEF Boards
      <4>2. \A i \in 1..(n - 1) : list[i].name = names[i]
        BY <1>4, <1>7, <2>1
      <4>3. \A i \in 1..(n - 1) : list[i].name = joined[i]
        BY <1>9, <3>5, <4>2
      <4>4. QED
        BY <3>5, <4>1, <4>3
    <3>8. joined = [i \in 1..n |-> joined[i]]
      BY <3>5
    <3>9. QED
      BY <3>1, <3>3, <3>6, <3>7, <3>8
  <2>5. QED
    BY <1>1, <1>6, <1>8, <1>10, <1>12, <2>3, <2>4 DEF SoundTaskList
<1>13. QED
  BY <1>11, <1>12

\* Whatever types, reports and calls there are, the task list of every document, and of
\* every type, factor and holdover, is numbered, takes time, and is the template with
\* de-icing before boarding exactly when the report asks for it.
LEMMA ListsAreSound == TaskListsAreSound
<1>1. EveryTaskListIsSound
  <2>1. \A holdover \in {20, 30, 45} : holdover \in Nat \ {0}
    OBVIOUS
  <2>2. QED
    BY <2>1, ListIsSound DEF EveryTaskListIsSound
<1>2. ASSUME NEW i \in DOMAIN documents
      PROVE  SoundTaskList(TasksOf(documents[i]), TypeOf[documents[i].flight],
                           NeedsDeIcing(documents[i].decided))
  <2>1. PICK plan, percent, deIcing, holdover, type :
          /\ plan = documents[i] /\ type = TypeOf[plan.flight]
          /\ percent = Percent(plan.scaled) /\ deIcing = NeedsDeIcing(plan.decided)
          /\ holdover = Holdover(plan.holdover)
    OBVIOUS
  <2>2. percent \in {100, 120}
    BY <2>1 DEF Percent
  <2>3. deIcing \in BOOLEAN
    BY <2>1 DEF NeedsDeIcing
  <2>4. holdover \in Nat \ {0}
    <3>1. holdover \in {20, 30, 45}
      BY <2>1 DEF Holdover
    <3>2. QED
      BY <3>1
  <2>5. SoundTaskList(TaskList(type, percent, deIcing, holdover), type, deIcing)
    BY <2>2, <2>3, <2>4, ListIsSound
  <2>6. QED
    BY <2>1, <2>5 DEF TasksOf
<1>3. QED
  BY <1>1, <1>2 DEF TaskListsAreSound

\* The task lists of all documents are sound, whatever the weather was and whatever became
\* of the cache while they were planned.
THEOREM TaskListsSound == Spec => []TaskListsAreSound
  BY ListsAreSound, PTL

----------------------------------------------------------------------------

\* The refinement of ArrivalHandling, whose state these two are.
Stage(h) ==
  CASE h.pc = "expected" -> "expected"
    [] h.pc = "done"     -> "handled"
    [] OTHER             -> "announced"

Stages == [a \in Arrivals |-> Stage(calls[a])]

Served == {documents[i].flight : i \in DOMAIN documents}

\* The values of a stage.
LEMMA StageOf ==
  ASSUME NEW h
  PROVE  /\ h.pc = "expected" => Stage(h) = "expected"
         /\ h.pc = "done" => Stage(h) = "handled"
         /\ h.pc # "expected" /\ h.pc # "done" => Stage(h) = "announced"
  BY DEF Stage

\* The state that the refinement maps to is Stages and Served.
LEMMA Mapped ==
  /\ Promise!Init <=> Stages = [a \in Arrivals |-> "expected"] /\ Served = {}
  /\ UNCHANGED <<Stages, Served>> => UNCHANGED Promise!vars
  /\ \A a : Promise!Announce(a) <=> /\ Stages[a] = "expected"
                                    /\ Stages' = [Stages EXCEPT ![a] = "announced"]
                                    /\ Served' = Served
  /\ \A a : Promise!Finish(a) <=> /\ Stages[a] = "announced"
                                  /\ FlightOf[a] \in Served
                                  /\ Stages' = [Stages EXCEPT ![a] = "handled"]
                                  /\ Served' = Served
  /\ \A f : Promise!Serve(f) <=> Served' = Served \cup {f} /\ Stages' = Stages
  BY DEF Promise!Init, Promise!vars, Promise!Announce, Promise!Finish, Promise!Serve,
         Stages, Served, Stage

\* The collection and the stages start empty.
LEMMA PromiseInit == Init => Promise!Init
<1> SUFFICES ASSUME Init PROVE Promise!Init
  OBVIOUS
<1>1. Served = {}
  BY DEF Init, Served
<1>2. \A a \in Arrivals : calls[a].pc = "expected"
  BY DEF Init, Fresh, Calls
<1>3. Stages = [a \in Arrivals |-> "expected"]
  BY <1>2, StageOf DEF Stages
<1> QED
  BY <1>1, <1>3, Mapped

\* A step that moves call c only, to h.
LEMMA OneMoves ==
  ASSUME IInv, NEW c \in Calls, NEW h, calls' = [calls EXCEPT ![c] = h]
  PROVE  /\ c \in Arrivals => /\ Stages' = [Stages EXCEPT ![c] = Stage(h)]
                              /\ Stages[c] = Stage(calls[c])
         /\ c \notin Arrivals \/ Stage(h) = Stage(calls[c]) => Stages' = Stages
<1>1. calls'[c] = h /\ \A d \in Calls : d # c => calls'[d] = calls[d]
  BY DEF IInv, TypeOK
<1>2. Arrivals \subseteq Calls
  BY DEF Calls
<1> QED
  BY <1>1, <1>2 DEF Stages

\* A step between two awaits of one call, neither first nor last.
LEMMA MidStep ==
  ASSUME IInv, NEW c \in Calls, NEW h, calls' = [calls EXCEPT ![c] = h],
         documents' = documents, calls[c].pc # "expected", calls[c].pc # "done",
         c \in Arrivals => h.pc # "expected" /\ h.pc # "done"
  PROVE  UNCHANGED Promise!vars
<1>1. Stages' = Stages
  <2>1. Stage(calls[c]) = "announced"
    BY StageOf
  <2>2. CASE c \in Arrivals
    <3>1. Stage(h) = "announced"
      BY <2>2, StageOf
    <3> QED
      BY <2>1, <3>1, OneMoves, Zenon
  <2>3. CASE c \notin Arrivals
    BY <2>3, OneMoves, Zenon
  <2> QED
    BY <2>2, <2>3
<1>2. Served' = Served
  BY DEF Served
<1> QED
  BY <1>1, <1>2, Mapped

\* The end of a message whose flight has a turnaround, or of a request.
LEMMA EndStep ==
  ASSUME IInv, NEW c \in Calls, calls' = Done(c), documents' = documents,
         calls[c].pc # "expected", calls[c].pc # "done",
         \E i \in DOMAIN documents : documents[i].flight = FlightOf[c]
  PROVE  [Promise!Next]_(Promise!vars)
<1> DEFINE H == Fresh(c, "done")
<1>1. calls' = [calls EXCEPT ![c] = H]
  BY DEF Done
<1>2. H.pc = "done"
  BY DEF Fresh
<1> HIDE DEF H
<1>3. Served' = Served /\ FlightOf[c] \in Served
  BY DEF Served
<1>4. CASE c \in Arrivals
  <2>1. Stages' = [Stages EXCEPT ![c] = "handled"] /\ Stages[c] = "announced"
    <3>1. Stage(H) = "handled" /\ Stage(calls[c]) = "announced"
      BY <1>2, StageOf
    <3> QED
      <4>1. Stages' = [Stages EXCEPT ![c] = Stage(H)]
        BY <1>1, <1>4, OneMoves, Zenon
      <4>2. Stages[c] = Stage(calls[c])
        BY <1>1, <1>4, OneMoves, Zenon
      <4> QED
        BY <3>1, <4>1, <4>2
  <2>2. Promise!Finish(c)
    BY <1>3, <2>1, Mapped
  <2> QED
    BY <1>4, <2>2 DEF Promise!Next
<1>5. CASE c \notin Arrivals
  <2>1. Stages' = Stages
    BY <1>1, <1>5, OneMoves
  <2> QED
    BY <1>3, <2>1, Mapped
<1> QED
  BY <1>4, <1>5

\* What an answer leaves a call to do.
LEMMA AnswerPc ==
  ASSUME NEW h \in Call, NEW w, NEW W
  PROVE  Answer(h, w, W).pc # "expected" /\ Answer(h, w, W).pc # "done"
  BY DEF Answer, Call

\* A call that has stored its document and goes on, or fails with its arrival requeued.
LEMMA StoredMapped ==
  ASSUME IInv, NEW c \in Calls, NEW H, calls[c].pc = "create",
         documents' = Append(documents, calls[c].plan),
         calls' = [calls EXCEPT ![c] = H],
         c \in Arrivals => H.pc # "expected" /\ H.pc # "done"
  PROVE  [Promise!Next]_(Promise!vars)
<1> DEFINE p == calls[c].plan
<1>1. documents' = Append(documents, p)
  OBVIOUS
<1>2. /\ p.flight = FlightOf[c] /\ documents \in Seq(Plan) /\ p \in Plan
      /\ FlightOf[c] \in Flights
  BY CallTyped DEF Own, IInv, TypeOK, Call
<1> HIDE DEF p
<1>3. Stages' = Stages
  <2>1. CASE c \in Arrivals
    <3>1. Stage(H) = "announced" /\ Stage(calls[c]) = "announced"
      BY <2>1, StageOf
    <3> QED
      BY <3>1, OneMoves, Zenon
  <2>2. CASE c \notin Arrivals
    BY <2>2, OneMoves, Zenon
  <2> QED
    BY <2>1, <2>2
<1>4. Served' = Served \cup {FlightOf[c]}
  BY <1>1, <1>2 DEF Served
<1>5. Promise!Serve(FlightOf[c])
  BY <1>3, <1>4, Mapped
<1> QED
  BY <1>2, <1>5 DEF Promise!Next

\* Handling: only Create serves a flight, and only the ends of Find and PublishStarted
\* finish an arrival.
LEMMA HandleMapped ==
  ASSUME IInv, NEW c \in Calls, Handle(c)
  PROVE  [Promise!Next]_(Promise!vars)
<1>1. calls[c] \in Call /\ FlightOf[c] \in Flights /\ calls \in [Calls -> Call]
  BY CallTyped DEF IInv, TypeOK
<1>2. CASE Find(c)
  <2>1. CASE Begin(c)
    <3> DEFINE H == [calls[c] EXCEPT !.pc = "de-icing"]
    <3>1. calls' = [calls EXCEPT ![c] = H] /\ calls[c].pc = "queued" /\ documents' = documents
      BY <1>2, <2>1 DEF Begin, Find, store
    <3>2. H.pc = "de-icing"
      BY <1>1 DEF Call
    <3> HIDE DEF H
    <3>3. UNCHANGED Promise!vars
      BY <3>1, <3>2, MidStep
    <3> QED
      BY <3>3
  <2>2. CASE /\ \E i \in DOMAIN documents : documents[i].flight = FlightOf[c]
             /\ calls' = Done(c)
             /\ UNCHANGED <<store, weather, history>>
    BY <1>2, <2>2, EndStep DEF Find, store
  <2> QED
    BY <1>2, <2>1, <2>2 DEF Find
<1>3. CASE AskWeather(c)
  <2>1. documents' = documents /\ calls[c].pc # "expected" /\ calls[c].pc # "done"
    BY <1>3 DEF AskWeather, store
  <2>2. PICK h : calls' = [calls EXCEPT ![c] = h] /\ h.pc # "expected" /\ h.pc # "done"
    <3>1. CASE calls' = [calls EXCEPT ![c] = Answer(calls[c], cache, cache)]
      <4>1. /\ Answer(calls[c], cache, cache).pc # "expected"
            /\ Answer(calls[c], cache, cache).pc # "done"
        BY <1>1, AnswerPc
      <4> QED
        BY <3>1, <4>1, Zenon
    <3>2. CASE calls' = [calls EXCEPT ![c].pc = IF @ = "factor" THEN "factor fetch"
                                                ELSE "de-icing fetch",
                                      ![c].started = now]
      <4> DEFINE H == [calls[c] EXCEPT !.pc = IF @ = "factor" THEN "factor fetch"
                                              ELSE "de-icing fetch",
                                       !.started = now]
      <4>1. calls' = [calls EXCEPT ![c] = H]
        BY <1>1, <3>2
      <4>2. H.pc # "expected" /\ H.pc # "done"
        BY <1>1 DEF Call
      <4> HIDE DEF H
      <4> QED
        BY <4>1, <4>2
    <3> QED
      BY <1>3, <3>1, <3>2 DEF AskWeather
  <2>3. UNCHANGED Promise!vars
    BY <2>1, <2>2, MidStep
  <2> QED
    BY <2>3
<1>4. CASE FetchRefused(c)
  <2>1. documents' = documents /\ calls[c].pc # "expected" /\ calls[c].pc # "done"
    BY <1>4 DEF FetchRefused, Fetching, store
  <2>2. PICK w \in Report :
          calls' = [calls EXCEPT ![c] = Disturbed(Answer(calls[c], w, cache))]
    BY <1>4, CallTyped DEF FetchRefused, Report
  <2> DEFINE A == Answer(calls[c], w, cache)
  <2>3. A \in Call
    <3>1. cache \in Report /\ now \in Nat /\ fetchedAt \in Nat /\ Own(c, calls[c])
      BY CallTyped
    <3>2. calls[c].pc = "de-icing fetch" \/ calls[c].pc = "factor fetch"
      BY <1>4 DEF FetchRefused, Fetching
    <3> QED
      BY <1>1, <3>1, <3>2, DeIcingAnswered, FactorAnswered
  <2>4. A.pc # "expected" /\ A.pc # "done"
    BY <1>1, AnswerPc
  <2>5. calls' = [calls EXCEPT ![c] = Disturbed(A)]
    BY <2>2
  <2> HIDE DEF A
  <2>6. Disturbed(A).pc = A.pc
    BY <2>3, DisturbedKeeps, Zenon
  <2>7. UNCHANGED Promise!vars
    BY <2>1, <2>4, <2>5, <2>6, MidStep
  <2> QED
    BY <2>7
<1>5. CASE Create(c)
  <2> DEFINE H == [Fresh(c, "publish") EXCEPT !.document = Len(documents) + 1]
  <2>1. /\ documents' = Append(documents, calls[c].plan) /\ calls' = [calls EXCEPT ![c] = H]
        /\ calls[c].pc = "create"
    BY <1>5 DEF Create
  <2>2. H.pc = "publish"
    BY DEF Fresh
  <2> HIDE DEF H
  <2> QED
    BY <2>1, <2>2, StoredMapped
<1>6. CASE PublishStarted(c)
  <2>1. /\ documents' = documents /\ calls' = Done(c) /\ calls[c].pc = "publish"
    BY <1>6 DEF PublishStarted
  <2>2. \E i \in DOMAIN documents : documents[i].flight = FlightOf[c]
    BY <2>1, CallTyped DEF Placed
  <2> QED
    BY <2>1, <2>2, EndStep
<1>7. CASE \E w \in Reports : Fetched(c, w)
  <2>1. PICK w \in Reports : Fetched(c, w)
    BY <1>7
  <2>2. documents' = documents
    BY <2>1 DEF Fetched, Store, store
  <2>3. ASSUME NEW a \in Arrivals PROVE Stage(calls'[a]) = Stage(calls[a])
    <3>1. a \in Calls /\ calls[a] \in Call
      BY CallTyped DEF Calls
    <3>2. CASE a = c
      <4>1. calls'[a] = Answer(calls[c], w, w)
        BY <2>1, <3>1, <3>2 DEF Fetched, Store
      <4>2. calls[c].pc # "expected" /\ calls[c].pc # "done"
        BY <2>1 DEF Fetched, Fetching
      <4>3. calls'[a].pc # "expected" /\ calls'[a].pc # "done"
        BY <1>1, <4>1, AnswerPc
      <4> QED
        BY <3>2, <4>2, <4>3, StageOf
    <3>3. CASE a # c
      <4>1. calls'[a] = Disturbed(calls[a])
        BY <2>1, <3>1, <3>3 DEF Fetched, Store
      <4>2. calls'[a].pc = calls[a].pc
        BY <3>1, <4>1, DisturbedKeeps, Zenon
      <4> QED
        BY <4>2 DEF Stage
    <3> QED
      BY <3>2, <3>3
  <2>4. Stages' = Stages /\ Served' = Served
    BY <2>2, <2>3 DEF Stages, Served
  <2> QED
    BY <2>4, Mapped
<1> QED
  BY <1>2, <1>3, <1>4, <1>5, <1>6, <1>7 DEF Handle

\* Every step of the service is a step that ArrivalHandling allows, or none.
LEMMA PromiseNext ==
  ASSUME IInv, [Next]_vars
  PROVE  [Promise!Next]_(Promise!vars)
<1>1. CASE \E c \in Arrivals : Arrive(c)
  <2>1. PICK c \in Arrivals : Arrive(c)
    BY <1>1
  <2>2. c \in Calls /\ calls[c] \in Call
    BY CallTyped DEF Calls
  <2> DEFINE H == [calls[c] EXCEPT !.pc = "queued"]
  <2>3. /\ calls' = [calls EXCEPT ![c] = H] /\ documents' = documents
        /\ calls[c].pc = "expected"
    BY <2>1 DEF Arrive, store
  <2>4. H.pc = "queued"
    BY <2>2 DEF Call
  <2> HIDE DEF H
  <2>5. Stages' = [Stages EXCEPT ![c] = "announced"] /\ Stages[c] = "expected"
    <3>1. Stage(H) = "announced" /\ Stage(calls[c]) = "expected"
      BY <2>3, <2>4, StageOf
    <3> QED
      BY <2>2, <2>3, <3>1, OneMoves
  <2>6. Promise!Announce(c)
    BY <2>3, <2>5, Mapped DEF Served
  <2> QED
    BY <2>6 DEF Promise!Next
<1>2. CASE \E c \in Calls : Handle(c)
  BY <1>2, HandleMapped
<1>3. CASE \E c \in Calls : DatabaseError(c) \/ CreateUnanswered(c)
  <2>1. PICK c \in Calls : DatabaseError(c) \/ CreateUnanswered(c)
    BY <1>3
  <2> DEFINE H == Fresh(c, Failed(c))
  <2>2. calls' = [calls EXCEPT ![c] = H]
    BY <2>1 DEF DatabaseError, Fail, CreateUnanswered
  <2>3. c \in Arrivals => H.pc = "queued"
    BY DEF Fresh, Failed
  <2> HIDE DEF H
  <2>4. CASE DatabaseError(c)
    <3>1. documents' = documents /\ calls[c].pc # "expected" /\ calls[c].pc # "done"
      BY <2>4 DEF DatabaseError, Fail, store
    <3>2. UNCHANGED Promise!vars
      BY <2>2, <2>3, <3>1, MidStep
    <3> QED
      BY <3>2
  <2>5. CASE CreateUnanswered(c)
    <3>1. documents' = Append(documents, calls[c].plan) /\ calls[c].pc = "create"
      BY <2>5 DEF CreateUnanswered
    <3> QED
      BY <2>2, <2>3, <3>1, StoredMapped
  <2> QED
    BY <2>1, <2>4, <2>5
<1>4. CASE Restart
  <2>1. ASSUME NEW a \in Arrivals PROVE Stage(calls'[a]) = Stage(calls[a])
    <3>1. a \in Calls
      BY DEF Calls
    <3>2. CASE Running(calls[a])
      <4>1. calls'[a] = Fresh(a, "queued")
        BY <1>4, <3>1, <3>2 DEF Restart, Failed
      <4>2. calls'[a].pc = "queued"
        BY <4>1 DEF Fresh
      <4>3. calls[a].pc # "expected" /\ calls[a].pc # "done"
        BY <3>2 DEF Running
      <4> QED
        BY <4>2, <4>3, StageOf
    <3>3. CASE ~Running(calls[a])
      BY <1>4, <3>1, <3>3 DEF Restart
    <3> QED
      BY <3>2, <3>3
  <2>2. Stages' = Stages /\ Served' = Served
    BY <1>4, <2>1 DEF Restart, store, Stages, Served
  <2> QED
    BY <2>2, Mapped
<1>5. CASE Tick
  <2>1. ASSUME NEW a \in Arrivals PROVE Stage(calls'[a]) = Stage(calls[a])
    <3>1. a \in Calls /\ calls[a] \in Call
      BY CallTyped DEF Calls
    <3>2. calls'[a] = Disturbed(calls[a])
      BY <1>5, <3>1 DEF Tick
    <3>3. calls'[a].pc = calls[a].pc
      BY <3>1, <3>2, DisturbedKeeps, Zenon
    <3> QED
      BY <3>3 DEF Stage
  <2>2. Stages' = Stages /\ Served' = Served
    BY <1>5, <2>1 DEF Tick, store, Stages, Served
  <2> QED
    BY <2>2, Mapped
<1>6. CASE UNCHANGED vars
  <2>1. Stages' = Stages /\ Served' = Served
    BY <1>6 DEF vars, Stages, Served
  <2> QED
    BY <2>1, Mapped
<1> QED
  BY <1>1, <1>2, <1>3, <1>4, <1>5, <1>6 DEF Next

\* The service never does what ArrivalHandling forbids: an arrival is finished only
\* after it was announced and once its flight has a turnaround, and no arrival goes
\* back, whatever fails.  (That each is finished in the end is left to TLC.)
THEOREM PromiseKept == Spec => Promise!Init /\ [][Promise!Next]_(Promise!vars)
<1>1. Init => Promise!Init
  BY PromiseInit
<1>2. IInv /\ [Next]_vars => [Promise!Next]_(Promise!vars)
  BY PromiseNext
<1> QED
  BY <1>1, <1>2, InvariantHolds, PTL DEF Spec
=============================================================================
