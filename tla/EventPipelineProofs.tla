------------------------ MODULE EventPipelineProofs ------------------------
(***************************************************************************)
(* What holds of EventPipeline for any events, budgets, accounts, queries  *)
(* and streams.                                                            *)
(*                                                                         *)
(* IInv, proved in Invariance, has one part per component: the types,      *)
(* Audited for the consumer of the Ops Hub, SessionInv for the account of  *)
(* the tab, StreamInv for its streams and PatchInv for its answers.        *)
(* CacheInv and CopiesInv are invariants relative to it, of what queries   *)
(* have been told of and of the copies that the broker has of an event.    *)
(***************************************************************************)
EXTENDS EventPipeline, SequenceTheorems, TLAPS

Requests == {"idle", "current", "old", "sent", "failed"}

----------------------------------------------------------------------------

LEMMA ItemsOfNone == Items(<<>>) = {}
BY DEF Items

LEMMA ItemsOfAppend ==
  ASSUME NEW S, NEW s \in Seq(S), NEW e \in S
  PROVE  Append(s, e) \in Seq(S) /\ Items(Append(s, e)) = Items(s) \cup {e}
<1>1. /\ Append(s, e) \in Seq(S)
      /\ Len(Append(s, e)) = Len(s) + 1
      /\ \A i \in 1 .. Len(s) : Append(s, e)[i] = s[i]
      /\ Append(s, e)[Len(s) + 1] = e
  BY AppendProperties
<1>2. Len(s) \in Nat /\ DOMAIN s = 1 .. Len(s) /\ DOMAIN Append(s, e) = 1 .. (Len(s) + 1)
  BY <1>1
<1>3. 1 .. (Len(s) + 1) = 1 .. Len(s) \cup {Len(s) + 1}
  BY <1>2
<1>4. QED
  BY <1>1, <1>2, <1>3 DEF Items

LEMMA ItemsOfConcat ==
  ASSUME NEW S, NEW s \in Seq(S), NEW t \in Seq(S)
  PROVE  s \o t \in Seq(S) /\ Items(s \o t) = Items(s) \cup Items(t)
<1>1. /\ s \o t \in Seq(S)
      /\ Len(s \o t) = Len(s) + Len(t)
      /\ \A i \in 1 .. Len(s) + Len(t) :
           (s \o t)[i] = IF i <= Len(s) THEN s[i] ELSE t[i - Len(s)]
  BY ConcatProperties
<1>2. /\ Len(s) \in Nat /\ Len(t) \in Nat
      /\ DOMAIN s = 1 .. Len(s) /\ DOMAIN t = 1 .. Len(t)
      /\ DOMAIN (s \o t) = 1 .. (Len(s) + Len(t))
  BY <1>1
<1>3. Items(s \o t) \subseteq Items(s) \cup Items(t)
  <2>1. SUFFICES ASSUME NEW i \in 1 .. (Len(s) + Len(t))
                 PROVE  (s \o t)[i] \in Items(s) \cup Items(t)
    BY <1>2 DEF Items
  <2>2. CASE i <= Len(s)
    BY <1>1, <1>2, <2>2 DEF Items
  <2>3. CASE i > Len(s)
    <3>1. i - Len(s) \in 1 .. Len(t)
      BY <1>2, <2>3
    <3>2. (s \o t)[i] = t[i - Len(s)]
      BY <1>1, <1>2, <2>3
    <3>3. QED
      BY <1>2, <3>1, <3>2 DEF Items
  <2>4. QED
    BY <1>2, <2>2, <2>3
<1>4. Items(s) \subseteq Items(s \o t)
  <2>1. SUFFICES ASSUME NEW i \in 1 .. Len(s) PROVE s[i] \in Items(s \o t)
    BY <1>2 DEF Items
  <2>2. i \in 1 .. (Len(s) + Len(t)) /\ (s \o t)[i] = s[i]
    BY <1>1, <1>2
  <2>3. QED
    BY <1>2, <2>2 DEF Items
<1>5. Items(t) \subseteq Items(s \o t)
  <2>1. SUFFICES ASSUME NEW i \in 1 .. Len(t) PROVE t[i] \in Items(s \o t)
    BY <1>2 DEF Items
  <2>2. i + Len(s) \in 1 .. (Len(s) + Len(t)) /\ (s \o t)[i + Len(s)] = t[i]
    BY <1>1, <1>2
  <2>3. QED
    BY <1>2, <2>2 DEF Items
<1>6. QED
  BY <1>1, <1>3, <1>4, <1>5

LEMMA ItemsOfTail ==
  ASSUME NEW S, NEW s \in Seq(S), s # <<>>
  PROVE  Head(s) \in S /\ Tail(s) \in Seq(S) /\ Items(s) = {Head(s)} \cup Items(Tail(s))
<1>1. /\ Head(s) \in S /\ Tail(s) \in Seq(S)
      /\ Len(s) \in Nat \ {0} /\ Len(Tail(s)) = Len(s) - 1
      /\ \A i \in 1 .. Len(Tail(s)) : Tail(s)[i] = s[i + 1]
  BY HeadTailProperties, EmptySeq
<1>2. Head(s) = s[1] /\ DOMAIN s = 1 .. Len(s) /\ DOMAIN Tail(s) = 1 .. (Len(s) - 1)
  BY <1>1
<1>3. Items(s) \subseteq {Head(s)} \cup Items(Tail(s))
  <2>1. SUFFICES ASSUME NEW i \in 1 .. Len(s), i # 1
                 PROVE  s[i] \in Items(Tail(s))
    BY <1>2 DEF Items
  <2>2. i - 1 \in 1 .. (Len(s) - 1) /\ s[i] = Tail(s)[i - 1]
    BY <1>1, <2>1
  <2>3. QED
    BY <1>2, <2>2 DEF Items
<1>4. Head(s) \in Items(s)
  BY <1>1, <1>2 DEF Items
<1>5. Items(Tail(s)) \subseteq Items(s)
  <2>1. SUFFICES ASSUME NEW i \in 1 .. (Len(s) - 1) PROVE Tail(s)[i] \in Items(s)
    BY <1>2 DEF Items
  <2>2. i + 1 \in 1 .. Len(s) /\ Tail(s)[i] = s[i + 1]
    BY <1>1, <2>1
  <2>3. QED
    BY <1>2, <2>2 DEF Items
<1>6. QED
  BY <1>1, <1>3, <1>4, <1>5

----------------------------------------------------------------------------

LEMMA OpenIsWatchedStep == OpenIsWatched /\ [Next]_vars => OpenIsWatched'
<1> SUFFICES ASSUME OpenIsWatched, [Next]_vars PROVE OpenIsWatched'
  OBVIOUS
<1> USE DEF OpenIsWatched
<1>1. CASE UNCHANGED publisher
  BY <1>1 DEF publisher
<1>2. CASE PublisherNext
  <2>1. CASE Reconnect
    BY <2>1 DEF Reconnect, DialSucceeds, DialFails, ConnectFails, Setup, Adopt, SetupFails,
                Register, Notified, ConnectionClosed
  <2>2. CASE \E e \in Events : Publish(e)
    BY <2>2 DEF Publish, TakeChannel, PublishReturnsNil, PublishFails
  <2>3. CASE FlightServiceRestarts
    BY <2>3 DEF FlightServiceRestarts
  <2>4. QED
    BY <1>2, <2>1, <2>2, <2>3 DEF PublisherNext
<1>3. CASE PublisherLosesConnection
  BY <1>3 DEF PublisherLosesConnection
<1>4. QED
  BY <1>1, <1>2, <1>3
     DEF Next, vars, BrokerStops, PublisherLinkBreaks, AuditLinkBreaks, OpsHubRestart,
         TabLinkBreaks

----------------------------------------------------------------------------

LEMMA SpendType ==
  ASSUME budget \in [Kinds -> Nat], NEW kind \in Kinds, Spend(kind)
  PROVE  budget' \in [Kinds -> Nat]
BY DEF Spend

LEMMA BrokerTypes == TypeOK /\ [Next]_vars => BrokerTypeOK'
<1> SUFFICES ASSUME TypeOK, [Next]_vars PROVE BrokerTypeOK'
  OBVIOUS
<1>1. up \in BOOLEAN /\ bound \in BOOLEAN /\ queue \in Seq(Events) /\ budget \in [Kinds -> Nat]
  BY DEF TypeOK, BrokerTypeOK
<1>2. CASE UNCHANGED broker
  BY <1>1, <1>2 DEF broker, BrokerTypeOK
<1>3. CASE UNCHANGED <<up, bound, queue>> /\ \E kind \in Kinds : Spend(kind)
  BY <1>1, <1>3, SpendType DEF BrokerTypeOK
<1>4. CASE BrokerStarts
  BY <1>1, <1>4 DEF BrokerStarts, BrokerTypeOK
<1>5. CASE BrokerStops
  <2>1. "outage" \in Kinds
    BY DEF Kinds
  <2>2. QED
    BY <1>1, <1>5, <2>1, SpendType DEF BrokerStops, BrokerTypeOK
<1>6. CASE \E e \in Events : PublishReturnsNil(e)
  <2>1. PICK e \in Events : PublishReturnsNil(e)
    BY <1>6
  <2>2. Append(queue, e) \in Seq(Events)
    BY <1>1, ItemsOfAppend
  <2>3. QED
    BY <1>1, <2>1, <2>2 DEF PublishReturnsNil, Route, BrokerTypeOK
<1>7. CASE Deliver
  <2>1. Tail(queue) \in Seq(Events)
    BY <1>1, <1>7, ItemsOfTail DEF Deliver
  <2>2. QED
    BY <1>1, <1>7, <2>1 DEF Deliver, BrokerTypeOK
<1>8. CASE Requeue
  <2>1. orphaned \in Seq(Events)
    BY DEF TypeOK, AuditTypeOK
  <2>2. orphaned \o queue \in Seq(Events)
    BY <1>1, <2>1, ItemsOfConcat
  <2>3. QED
    BY <1>1, <1>8, <2>2 DEF Requeue, BrokerTypeOK
<1>9. CASE SetupChannel
  BY <1>1, <1>9 DEF SetupChannel, BrokerTypeOK
<1>10. CASE PublisherNext
  <2>1. CASE \E e \in Events : Publish(e)
    <3>1. PICK e \in Events : TakeChannel(e) \/ PublishReturnsNil(e) \/ PublishFails(e)
      BY <2>1 DEF Publish
    <3>2. "request" \in Kinds
      BY DEF Kinds
    <3>3. QED
      BY <1>2, <1>3, <1>6, <3>1, <3>2 DEF TakeChannel, PublishFails
  <2>2. "flight" \in Kinds
    BY DEF Kinds
  <2>3. QED
    BY <1>2, <1>3, <1>10, <2>1, <2>2 DEF PublisherNext
<1>11. CASE Consume \/ InsertFails
  <2>1. "hub" \in Kinds
    BY DEF Kinds
  <2>2. CASE InsertFails
    BY <1>3, <2>1, <2>2 DEF InsertFails
  <2>3. CASE Consume
    BY <1>2, <1>9, <2>3 DEF Consume, Connect, NextDelivery, StreamEnds, Insert, Air, Ack
  <2>4. QED
    BY <1>11, <2>2, <2>3
<1>12. CASE TabInput /\ UNCHANGED <<up, bound, queue, publisher, audit>>
  <2>1. {"login", "click", "change"} \subseteq Kinds
    BY DEF Kinds
  <2>2. \E kind \in Kinds : Spend(kind)
    BY <1>12, <2>1
       DEF TabInput, SessionInput, FollowLink, SubmitLogin, OtherTab, CacheInput,
           OpenAlertsTab, FetchFails, ClickResolve, PatchFails, ElsewhereChanges, Reload
  <2>3. QED
    BY <1>3, <1>12, <2>2
<1>13. QED
  <2>1. "hub" \in Kinds /\ "flight" \in Kinds
    BY DEF Kinds
  <2>2. CASE BrokerStarts \/ BrokerStops \/ PublisherNext
    BY <1>4, <1>5, <1>10, <2>2
  <2>3. CASE PublisherLinkBreaks \/ AuditLinkBreaks \/ OpsHubRestart \/ TabLinkBreaks
    BY <1>3, <2>1, <2>3 DEF PublisherLinkBreaks, AuditLinkBreaks, OpsHubRestart, TabLinkBreaks
  <2>4. CASE Consume \/ InsertFails \/ Deliver \/ Requeue
    BY <1>7, <1>8, <1>11, <2>4
  <2>5. CASE TabInput /\ UNCHANGED <<up, bound, queue, publisher, audit>>
    BY <1>12, <2>5
  <2>6. CASE UNCHANGED broker
    BY <1>2, <2>6
  <2>7. QED
    BY <2>2, <2>3, <2>4, <2>5, <2>6 DEF Next, vars

LEMMA PublisherTypes == TypeOK /\ [Next]_vars => PublisherTypeOK'
<1> SUFFICES ASSUME TypeOK, [Next]_vars PROVE PublisherTypeOK'
  OBVIOUS
<1>1. /\ conn \in {"none", "up", "broken", "closed"}
      /\ fresh \in {"none", "up", "broken"}
      /\ watcher \in {"dial", "setup", "register", "watch", "ended"}
      /\ attempt \in 0 .. (MaxDials - 1)
      /\ request \in [Events -> Requests]
      /\ dropped \subseteq Events
  BY DEF TypeOK, PublisherTypeOK, Requests
<1>2. 0 \in 0 .. (MaxDials - 1) /\ MaxDials \in Nat
  BY PublisherAssumption
<1> USE <1>1, <1>2 DEF PublisherTypeOK, Requests
<1>3. CASE UNCHANGED publisher
  BY <1>3 DEF publisher
<1>4. CASE PublisherLosesConnection
  BY <1>4 DEF PublisherLosesConnection
<1>5. CASE Reconnect
  <2>1. CASE DialSucceeds \/ SetupFails \/ Register \/ Notified \/ ConnectionClosed
    BY <2>1 DEF DialSucceeds, SetupFails, ConnectFails, Register, Notified, ConnectionClosed
  <2>2. CASE DialFails
    <3>1. CASE attempt + 1 < MaxDials
      <4>1. attempt + 1 \in 0 .. (MaxDials - 1)
        BY <3>1
      <4>2. QED
        BY <2>2, <3>1, <4>1 DEF DialFails
    <3>2. CASE ~(attempt + 1 < MaxDials)
      BY <2>2, <3>2 DEF DialFails, ConnectFails
    <3>3. QED
      BY <3>1, <3>2
  <2>3. CASE Setup
    BY <2>3 DEF Setup, Adopt
  <2>4. QED
    BY <1>5, <2>1, <2>2, <2>3 DEF Reconnect
<1>6. CASE \E e \in Events : Publish(e)
  BY <1>6 DEF Publish, TakeChannel, PublishReturnsNil, PublishFails
<1>7. CASE FlightServiceRestarts
  BY <1>7 DEF FlightServiceRestarts
<1>8. QED
  BY <1>3, <1>4, <1>5, <1>6, <1>7
     DEF Next, vars, BrokerStops, PublisherNext, PublisherLinkBreaks, AuditLinkBreaks,
         OpsHubRestart, TabLinkBreaks

\* The event has a row, or its insert failed.
Recorded(e) == logged[e] > 0 \/ e \in unlogged

\* The consumer has in its client what the broker sent on its connection, and has done
\* with the message in hand what comes before the step it is at.
AuditInv ==
  /\ task = "dial" => buffer = <<>> /\ link # "up"
  /\ task = "setup" => buffer = <<>>
  /\ link # "up" => unacked = <<>>
  /\ link = "up" => buffer = unacked
  /\ task \in {"insert", "air", "ack"} => buffer # <<>>
  /\ task \in {"air", "ack"} => Recorded(Head(buffer))

\* Events that have left a request, and events that were broadcast.
Tracked ==
  /\ \A e \in Items(queue) \cup Items(unacked) \cup Items(orphaned) \cup Items(buffer)
              \cup Items(aired) : request[e] # "idle"
  /\ \A e \in Items(aired) : Recorded(e)

LEMMA InitAudit == Init => AuditTypeOK /\ AuditInv /\ Tracked /\ EveryPublishAccountedFor
<1> SUFFICES ASSUME Init PROVE AuditTypeOK /\ AuditInv /\ Tracked /\ EveryPublishAccountedFor
  OBVIOUS
<1>1. 0 \in 0 .. (MaxTries - 1)
  BY AuditAssumption
<1>2. <<>> \in Seq(Events)
  BY EmptySeq
<1> USE DEF Init, BrokerInit, PublisherInit, AuditInit
<1>3. AuditTypeOK
  BY <1>1, <1>2 DEF AuditTypeOK, Handling
<1>4. AuditInv
  BY DEF AuditInv, Recorded
<1>5. Tracked /\ EveryPublishAccountedFor
  BY ItemsOfNone DEF Tracked, EveryPublishAccountedFor
<1>6. QED
  BY <1>3, <1>4, <1>5

\* The parts of the types that the consumer works on.
LEMMA AuditTypes ==
  ASSUME TypeOK
  PROVE  /\ task \in {"dial", "setup", "ended"} \cup Handling
         /\ tries \in 0 .. (MaxTries - 1)
         /\ link \in {"none", "up", "broken"}
         /\ queue \in Seq(Events) /\ buffer \in Seq(Events) /\ unacked \in Seq(Events)
         /\ orphaned \in Seq(Events) /\ aired \in Seq(Events)
         /\ logged \in [Events -> Nat] /\ unlogged \subseteq Events /\ losses \in Nat
         /\ request \in [Events -> Requests]
BY DEF TypeOK, BrokerTypeOK, PublisherTypeOK, AuditTypeOK, Requests

Audited == AuditInv /\ Tracked /\ EveryPublishAccountedFor

\* What the end of a connection of the consumer does, whatever comes of its task.
LEMMA LosingKeeps ==
  ASSUME TypeOK, Audited, NEW becomes \in {"none", "broken"}, AuditLosesConnection(becomes),
         UNCHANGED <<queue, logged, unlogged, request, dropped>>,
         \/ UNCHANGED <<task, tries, buffer, aired>>
         \/ task' = "dial" /\ tries' = 0 /\ buffer' = <<>> /\ aired' = <<>>
  PROVE  AuditTypeOK' /\ Audited'
<1> USE DEF Handling
<1>1. /\ link' \in {"none", "broken"} /\ unacked' = <<>> /\ losses' \in Nat
      /\ orphaned' = orphaned \o unacked
  BY AuditTypes DEF AuditLosesConnection
<1>2. /\ orphaned' \in Seq(Events)
      /\ Items(orphaned') = Items(orphaned) \cup Items(unacked)
  BY <1>1, AuditTypes, ItemsOfConcat
<1>3. <<>> \in Seq(Events) /\ 0 \in 0 .. (MaxTries - 1)
  BY EmptySeq, AuditAssumption
<1>4. AuditTypeOK'
  BY <1>1, <1>2, <1>3, AuditTypes DEF AuditTypeOK
<1>5. AuditInv'
  BY <1>1 DEF Audited, AuditInv, Recorded
<1>6. Tracked'
  BY <1>1, <1>2, ItemsOfNone DEF Audited, Tracked, Recorded
<1>7. EveryPublishAccountedFor'
  BY <1>1, <1>2, ItemsOfNone DEF Audited, EveryPublishAccountedFor
<1>8. QED
  BY <1>4, <1>5, <1>6, <1>7 DEF Audited

LEMMA DeliverKeeps ==
  ASSUME TypeOK, Audited, Deliver, UNCHANGED publisher
  PROVE  AuditTypeOK' /\ Audited'
<1>1. /\ link = "up" /\ task \in Handling /\ queue # <<>>
      /\ buffer' = Append(buffer, Head(queue)) /\ unacked' = Append(unacked, Head(queue))
      /\ queue' = Tail(queue)
      /\ UNCHANGED <<task, tries, link, orphaned, logged, aired, unlogged, losses>>
      /\ request' = request /\ dropped' = dropped
  BY DEF Deliver, publisher
<1>2. /\ Head(queue) \in Events
      /\ Items(queue) = {Head(queue)} \cup Items(queue')
  BY <1>1, AuditTypes, ItemsOfTail
<1>3. /\ buffer' \in Seq(Events) /\ unacked' \in Seq(Events)
      /\ Items(buffer') = Items(buffer) \cup {Head(queue)}
      /\ Items(unacked') = Items(unacked) \cup {Head(queue)}
  BY <1>1, <1>2, AuditTypes, ItemsOfAppend
<1>4. AuditTypeOK'
  BY <1>1, <1>3, AuditTypes DEF AuditTypeOK
<1>5. buffer # <<>> => buffer' # <<>> /\ Head(buffer') = Head(buffer)
  <2>1. SUFFICES ASSUME buffer # <<>> PROVE buffer' # <<>> /\ Head(buffer') = Head(buffer)
    OBVIOUS
  <2>2. Len(buffer) \in Nat /\ Len(buffer) # 0
    BY <2>1, AuditTypes, EmptySeq
  <2>3. Len(buffer') = Len(buffer) + 1 /\ buffer'[1] = buffer[1]
    BY <1>1, <1>2, <2>2, AuditTypes, AppendProperties
  <2>4. QED
    BY <1>3, <2>1, <2>2, <2>3, AuditTypes
<1>6. AuditInv'
  BY <1>1, <1>5 DEF Audited, AuditInv, Recorded, Handling
<1>7. Tracked'
  BY <1>1, <1>2, <1>3 DEF Audited, Tracked, Recorded
<1>8. EveryPublishAccountedFor'
  BY <1>1, <1>2, <1>3 DEF Audited, EveryPublishAccountedFor
<1>9. QED
  BY <1>4, <1>6, <1>7, <1>8 DEF Audited

LEMMA RequeueKeeps ==
  ASSUME TypeOK, Audited, Requeue, UNCHANGED publisher
  PROVE  AuditTypeOK' /\ Audited'
<1>1. /\ queue' = orphaned \o queue /\ orphaned' = <<>>
      /\ UNCHANGED <<task, tries, link, buffer, unacked, logged, aired, unlogged, losses>>
      /\ request' = request /\ dropped' = dropped
  BY DEF Requeue, publisher
<1>2. Items(queue') = Items(orphaned) \cup Items(queue) /\ orphaned' \in Seq(Events)
  BY <1>1, AuditTypes, ItemsOfConcat, EmptySeq
<1>3. AuditTypeOK'
  BY <1>1, <1>2, AuditTypes DEF AuditTypeOK
<1>4. AuditInv'
  BY <1>1 DEF Audited, AuditInv, Recorded
<1>5. Tracked' /\ EveryPublishAccountedFor'
  BY <1>1, <1>2, ItemsOfNone DEF Audited, Tracked, Recorded, EveryPublishAccountedFor
<1>6. QED
  BY <1>3, <1>4, <1>5 DEF Audited

\* The task goes on, and the queue of the broker stays as it is.
LEMMA ConsumeKeeps ==
  ASSUME TypeOK, Audited, Consume \/ InsertFails, UNCHANGED publisher
  PROVE  AuditTypeOK' /\ Audited'
<1> USE DEF Handling
<1>1. request' = request /\ dropped' = dropped
  BY DEF publisher
<1>2. CASE Connect
  <2>1. task = "dial" /\ link # "up" /\ buffer = <<>> /\ unacked = <<>>
    BY <1>2 DEF Connect, Audited, AuditInv
  <2>2. /\ UNCHANGED <<queue, buffer, unacked, orphaned, logged, aired, unlogged, losses>>
        /\ \/ task' = "setup" /\ link' = "up" /\ tries' = 0
           \/ task' \in {"ended", "dial"} /\ link' = link /\ tries' = (tries + 1) % MaxTries
    BY <1>2 DEF Connect, broker
  <2>3. 0 \in 0 .. (MaxTries - 1) /\ (tries + 1) % MaxTries \in 0 .. (MaxTries - 1)
    BY AuditAssumption, AuditTypes
  <2>4. AuditTypeOK'
    BY <2>2, <2>3, AuditTypes DEF AuditTypeOK
  <2>5. AuditInv'
    BY <2>1, <2>2 DEF Audited, AuditInv
  <2>6. Tracked' /\ EveryPublishAccountedFor'
    BY <1>1, <2>2 DEF Audited, Tracked, Recorded, EveryPublishAccountedFor
  <2>7. QED
    BY <2>4, <2>5, <2>6 DEF Audited
<1>3. CASE SetupChannel \/ NextDelivery \/ StreamEnds
  <2>1. /\ UNCHANGED <<queue, unacked, orphaned, logged, aired, unlogged, losses, tries>>
        /\ \/ /\ task = "setup" /\ buffer' = buffer
              /\ \/ link = "up" /\ task' = "next" /\ link' = link
                 \/ link # "up" /\ task' = "ended" /\ link' = "none"
           \/ task = "next" /\ task' = "insert" /\ link' = link /\ buffer' = buffer
              /\ buffer # <<>>
           \/ /\ task = "next" /\ task' = "ended" /\ link = "broken" /\ link' = "none"
              /\ buffer' = <<>>
    BY <1>3 DEF SetupChannel, NextDelivery, StreamEnds, Step, broker
  <2>2. AuditTypeOK'
    BY <2>1, AuditTypes, EmptySeq DEF AuditTypeOK
  <2>3. AuditInv'
    BY <2>1 DEF Audited, AuditInv
  <2>4. Items(buffer') \subseteq Items(buffer)
    BY <2>1, ItemsOfNone
  <2>5. Tracked' /\ EveryPublishAccountedFor'
    BY <1>1, <2>1, <2>4 DEF Audited, Tracked, Recorded, EveryPublishAccountedFor
  <2>6. QED
    BY <2>2, <2>3, <2>5 DEF Audited
<1>4. CASE Insert \/ InsertFails
  <2>1. /\ UNCHANGED <<queue, unacked, orphaned, buffer, aired, losses, tries, link>>
        /\ task = "insert" /\ task' = "air"
        /\ \/ logged' = [logged EXCEPT ![Head(buffer)] = @ + 1] /\ unlogged' = unlogged
           \/ logged' = logged /\ unlogged' = unlogged \cup {Head(buffer)}
    BY <1>4 DEF Insert, InsertFails, Step, broker
  <2>2. buffer # <<>> /\ Head(buffer) \in Events
    BY <2>1, AuditTypes, ItemsOfTail DEF Audited, AuditInv
  <2>3. /\ logged' \in [Events -> Nat] /\ unlogged' \subseteq Events
        /\ unlogged \subseteq unlogged'
        /\ \A e \in Events : logged[e] > 0 => logged'[e] > 0
        /\ logged'[Head(buffer)] > 0 \/ Head(buffer) \in unlogged'
    <3>1. PICK e \in Events : e = Head(buffer)
      BY <2>2
    <3>2. CASE logged' = [logged EXCEPT ![e] = @ + 1] /\ unlogged' = unlogged
      <4>1. \A x \in Events : logged'[x] = IF x = e THEN logged[e] + 1 ELSE logged[x]
        BY <3>2, AuditTypes
      <4>2. logged' \in [Events -> Nat]
        BY <3>2, AuditTypes
      <4>3. QED
        BY <3>1, <3>2, <4>1, <4>2, AuditTypes
    <3>3. CASE logged' = logged /\ unlogged' = unlogged \cup {e}
      BY <3>1, <3>3, AuditTypes
    <3>4. QED
      BY <2>1, <3>1, <3>2, <3>3
  <2>4. AuditTypeOK'
    BY <2>1, <2>3, AuditTypes DEF AuditTypeOK
  <2>5. AuditInv'
    BY <2>1, <2>2, <2>3 DEF Audited, AuditInv, Recorded
  <2>6. Tracked'
    <3>1. \A e \in Items(aired) : e \in Events
      BY AuditTypes DEF Items
    <3>2. QED
      BY <1>1, <2>1, <2>3, <3>1 DEF Audited, Tracked, Recorded
  <2>7. EveryPublishAccountedFor'
    BY <1>1, <2>1, <2>3 DEF Audited, EveryPublishAccountedFor
  <2>8. QED
    BY <2>4, <2>5, <2>6, <2>7 DEF Audited
<1>5. CASE Air
  <2>1. /\ UNCHANGED <<queue, unacked, orphaned, buffer, logged, unlogged, losses, tries, link>>
        /\ task = "air" /\ task' = "ack" /\ aired' = Append(aired, Head(buffer))
    BY <1>5 DEF Air, Step, broker
  <2>2. buffer # <<>> /\ Recorded(Head(buffer))
    BY <2>1 DEF Audited, AuditInv
  <2>3. Head(buffer) \in Events /\ Head(buffer) \in Items(buffer)
    BY <2>2, AuditTypes, ItemsOfTail
  <2>4. aired' \in Seq(Events) /\ Items(aired') = Items(aired) \cup {Head(buffer)}
    <3>1. PICK e \in Events : e = Head(buffer)
      BY <2>3
    <3>2. aired \in Seq(Events) /\ aired' = Append(aired, e)
      BY <2>1, <3>1, AuditTypes
    <3>3. QED
      BY <3>1, <3>2, ItemsOfAppend
  <2>5. AuditTypeOK'
    BY <2>1, <2>4, AuditTypes DEF AuditTypeOK
  <2>6. AuditInv'
    BY <2>1, <2>2 DEF Audited, AuditInv, Recorded
  <2>7. Tracked' /\ EveryPublishAccountedFor'
    BY <1>1, <2>1, <2>2, <2>3, <2>4 DEF Audited, Tracked, Recorded, EveryPublishAccountedFor
  <2>8. QED
    BY <2>5, <2>6, <2>7 DEF Audited
<1>6. CASE Ack
  <2>1. /\ UNCHANGED <<queue, orphaned, aired, logged, unlogged, losses, tries, link>>
        /\ task = "ack" /\ task' = "next" /\ buffer' = Tail(buffer)
        /\ unacked' = IF link = "up" THEN Tail(unacked) ELSE unacked
    BY <1>6 DEF Ack, Step, broker
  <2>2. buffer # <<>> /\ Recorded(Head(buffer))
    BY <2>1 DEF Audited, AuditInv
  <2>3. /\ buffer' \in Seq(Events)
        /\ Items(buffer) = {Head(buffer)} \cup Items(buffer')
    BY <2>1, <2>2, AuditTypes, ItemsOfTail
  <2>4. /\ unacked' \in Seq(Events)
        /\ link = "up" => unacked' = buffer' /\ unacked = buffer
        /\ link # "up" => unacked' = unacked
    BY <2>1, <2>3, AuditTypes DEF Audited, AuditInv
  <2>5. Items(unacked') \subseteq Items(unacked)
        /\ Items(unacked) \subseteq {Head(buffer)} \cup Items(unacked')
    BY <2>3, <2>4
  <2>6. AuditTypeOK'
    BY <2>1, <2>3, <2>4, AuditTypes DEF AuditTypeOK
  <2>7. AuditInv'
    BY <2>1, <2>4 DEF Audited, AuditInv
  <2>8. Tracked'
    BY <1>1, <2>1, <2>3, <2>5 DEF Audited, Tracked, Recorded
  <2>9. EveryPublishAccountedFor'
    BY <1>1, <2>1, <2>2, <2>5 DEF Audited, EveryPublishAccountedFor, Recorded
  <2>10. QED
    BY <2>6, <2>7, <2>8, <2>9 DEF Audited
<1>7. QED
  BY <1>2, <1>3, <1>4, <1>5, <1>6 DEF Consume

LEMMA PublisherKeeps ==
  ASSUME TypeOK, Audited, PublisherNext, UNCHANGED audit
  PROVE  AuditTypeOK' /\ Audited'
<1>1. UNCHANGED <<task, tries, link, buffer, unacked, orphaned, logged, aired, unlogged, losses>>
  BY DEF audit
<1>2. AuditTypeOK' /\ AuditInv'
  BY <1>1, AuditTypes DEF AuditTypeOK, Audited, AuditInv, Recorded
<1>3. CASE \E e \in Events : PublishReturnsNil(e)
  <2>1. PICK e \in Events : PublishReturnsNil(e)
    BY <1>3
  <2>2. /\ request' = [request EXCEPT ![e] = "sent"]
        /\ \/ queue' = Append(queue, e) /\ dropped' = dropped
           \/ queue' = queue /\ dropped' = dropped \cup {e}
    BY <2>1 DEF PublishReturnsNil, Route
  <2>3. Items(queue') \subseteq Items(queue) \cup {e} /\ Items(queue) \subseteq Items(queue')
        /\ (e \in dropped' \/ e \in Items(queue'))
    <3>1. Items(Append(queue, e)) = Items(queue) \cup {e}
      BY AuditTypes, ItemsOfAppend
    <3>2. QED
      BY <2>2, <3>1
  <2>4. \A x \in Events : request'[x] = IF x = e THEN "sent" ELSE request[x]
    BY <2>2, AuditTypes
  <2>5. Tracked'
    <3>1. \A x \in Items(queue) \cup Items(unacked) \cup Items(orphaned) \cup Items(buffer)
                     \cup Items(aired) : x \in Events
      BY AuditTypes DEF Items
    <3>2. QED
      BY <1>1, <2>3, <2>4, <3>1 DEF Audited, Tracked, Recorded
  <2>6. EveryPublishAccountedFor'
    BY <1>1, <2>2, <2>3, <2>4 DEF Audited, EveryPublishAccountedFor
  <2>7. QED
    BY <1>2, <2>5, <2>6 DEF Audited
<1>4. CASE /\ queue' = queue /\ dropped' = dropped
           /\ \A x \in Events : /\ request'[x] = "sent" => request[x] = "sent"
                                /\ request[x] # "idle" => request'[x] # "idle"
  <2>1. \A x \in Items(queue) \cup Items(unacked) \cup Items(orphaned) \cup Items(buffer)
                   \cup Items(aired) : x \in Events
    BY AuditTypes DEF Items
  <2>2. Tracked' /\ EveryPublishAccountedFor'
    BY <1>1, <1>4, <2>1 DEF Audited, Tracked, Recorded, EveryPublishAccountedFor
  <2>3. QED
    BY <1>2, <2>2 DEF Audited
<1>5. CASE Reconnect /\ UNCHANGED broker
  BY <1>4, <1>5, AuditTypes
     DEF Reconnect, DialSucceeds, DialFails, Setup, Adopt, SetupFails, Register, Notified,
         ConnectionClosed, broker, Requests
<1>6. CASE \E e \in Events : TakeChannel(e) \/ PublishFails(e)
  BY <1>4, <1>6, AuditTypes DEF TakeChannel, PublishFails, broker, Requests
<1>7. CASE FlightServiceRestarts /\ UNCHANGED <<up, bound, queue>>
  BY <1>4, <1>7, AuditTypes DEF FlightServiceRestarts, Pending, Requests
<1>8. QED
  BY <1>3, <1>5, <1>6, <1>7 DEF PublisherNext, Publish

LEMMA AuditStep == TypeOK /\ Audited /\ [Next]_vars => AuditTypeOK' /\ Audited'
<1> SUFFICES ASSUME TypeOK, Audited, [Next]_vars PROVE AuditTypeOK' /\ Audited'
  OBVIOUS
<1>1. CASE UNCHANGED <<queue, request, dropped, audit>>
  BY <1>1, AuditTypes
     DEF audit, AuditTypeOK, Audited, AuditInv, Tracked, Recorded, EveryPublishAccountedFor
<1>2. CASE BrokerStops \/ AuditLinkBreaks
  BY <1>2, LosingKeeps
     DEF BrokerStops, AuditLinkBreaks, ConnectionBreaks, PublisherLosesConnection, publisher
<1>3. CASE OpsHubRestart
  BY <1>3, LosingKeeps DEF OpsHubRestart, OpsHubRestarts, publisher
<1>4. CASE PublisherNext /\ UNCHANGED <<audit, tab>>
  BY <1>4, PublisherKeeps
<1>5. CASE (Consume \/ InsertFails \/ Deliver \/ Requeue) /\ UNCHANGED <<publisher, tab>>
  BY <1>5, ConsumeKeeps, DeliverKeeps, RequeueKeeps
<1>6. CASE PublisherLinkBreaks
  BY <1>1, <1>6 DEF PublisherLinkBreaks, PublisherLosesConnection
<1>7. QED
  BY <1>1, <1>2, <1>3, <1>4, <1>5, <1>6
     DEF Next, vars, BrokerStarts, TabLinkBreaks, broker, publisher

----------------------------------------------------------------------------

LEMMA NobodyIsNoAccount == None \notin Accounts /\ None \notin Token /\ Accounts \subseteq Role
BY SessionAssumption

LEMMA RoutesOf ==
  ASSUME NEW u \in Accounts \cup {None}, NEW p \in Paths
  PROVE  /\ p = "/login" => AppRoutes(u, p) = IF u = None THEN p ELSE "/"
         /\ p = "/other" => AppRoutes(u, p) = "/"
         /\ p \notin {"/login", "/other"} =>
              AppRoutes(u, p) = IF u = None THEN "/login"
                                ELSE IF u \notin AllowedRoles[p] THEN "/" ELSE p
<1>1. DOMAIN AllowedRoles = Paths \ {"/login", "/other"}
  BY DEF AllowedRoles
<1>2. p \notin {"/login", "/other"} =>
        ProtectedRoute(u, p) = IF u = None THEN "/login"
                               ELSE IF u \notin AllowedRoles[p] THEN "/" ELSE p
  BY DEF ProtectedRoute
<1>3. QED
  BY <1>1, <1>2 DEF AppRoutes

LEMMA RolesOf ==
  ASSUME NEW p \in Paths, p \notin {"/login", "/other"}
  PROVE  /\ AllowedRoles[p] = IF p = "/settings" THEN {"admin"}
                              ELSE IF p \in {"/crew", "/events"} THEN Staff ELSE Role
         /\ navItems[p] = AllowedRoles[p]
BY DEF AllowedRoles, navItems

SessionInv == SessionTypeOK /\ SessionIsOwn

LEMMA InitSession == Init => SessionInv
BY DEF Init, SessionInit, SessionInv, SessionTypeOK, SessionIsOwn, Paths

LEMMA SessionSteps == SessionInv /\ [Next]_vars => SessionInv'
<1> SUFFICES ASSUME SessionInv, [Next]_vars PROVE SessionInv'
  OBVIOUS
<1>1. /\ token \in Token \cup {None} /\ user \in Accounts \cup {None}
      /\ restoring \in Accounts \cup {None} /\ submitted \in Accounts \cup {None}
      /\ path \in Paths /\ overtaken \in BOOLEAN /\ SessionIsOwn
  BY DEF SessionInv, SessionTypeOK
<1>2. /\ None \notin Accounts /\ None \notin Token
      /\ \A t \in Token : t.of \in Accounts
  BY NobodyIsNoAccount DEF Token
<1>3. CASE UNCHANGED session
  BY <1>3 DEF session, SessionInv, SessionTypeOK, SessionIsOwn
<1>4. CASE Redirect
  <2>1. path' \in Paths
    BY <1>1, <1>4, RoutesOf DEF Redirect, Paths
  <2>2. QED
    BY <1>1, <1>4, <2>1 DEF Redirect, SessionInv, SessionTypeOK, SessionIsOwn
<1>5. CASE FollowLink
  <2>1. path' \in Paths
    BY <1>5 DEF FollowLink, filteredItems, navItems
  <2>2. QED
    BY <1>1, <1>5, <2>1 DEF FollowLink, SessionInv, SessionTypeOK, SessionIsOwn
<1>6. CASE Restored
  BY <1>1, <1>2, <1>6 DEF Restored, Superseded, SessionInv, SessionTypeOK, SessionIsOwn
<1>7. CASE RestoreFails
  BY <1>1, <1>7 DEF RestoreFails, SessionInv, SessionTypeOK, SessionIsOwn
<1>8. CASE LoginSucceeds
  <2>1. [of |-> submitted, expired |-> FALSE] \in Token /\ "/" \in Paths
    BY <1>1, <1>8 DEF LoginSucceeds, Token, Paths
  <2>2. QED
    BY <1>1, <1>2, <1>8, <2>1 DEF LoginSucceeds, SessionInv, SessionTypeOK, SessionIsOwn
<1>9. CASE LoginFails \/ Logout \/ \E a \in Accounts : SubmitLogin(a)
  BY <1>1, <1>9
     DEF LoginFails, Logout, SubmitLogin, SessionInv, SessionTypeOK, SessionIsOwn
<1>10. CASE TokenExpires
  <2>1. token \in Token
    BY <1>1, <1>10 DEF TokenExpires, Good
  <2>2. token' \in Token /\ token'.of = token.of
    BY <1>10, <2>1 DEF TokenExpires, Token
  <2>3. QED
    BY <1>1, <1>2, <1>10, <2>1, <2>2 DEF TokenExpires, SessionInv, SessionTypeOK, SessionIsOwn
<1>11. CASE OtherTab
  <2>1. token' \in Token \cup {None}
    BY <1>11 DEF OtherTab, Token
  <2>2. QED
    BY <1>1, <1>11, <2>1 DEF OtherTab, SessionInv, SessionTypeOK, SessionIsOwn
<1>12. CASE LoadSession
  <2>1. CASE Good(token)
    <3>1. token \in Token /\ token' = token /\ restoring' = token.of
      BY <1>1, <1>12, <2>1 DEF Good, LoadSession, Restore
    <3>2. QED
      BY <1>1, <1>2, <1>12, <3>1 DEF LoadSession, SessionInv, SessionTypeOK, SessionIsOwn
  <2>2. CASE ~Good(token)
    BY <1>1, <1>12, <2>2 DEF LoadSession, Restore, SessionInv, SessionTypeOK, SessionIsOwn
  <2>3. QED
    BY <2>1, <2>2
<1>13. CASE TabInput
  BY <1>3, <1>5, <1>9, <1>11, <1>12, <1>13 DEF TabInput, SessionInput, Reload
<1>14. CASE TabStep
  BY <1>3, <1>4, <1>6, <1>7, <1>8, <1>9, <1>10, <1>14 DEF TabStep, SessionStep
<1>15. QED
  BY <1>3, <1>13, <1>14
     DEF Next, vars, tab, BrokerStops, PublisherLinkBreaks, AuditLinkBreaks, OpsHubRestart,
         TabLinkBreaks

\* What a tab shows as its account is the account of its requests, unless another tab
\* or a late answer of loadUser has meddled since the last login, logout or reload.
THEOREM TabIsOwn == Spec => []SessionIsOwn
<1>1. SessionInv => SessionIsOwn
  BY DEF SessionInv
<1>2. QED
  BY <1>1, InitSession, SessionSteps, PTL DEF Spec

\* Every account and every path come to rest, and links lead where they say: the roles
\* of the links are those of the routes.
THEOREM LinksAgree == Spec => []RoutesAgree
<1>1. SessionInv => RoutesAgree
  <2>1. SUFFICES ASSUME NEW u \in Accounts \cup {None}, user = u PROVE RoutesAgree
    BY DEF SessionInv, SessionTypeOK
  <2>2. u \in Role \/ u = None
    BY NobodyIsNoAccount
  <2>3. u # None => AppRoutes(u, "/") = "/" /\ AppRoutes(u, "/login") = "/"
    <3>1. "/" \in Paths /\ "/login" \in Paths
      BY DEF Paths
    <3>2. AllowedRoles["/"] = Role
      BY <3>1, RolesOf
    <3>3. QED
      BY <2>2, <3>1, <3>2, RoutesOf
  <2>4. u = None => AppRoutes(u, "/login") = "/login" /\ AppRoutes(u, "/") = "/login"
    <3>1. "/" \in Paths /\ "/login" \in Paths
      BY DEF Paths
    <3>2. QED
      BY <3>1, RoutesOf
  <2>5. ASSUME NEW p \in Paths
        PROVE  AppRoutes(u, p) = p \/ AppRoutes(u, p) \in {"/", "/login"}
    BY RoutesOf
  <2>6. ASSUME NEW p \in Paths
        PROVE  LET last == AppRoutes(u, AppRoutes(u, p)) IN AppRoutes(u, last) = last
    BY <2>3, <2>4, <2>5
  <2>7. ASSUME u # None, NEW p \in filteredItems(u)
        PROVE  AppRoutes(u, p) = p
    <3>1. p \in Paths /\ p \notin {"/login", "/other"} /\ u \in navItems[p]
      BY DEF filteredItems, navItems
    <3>2. QED
      BY <2>7, <3>1, RoutesOf, RolesOf
  <2>8. QED
    BY <2>1, <2>6, <2>7 DEF RoutesAgree
<1>2. QED
  BY <1>1, InitSession, SessionSteps, PTL DEF Spec

----------------------------------------------------------------------------

\* At most one stream is open; cursors are positions in the channel.
StreamInv ==
  /\ StreamTypeOK
  /\ \A s \in Streams : cursor[s] > 0
  /\ \A s \in Streams : Live(s) => s = current
  /\ effect => timers > 0 \/ Live(current)
  /\ effect /\ connected => Live(current)

LEMMA StreamKept == StreamInv => StreamIsKept
BY DEF StreamInv, StreamIsKept

LEMMA InitStream == Init => StreamInv
<1>1. (CHOOSE s \in Streams : TRUE) \in Streams
  BY StreamAssumption
<1>2. SUFFICES ASSUME Init PROVE StreamInv
  OBVIOUS
<1>3. /\ stream = [s \in Streams |-> "closed"] /\ cursor = [s \in Streams |-> 1]
      /\ current \in Streams /\ timers = 0 /\ effect = FALSE /\ connected = FALSE
  BY <1>1, <1>2 DEF Init, StreamInit
<1>4. /\ stream \in [Streams -> {"closed", "connecting", "open", "lost"}]
      /\ cursor \in [Streams -> Nat]
      /\ \A s \in Streams : stream[s] = "closed" /\ cursor[s] = 1
  BY <1>3
<1>5. StreamTypeOK
  BY <1>3, <1>4 DEF StreamTypeOK
<1>6. QED
  BY <1>3, <1>4, <1>5 DEF StreamInv, Live

\* connect leaves one stream, the new one.
LEMMA OpenStreamInv ==
  ASSUME StreamInv, OpenStream(Close(current)), cursor' = cursor, timers' \in Nat,
         effect' \in BOOLEAN, connected' \in BOOLEAN
  PROVE  StreamInv'
<1>1. /\ stream \in [Streams -> {"closed", "connecting", "open", "lost"}]
      /\ current \in Streams /\ \A s \in Streams : Live(s) => s = current
  BY DEF StreamInv, StreamTypeOK
<1>2. NewStream \in Streams
  <2>1. \E s \in Streams : ~Live(s) /\ s # current
    BY <1>1, StreamAssumption
  <2>2. QED
    BY <2>1 DEF NewStream
<1>3. PICK n \in Streams : n = NewStream
  BY <1>2
<1>4. stream' = [Close(current) EXCEPT ![n] = "connecting"] /\ current' = n
  BY <1>3 DEF OpenStream
<1>5. /\ stream' \in [Streams -> {"closed", "connecting", "open", "lost"}]
      /\ stream'[n] = "connecting"
      /\ \A s \in Streams : s # n => stream'[s] = IF s = current THEN "closed" ELSE stream[s]
  BY <1>1, <1>4 DEF Close
<1>6. QED
  BY <1>1, <1>4, <1>5 DEF StreamInv, StreamTypeOK, Live

LEMMA StreamSteps == StreamInv /\ aired \in Seq(Events) /\ [Next]_vars => StreamInv'
<1> SUFFICES ASSUME StreamInv, aired \in Seq(Events), [Next]_vars PROVE StreamInv'
  OBVIOUS
<1>1. /\ stream \in [Streams -> {"closed", "connecting", "open", "lost"}]
      /\ current \in Streams /\ cursor \in [Streams -> Nat] /\ timers \in Nat
      /\ effect \in BOOLEAN /\ connected \in BOOLEAN
      /\ Len(aired) \in Nat
  BY DEF StreamInv, StreamTypeOK
<1>2. CASE UNCHANGED live
  BY <1>2 DEF live, StreamInv, StreamTypeOK, Live
<1>3. CASE RunEffect
  <2>1. effect' \in BOOLEAN /\ UNCHANGED <<cursor, timers, connected>>
    BY <1>3 DEF RunEffect, isAuthenticated
  <2>2. CASE isAuthenticated
    BY <1>1, <1>3, <2>1, <2>2, OpenStreamInv DEF RunEffect
  <2>3. CASE ~isAuthenticated
    BY <1>1, <1>3, <2>1, <2>3 DEF RunEffect, Close, StreamInv, StreamTypeOK, Live
  <2>4. QED
    BY <2>2, <2>3
<1>4. CASE TimerFires
  <2>1. timers' \in Nat
    BY <1>1, <1>4 DEF TimerFires
  <2>2. QED
    BY <1>1, <1>4, <2>1, OpenStreamInv DEF TimerFires
<1>5. CASE \E s \in Streams : Accepted(s)
  BY <1>1, <1>5 DEF Accepted, StreamInv, StreamTypeOK, Live
<1>6. CASE \E s \in Streams : OnError(s)
  <2>1. PICK s \in Streams : OnError(s)
    BY <1>6
  <2>2. /\ Live(s) /\ connected' = FALSE /\ stream' = [stream EXCEPT ![s] = "closed"]
        /\ timers' = timers + 1 /\ UNCHANGED <<effect, current, cursor>>
    BY <2>1 DEF OnError, Close, Live
  <2>3. timers' \in Nat /\ timers' > 0
    BY <1>1, <2>2
  <2>4. QED
    BY <1>1, <2>2, <2>3 DEF StreamInv, StreamTypeOK, Live
<1>7. CASE \E s \in Streams : OnMessage(s)
  <2>1. PICK s \in Streams : OnMessage(s)
    BY <1>7
  <2>2. Oldest(s) \in Nat /\ Oldest(s) > 0
    BY <1>1, <2>1, StreamAssumption DEF OnMessage, Oldest, StreamInv
  <2>3. /\ cursor' = [cursor EXCEPT ![s] = Oldest(s) + 1]
        /\ UNCHANGED <<effect, stream, current, timers, connected>>
    BY <2>1 DEF OnMessage
  <2>4. cursor' \in [Streams -> Nat] /\ \A t \in Streams : cursor'[t] > 0
    BY <1>1, <2>2, <2>3 DEF StreamInv
  <2>5. QED
    BY <2>3, <2>4 DEF StreamInv, StreamTypeOK, Live
<1>8. CASE StreamsLost
  BY <1>1, <1>8 DEF StreamsLost, StreamInv, StreamTypeOK, Live
<1>9. CASE StreamsDiscarded
  BY <1>1, <1>9 DEF StreamsDiscarded, StreamInv, StreamTypeOK, Live
<1>10. CASE TabStep \/ TabInput
  BY <1>2, <1>3, <1>4, <1>5, <1>6, <1>7, <1>9, <1>10 DEF TabStep, TabInput, Reload
<1>11. QED
  BY <1>2, <1>8, <1>10
     DEF Next, vars, tab, BrokerStops, PublisherLinkBreaks, AuditLinkBreaks, OpsHubRestart,
         TabLinkBreaks

----------------------------------------------------------------------------

\* What has happened to the tables stays.
LEMMA Grows ==
  ASSUME TypeOK, [Next]_vars
  PROVE  unlogged \subseteq unlogged' /\ \A q \in Followed : Now(q) \subseteq Now(q)'
<1>1. unlogged \subseteq unlogged' /\ \A e \in Events : logged[e] > 0 => logged'[e] > 0
  <2>1. CASE UNCHANGED <<logged, unlogged>>
    BY <2>1
  <2>2. CASE Insert
    BY <2>2, AuditTypes DEF Insert
  <2>3. CASE InsertFails
    BY <2>3 DEF InsertFails
  <2>4. QED
    BY <2>1, <2>2, <2>3
       DEF Next, vars, audit, BrokerStops, ConnectionBreaks, PublisherLinkBreaks,
           AuditLinkBreaks, OpsHubRestart, OpsHubRestarts, TabLinkBreaks, Consume, Connect,
           SetupChannel, NextDelivery, StreamEnds, Air, Ack, Deliver, Requeue
<1>2. \A e \in Events : request[e] # "idle" => request'[e] # "idle"
  <2>1. CASE UNCHANGED publisher \/ PublisherLosesConnection
    BY <2>1 DEF publisher, PublisherLosesConnection
  <2>2. CASE Reconnect
    BY <2>2, AuditTypes
       DEF Reconnect, DialSucceeds, DialFails, Setup, Adopt, SetupFails, Register, Notified,
           ConnectionClosed
  <2>3. CASE \E e \in Events : Publish(e)
    BY <2>3, AuditTypes DEF Publish, TakeChannel, PublishReturnsNil, PublishFails
  <2>4. CASE FlightServiceRestarts
    BY <2>4, AuditTypes DEF FlightServiceRestarts
  <2>5. QED
    BY <2>1, <2>2, <2>3, <2>4
       DEF Next, vars, PublisherNext, BrokerStops, PublisherLinkBreaks, AuditLinkBreaks,
           OpsHubRestart, TabLinkBreaks
<1>3. resolved \subseteq resolved' /\ elsewhere \in Nat /\ elsewhere' \in Nat
      /\ elsewhere <= elsewhere'
  <2>1. elsewhere \in Nat
    BY DEF TypeOK, CacheTypeOK
  <2>2. CASE UNCHANGED <<resolved, elsewhere>>
    BY <2>1, <2>2
  <2>3. CASE PatchServed
    BY <2>1, <2>3 DEF PatchServed
  <2>4. CASE ElsewhereChanges
    BY <2>1, <2>4 DEF ElsewhereChanges
  <2>5. CASE CacheStep
    BY <2>2, <2>3, <2>5 DEF CacheStep, Mount, Poll, ReadLater, Answered, PatchAnswered
  <2>6. CASE TabInput
    BY <2>2, <2>4, <2>6
       DEF TabInput, LeavePage, CacheInput, OpenAlertsTab, FetchFails, ClickResolve, PatchFails,
           Reload, CacheLost
  <2>7. CASE TabStep
    BY <2>2, <2>5, <2>7 DEF TabStep, LeavePage, cache, OnMessage, Invalidate
  <2>8. QED
    BY <2>2, <2>6, <2>7
       DEF Next, vars, tab, cache, BrokerStops, PublisherLinkBreaks, AuditLinkBreaks,
           OpsHubRestart, TabLinkBreaks
<1>4. ASSUME NEW q \in Followed PROVE Now(q) \subseteq Now(q)'
  <2>1. CASE q.table = "events"
    BY <1>1, <2>1 DEF Now
  <2>2. CASE q.table = "flights"
    BY <1>2, <2>2 DEF Now
  <2>3. CASE q.table = "alerts"
    BY <1>3, <2>3 DEF Now
  <2>4. CASE q.table \notin {"events", "flights", "alerts"}
    BY <1>3, <2>4 DEF Now
  <2>5. QED
    BY <2>1, <2>2, <2>3, <2>4
<1>5. QED
  BY <1>1, <1>4

LEMMA NowType ==
  ASSUME TypeOK, NEW q \in Followed
  PROVE  Now(q) \in SUBSET Change
<1>1. resolved \subseteq Alerts /\ elsewhere \in Nat
  BY DEF TypeOK, CacheTypeOK
<1>2. CASE q.table \in {"events", "flights"}
  BY <1>2 DEF Now, Change
<1>3. CASE q.table = "alerts"
  BY <1>1, <1>3 DEF Now, Change
<1>4. CASE q.table \notin {"events", "flights", "alerts"}
  BY <1>1, <1>4 DEF Now, Change
<1>5. QED
  BY <1>2, <1>3, <1>4

\* The alert of a PATCH that was served is resolved.
PatchInv == patch.served => patch.of \in resolved

LEMMA CacheTypesOf ==
  ASSUME TypeOK
  PROVE  /\ resolved \subseteq Alerts /\ elsewhere \in Nat /\ alertsTab \in BOOLEAN
         /\ mounted \subseteq Followed /\ invalid \subseteq Followed
         /\ data \in [Followed -> (SUBSET Change) \cup {None}]
         /\ fetch \in [Followed -> (SUBSET Change) \cup {None}]
         /\ patch \in [of : Alerts \cup {None}, served : BOOLEAN]
         /\ told \in [Followed -> SUBSET Change]
BY DEF TypeOK, CacheTypeOK

LEMMA UnpatchedType ==
  Unpatched \in [of : Alerts \cup {None}, served : BOOLEAN] /\ ~Unpatched.served
BY DEF Unpatched

\* The message that a stream gives to the tab is one of the channel.
LEMMA MessageOf ==
  ASSUME TypeOK, StreamInv, NEW s \in Streams, OnMessage(s)
  PROVE  aired[Oldest(s)] \in Items(aired) /\ aired[Oldest(s)] \in Events
<1>1. aired \in Seq(Events) /\ Len(aired) \in Nat /\ DOMAIN aired = 1 .. Len(aired)
  BY AuditTypes
<1>2. cursor[s] \in Nat /\ cursor[s] > 0 /\ cursor[s] <= Len(aired)
  BY DEF StreamInv, StreamTypeOK, OnMessage
<1>3. Oldest(s) \in 1 .. Len(aired)
  BY <1>1, <1>2, StreamAssumption DEF Oldest
<1>4. QED
  BY <1>1, <1>3 DEF Items

LEMMA InitCache == Init => CacheTypeOK /\ PatchInv
<1> SUFFICES ASSUME Init PROVE CacheTypeOK /\ PatchInv
  OBVIOUS
<1>1. /\ resolved = {} /\ elsewhere = 0 /\ alertsTab = FALSE /\ mounted = {} /\ invalid = {}
      /\ patch = Unpatched
      /\ data = [q \in Followed |-> None] /\ fetch = [q \in Followed |-> None]
      /\ told = [q \in Followed |-> {}]
  BY DEF Init, CacheInit
<1>2. QED
  BY <1>1, UnpatchedType DEF CacheTypeOK, PatchInv

LEMMA CacheTypes ==
  TypeOK /\ PatchInv /\ StreamInv /\ [Next]_vars => CacheTypeOK' /\ PatchInv'
<1> SUFFICES ASSUME TypeOK, PatchInv, StreamInv, [Next]_vars PROVE CacheTypeOK' /\ PatchInv'
  OBVIOUS
<1> USE DEF CacheTypeOK, PatchInv
<1>1. /\ resolved \subseteq Alerts /\ elsewhere \in Nat /\ alertsTab \in BOOLEAN
      /\ mounted \subseteq Followed /\ invalid \subseteq Followed
      /\ data \in [Followed -> (SUBSET Change) \cup {None}]
      /\ fetch \in [Followed -> (SUBSET Change) \cup {None}]
      /\ patch \in [of : Alerts \cup {None}, served : BOOLEAN]
      /\ told \in [Followed -> SUBSET Change]
  BY CacheTypesOf
<1>2. \A q \in Followed : Now(q) \in SUBSET Change
  BY NowType
<1>3. CASE UNCHANGED cache
  BY <1>1, <1>3 DEF cache
<1>4. CASE LeavePage
  BY <1>1, <1>4 DEF LeavePage
<1>5. CASE Mount
  BY <1>1, <1>2, <1>5 DEF Mount
<1>6. CASE \E q \in Followed : Poll(q) \/ ReadLater(q) \/ Answered(q)
  BY <1>1, <1>2, <1>6 DEF Poll, ReadLater, Answered
<1>7. CASE PatchServed
  <2>1. patch.of \in Alerts /\ ~patch.served
    <3>1. patch.of # None
      BY <1>1, <1>7 DEF PatchServed, Unpatched
    <3>2. QED
      BY <1>1, <1>7, <3>1 DEF PatchServed
  <2>2. patch' \in [of : Alerts \cup {None}, served : BOOLEAN] /\ patch'.of = patch.of
    BY <1>1, <1>7 DEF PatchServed
  <2>3. QED
    BY <1>1, <1>7, <2>1, <2>2 DEF PatchServed
<1>8. CASE PatchAnswered
  <2>1. patch.of \in Alerts /\ patch.of \in Change
    BY <1>1, <1>8 DEF PatchAnswered, Change
  <2>2. PICK q : q = useAlerts("any")
    OBVIOUS
  <2>3. /\ fetch' = [fetch EXCEPT ![q] = IF Refetched(q) THEN Now(q) ELSE @]
        /\ told' = [told EXCEPT ![q] = IF Refetched(q) THEN @ \cup {patch.of} ELSE @]
        /\ patch' = Unpatched
        /\ UNCHANGED <<resolved, elsewhere, alertsTab, mounted, data, invalid>>
    BY <1>8, <2>2 DEF PatchAnswered
  <2>4. fetch' \in [Followed -> (SUBSET Change) \cup {None}]
        /\ told' \in [Followed -> SUBSET Change]
    BY <1>1, <1>2, <2>1, <2>3
  <2>5. QED
    BY <1>1, <2>3, <2>4, UnpatchedType
<1>9. CASE OpenAlertsTab \/ ElsewhereChanges
  <2>1. CASE OpenAlertsTab
    <3>1. alertsTab' \in BOOLEAN
      BY <2>1 DEF OpenAlertsTab
    <3>2. UNCHANGED <<resolved, elsewhere, mounted, data, fetch, invalid, patch, told>>
      BY <2>1 DEF OpenAlertsTab
    <3>3. QED
      BY <1>1, <3>1, <3>2
  <2>2. CASE ElsewhereChanges
    BY <1>1, <2>2 DEF ElsewhereChanges
  <2>3. QED
    BY <1>9, <2>1, <2>2
<1>10. CASE \E q \in Followed : FetchFails(q)
  BY <1>1, <1>10 DEF FetchFails
<1>11. CASE PatchFails \/ \E a \in Alerts : ClickResolve(a)
  <2>1. patch' \in [of : Alerts \cup {None}, served : BOOLEAN] /\ ~patch'.served
    <3>1. CASE PatchFails
      BY <3>1, UnpatchedType DEF PatchFails
    <3>2. CASE \E a \in Alerts : ClickResolve(a)
      BY <3>2 DEF ClickResolve
    <3>3. QED
      BY <1>11, <3>1, <3>2
  <2>2. UNCHANGED <<resolved, elsewhere, alertsTab, mounted, data, fetch, invalid, told>>
    BY <1>11 DEF PatchFails, ClickResolve
  <2>3. QED
    BY <1>1, <2>1, <2>2
<1>12. CASE CacheLost
  BY <1>1, <1>12, UnpatchedType DEF CacheLost
<1>13. CASE \E s \in Streams : OnMessage(s)
  <2>1. PICK s \in Streams : OnMessage(s)
    BY <1>13
  <2>2. PICK e \in Change : e = aired[Oldest(s)]
    BY <2>1, MessageOf DEF Change
  <2>3. Invalidate("flight", e)
    BY <2>1, <2>2 DEF OnMessage
  <2>4. QED
    BY <1>1, <1>2, <2>3 DEF Invalidate
<1>14. CASE TabInput
  BY <1>4, <1>9, <1>10, <1>11, <1>12, <1>14 DEF TabInput, CacheInput, Reload
<1>15. CASE TabStep
  BY <1>3, <1>4, <1>5, <1>6, <1>7, <1>8, <1>13, <1>15 DEF TabStep, CacheStep
<1>16. QED
  BY <1>3, <1>14, <1>15
     DEF Next, vars, tab, BrokerStops, PublisherLinkBreaks, AuditLinkBreaks, OpsHubRestart,
         TabLinkBreaks

IInv == TypeOK /\ Audited /\ SessionInv /\ StreamInv /\ PatchInv

LEMMA Invariance == Spec => []IInv
<1>1. Init => IInv
  <2>1. Init => BrokerTypeOK /\ PublisherTypeOK
    <3>1. SUFFICES ASSUME Init PROVE BrokerTypeOK /\ PublisherTypeOK
      OBVIOUS
    <3>2. BrokerTypeOK
      BY <3>1, BrokerAssumption, EmptySeq DEF Init, BrokerInit, BrokerTypeOK, Started
    <3>3. 0 \in 0 .. (MaxDials - 1)
      BY PublisherAssumption
    <3>4. PublisherTypeOK
      BY <3>1, <3>3 DEF Init, PublisherInit, PublisherTypeOK
    <3>5. QED
      BY <3>2, <3>4
  <2>2. QED
    BY <2>1, InitAudit, InitSession, InitStream, InitCache
       DEF IInv, TypeOK, Audited, SessionInv, StreamInv
<1>2. IInv /\ [Next]_vars => IInv'
  <2>1. SUFFICES ASSUME IInv, [Next]_vars PROVE IInv'
    OBVIOUS
  <2>2. TypeOK /\ Audited /\ SessionInv /\ StreamInv /\ PatchInv /\ aired \in Seq(Events)
    BY <2>1, AuditTypes DEF IInv
  <2>3. /\ BrokerTypeOK' /\ PublisherTypeOK' /\ AuditTypeOK' /\ Audited' /\ SessionInv'
        /\ StreamInv' /\ CacheTypeOK' /\ PatchInv'
    BY <2>1, <2>2, BrokerTypes, PublisherTypes, AuditStep, SessionSteps, StreamSteps,
       CacheTypes
  <2>4. QED
    BY <2>3 DEF IInv, TypeOK, SessionInv, StreamInv
<1>3. QED
  BY <1>1, <1>2, PTL DEF Spec

----------------------------------------------------------------------------

\* What a query was told of is in its table, in the answer on its way, and in its data
\* once it is neither on its way nor to be fetched.
QueryInv(q) ==
  /\ told[q] \subseteq Now(q) \cup unlogged
  /\ fetch[q] # None => told[q] \subseteq fetch[q] \cup unlogged
  /\ fetch[q] = None /\ q \notin invalid =>
       told[q] = {} \/ (data[q] # None /\ told[q] \subseteq data[q] \cup unlogged)

CacheInv == \A q \in Followed : QueryInv(q)

\* A query that is left alone, or whose request is made or served anew.
LEMMA QueryKept ==
  ASSUME TypeOK, NEW q \in Followed, QueryInv(q), None \notin SUBSET Change,
         unlogged \subseteq unlogged', Now(q) \subseteq Now(q)',
         told'[q] = told[q], data'[q] = data[q], q \in invalid => q \in invalid',
         fetch'[q] = fetch[q] \/ fetch'[q] = Now(q)
  PROVE  QueryInv(q)'
<1>1. Now(q) # None
  BY NowType
<1>2. CASE fetch'[q] = fetch[q]
  BY <1>2 DEF QueryInv
<1>3. CASE fetch'[q] = Now(q)
  BY <1>1, <1>3 DEF QueryInv
<1>4. QED
  BY <1>2, <1>3

LEMMA CacheSteps ==
  ASSUME None \notin SUBSET Change, IInv, CacheInv, [Next]_vars
  PROVE  CacheInv'
<1>1. TypeOK /\ Audited /\ StreamInv /\ PatchInv
  BY DEF IInv
<1>2. SUFFICES ASSUME NEW q \in Followed PROVE QueryInv(q)'
  BY DEF CacheInv
<1>3. /\ QueryInv(q) /\ unlogged \subseteq unlogged' /\ Now(q) \subseteq Now(q)'
      /\ data \in [Followed -> (SUBSET Change) \cup {None}]
      /\ fetch \in [Followed -> (SUBSET Change) \cup {None}]
      /\ told \in [Followed -> SUBSET Change]
  BY <1>1, Grows, CacheTypesOf DEF CacheInv
<1>4. Now(q) # None
  BY <1>1, NowType
<1>5. CASE UNCHANGED cache \/ LeavePage
  BY <1>1, <1>3, <1>5, QueryKept DEF cache, LeavePage
<1>6. CASE Mount
  BY <1>1, <1>3, <1>6, QueryKept DEF Mount
<1>7. CASE \E p \in Followed : Poll(p) \/ ReadLater(p)
  <2>1. PICK p \in Followed : Poll(p) \/ ReadLater(p)
    BY <1>7
  <2>2. fetch'[q] = IF q = p THEN Now(q) ELSE fetch[q]
    BY <1>3, <2>1 DEF Poll, ReadLater
  <2>3. QED
    BY <1>1, <1>3, <2>1, <2>2, QueryKept DEF Poll, ReadLater
<1>8. CASE \E p \in Followed : Answered(p)
  <2>1. PICK p \in Followed : Answered(p)
    BY <1>8
  <2>2. /\ fetch[p] # None /\ told' = told
        /\ data' = [data EXCEPT ![p] = fetch[p]]
        /\ fetch' = [fetch EXCEPT ![p] = None]
        /\ invalid' = invalid \ {p}
    BY <2>1 DEF Answered
  <2>3. CASE q = p
    BY <1>3, <2>2, <2>3 DEF QueryInv
  <2>4. CASE q # p
    BY <1>1, <1>3, <2>2, <2>4, QueryKept
  <2>5. QED
    BY <2>3, <2>4
<1>9. CASE PatchServed \/ PatchFails \/ OpenAlertsTab \/ ElsewhereChanges
           \/ \E a \in Alerts : ClickResolve(a)
  BY <1>1, <1>3, <1>9, QueryKept
     DEF PatchServed, PatchFails, OpenAlertsTab, ElsewhereChanges, ClickResolve
<1>10. CASE PatchAnswered
  <2>1. PICK p : p = useAlerts("any")
    OBVIOUS
  <2>2. /\ patch.served
        /\ fetch' = [fetch EXCEPT ![p] = IF Refetched(p) THEN Now(p) ELSE @]
        /\ told' = [told EXCEPT ![p] = IF Refetched(p) THEN @ \cup {patch.of} ELSE @]
        /\ data' = data /\ invalid' = invalid
    BY <1>10, <2>1 DEF PatchAnswered
  <2>3. CASE q = p /\ Refetched(p)
    <3>1. fetch'[q] = Now(q) /\ told'[q] = told[q] \cup {patch.of}
      BY <1>3, <2>2, <2>3
    <3>2. patch.of \in Now(q)
      <4>1. q.table = "alerts"
        BY <2>1, <2>3 DEF useAlerts, Query
      <4>2. QED
        BY <1>1, <2>2, <4>1 DEF PatchInv, Now
    <3>3. QED
      BY <1>3, <1>4, <3>1, <3>2 DEF QueryInv
  <2>4. CASE ~(q = p /\ Refetched(p))
    <3>1. fetch'[q] = fetch[q] /\ told'[q] = told[q]
      BY <1>3, <2>2, <2>4
    <3>2. QED
      BY <1>1, <1>3, <2>2, <3>1, QueryKept
  <2>5. QED
    BY <2>3, <2>4
<1>11. CASE \E p \in Followed : FetchFails(p)
  <2>1. PICK p \in Followed : FetchFails(p)
    BY <1>11
  <2>2. /\ fetch' = [fetch EXCEPT ![p] = None] /\ told' = [told EXCEPT ![p] = {}]
        /\ data' = data /\ invalid' = invalid
    BY <2>1 DEF FetchFails
  <2>3. CASE q = p
    BY <1>3, <2>2, <2>3 DEF QueryInv
  <2>4. CASE q # p
    BY <1>1, <1>3, <2>2, <2>4, QueryKept
  <2>5. QED
    BY <2>3, <2>4
<1>12. CASE CacheLost
  BY <1>12 DEF CacheLost, QueryInv
<1>13. CASE \E s \in Streams : OnMessage(s)
  <2>1. PICK s \in Streams : OnMessage(s)
    BY <1>13
  <2>2. PICK e \in Events : e = aired[Oldest(s)] /\ e \in Items(aired)
    BY <1>1, <2>1, MessageOf
  <2>3. Recorded(e) /\ request[e] # "idle"
    BY <1>1, <2>2 DEF Audited, Tracked
  <2>4. q.table \in {"events", "flights"} => e \in Now(q) \cup unlogged
    BY <2>3 DEF Now, Recorded
  <2>5. /\ data' = data
        /\ \/ fetch'[q] = Now(q) /\ told'[q] \in {told[q], told[q] \cup {e}}
              /\ (told'[q] # told[q] => q.table \in {"events", "flights"})
           \/ fetch'[q] = fetch[q] /\ fetch[q] = None /\ q \in invalid'
              /\ told'[q] \in {told[q], told[q] \cup {e}}
              /\ (told'[q] # told[q] => q.table \in {"events", "flights"})
           \/ fetch'[q] = fetch[q] /\ told'[q] = told[q] /\ (q \in invalid => q \in invalid')
    <3>1. Invalidate("flight", e)
      BY <2>1, <2>2 DEF OnMessage
    <3>2. QED
      BY <3>1 DEF Invalidate
  <2>6. CASE told'[q] = told[q] /\ (q \in invalid => q \in invalid')
    BY <1>1, <1>3, <2>5, <2>6, QueryKept
  <2>7. CASE fetch'[q] = Now(q) /\ told'[q] \subseteq Now(q) \cup unlogged
    BY <1>3, <1>4, <2>7 DEF QueryInv
  <2>8. CASE /\ fetch'[q] = None /\ q \in invalid'
             /\ told'[q] \subseteq Now(q) \cup unlogged
    BY <1>3, <2>8 DEF QueryInv
  <2>9. told[q] \subseteq Now(q) \cup unlogged
    BY <1>3 DEF QueryInv
  <2>10. QED
    BY <2>4, <2>5, <2>6, <2>7, <2>8, <2>9
<1>14. CASE TabInput
  BY <1>5, <1>9, <1>11, <1>12, <1>14 DEF TabInput, CacheInput, Reload
<1>15. CASE TabStep
  BY <1>5, <1>6, <1>7, <1>8, <1>9, <1>10, <1>13, <1>15 DEF TabStep, CacheStep
<1>16. QED
  BY <1>5, <1>14, <1>15
     DEF Next, vars, tab, BrokerStops, PublisherLinkBreaks, AuditLinkBreaks, OpsHubRestart,
         TabLinkBreaks

----------------------------------------------------------------------------

\* No event is twice in s.
Once(s) == \A i, j \in DOMAIN s : s[i] = s[j] => i = j

LEMMA OnceAppend ==
  ASSUME NEW S, NEW s \in Seq(S), Once(s), NEW e \in S, e \notin Items(s)
  PROVE  Once(Append(s, e))
<1>1. /\ DOMAIN Append(s, e) = 1 .. (Len(s) + 1) /\ DOMAIN s = 1 .. Len(s)
      /\ Len(s) \in Nat
      /\ \A i \in 1 .. Len(s) : Append(s, e)[i] = s[i]
      /\ Append(s, e)[Len(s) + 1] = e
  BY AppendProperties
<1>2. \A i \in 1 .. Len(s) : s[i] # e
  BY <1>1 DEF Items
<1>3. SUFFICES ASSUME NEW i \in 1 .. (Len(s) + 1), NEW j \in 1 .. (Len(s) + 1),
                      Append(s, e)[i] = Append(s, e)[j]
               PROVE  i = j
  BY <1>1 DEF Once
<1>4. /\ i \in 1 .. Len(s) \/ i = Len(s) + 1
      /\ j \in 1 .. Len(s) \/ j = Len(s) + 1
  BY <1>1
<1>5. QED
  BY <1>1, <1>2, <1>3, <1>4 DEF Once

LEMMA OnceConcat ==
  ASSUME NEW S, NEW s \in Seq(S), NEW t \in Seq(S), Once(s), Once(t),
         Items(s) \cap Items(t) = {}
  PROVE  Once(s \o t)
<1>1. /\ DOMAIN (s \o t) = 1 .. (Len(s) + Len(t)) /\ DOMAIN s = 1 .. Len(s)
      /\ DOMAIN t = 1 .. Len(t) /\ Len(s) \in Nat /\ Len(t) \in Nat
      /\ \A i \in 1 .. Len(s) + Len(t) :
           (s \o t)[i] = IF i <= Len(s) THEN s[i] ELSE t[i - Len(s)]
  BY ConcatProperties
<1>2. SUFFICES ASSUME NEW i \in 1 .. (Len(s) + Len(t)), NEW j \in 1 .. (Len(s) + Len(t)),
                      (s \o t)[i] = (s \o t)[j]
               PROVE  i = j
  BY <1>1 DEF Once
<1>3. ASSUME NEW k \in 1 .. (Len(s) + Len(t))
      PROVE  \/ k \in DOMAIN s /\ (s \o t)[k] = s[k] /\ s[k] \in Items(s)
             \/ /\ k - Len(s) \in DOMAIN t /\ (s \o t)[k] = t[k - Len(s)]
                /\ t[k - Len(s)] \in Items(t)
  <2>1. CASE k <= Len(s)
    BY <1>1, <2>1 DEF Items
  <2>2. CASE k > Len(s)
    <3>1. k - Len(s) \in DOMAIN t /\ (s \o t)[k] = t[k - Len(s)]
      BY <1>1, <2>2
    <3>2. QED
      BY <3>1 DEF Items
  <2>3. QED
    BY <1>1, <2>1, <2>2
<1>4. CASE i \in DOMAIN s /\ j \in DOMAIN s /\ s[i] = s[j]
  BY <1>4 DEF Once
<1>5. CASE i - Len(s) \in DOMAIN t /\ j - Len(s) \in DOMAIN t /\ t[i - Len(s)] = t[j - Len(s)]
  <2>1. i - Len(s) = j - Len(s)
    BY <1>5 DEF Once
  <2>2. QED
    BY <1>1, <2>1
<1>6. QED
  BY <1>2, <1>3, <1>4, <1>5

LEMMA OnceTail ==
  ASSUME NEW S, NEW s \in Seq(S), s # <<>>, Once(s)
  PROVE  Once(Tail(s)) /\ Head(s) \notin Items(Tail(s))
<1>1. /\ Len(s) \in Nat \ {0} /\ DOMAIN s = 1 .. Len(s)
      /\ DOMAIN Tail(s) = 1 .. (Len(s) - 1) /\ Head(s) = s[1]
      /\ \A i \in 1 .. (Len(s) - 1) : Tail(s)[i] = s[i + 1]
  BY HeadTailProperties, EmptySeq
<1>2. \A i \in 1 .. (Len(s) - 1) : i + 1 \in DOMAIN s /\ i + 1 # 1
  BY <1>1
<1>3. Once(Tail(s))
  <2>1. SUFFICES ASSUME NEW i \in 1 .. (Len(s) - 1), NEW j \in 1 .. (Len(s) - 1),
                        Tail(s)[i] = Tail(s)[j]
                 PROVE  i = j
    BY <1>1 DEF Once
  <2>2. i + 1 = j + 1
    BY <1>1, <1>2, <2>1 DEF Once
  <2>3. QED
    BY <2>2
<1>4. Head(s) \notin Items(Tail(s))
  <2>1. ASSUME NEW i \in 1 .. (Len(s) - 1) PROVE Tail(s)[i] # Head(s)
    BY <1>1, <1>2 DEF Once
  <2>2. QED
    BY <1>1, <2>1 DEF Items
<1>5. QED
  BY <1>3, <1>4

\* What the consumer has in its client and has yet to insert.
Ahead == IF task \in {"air", "ack"} THEN Items(Tail(buffer)) ELSE Items(buffer)

Waits(e) == IF e \in Items(queue) \cup Items(orphaned) THEN 1 ELSE 0

Comes(e) == IF e \in Ahead THEN 1 ELSE 0

\* The broker has one copy of an event at most; rows and copies that may become rows are
\* one more than the connections lost.
CopiesInv ==
  /\ Once(queue) /\ Once(orphaned) /\ Once(unacked) /\ Once(buffer)
  /\ Items(queue) \cap Items(orphaned) = {}
  /\ Items(queue) \cap Items(unacked) = {}
  /\ Items(orphaned) \cap Items(unacked) = {}
  /\ \A e \in Events : request[e] # "sent" =>
       /\ e \notin Items(queue) \cup Items(orphaned) \cup Items(unacked) \cup Items(buffer)
       /\ logged[e] = 0
  /\ \A e \in Events : logged[e] + Waits(e) + Comes(e) <= 1 + losses

LEMMA InitCopies == Init => CopiesInv
<1> SUFFICES ASSUME Init PROVE CopiesInv
  OBVIOUS
<1>1. /\ queue = <<>> /\ orphaned = <<>> /\ unacked = <<>> /\ buffer = <<>>
      /\ logged = [e \in Events |-> 0] /\ losses = 0 /\ task \in {"next", "dial"}
  BY DEF Init, BrokerInit, AuditInit
<1>2. Once(<<>>)
  BY DEF Once
<1>3. QED
  BY <1>1, <1>2, ItemsOfNone DEF CopiesInv, Waits, Comes, Ahead

\* Nothing that counts gets more.
LEMMA CopiesKept ==
  ASSUME TypeOK, CopiesInv, UNCHANGED <<queue, orphaned, unacked, logged, losses>>,
         Once(buffer'), Items(buffer') \subseteq Items(buffer), Ahead' \subseteq Ahead,
         \A e \in Events : request[e] = "sent" => request'[e] = "sent"
  PROVE  CopiesInv'
<1>1. \A e \in Events : Comes(e) \in {0, 1} /\ Comes(e)' \in {0, 1} /\ Comes(e)' <= Comes(e)
  BY DEF Comes
<1>2. \A e \in Events : Waits(e)' = Waits(e) /\ Waits(e) \in {0, 1} /\ logged[e] \in Nat
  BY AuditTypes DEF Waits
<1>3. ASSUME NEW e \in Events
      PROVE  logged'[e] + Waits(e)' + Comes(e)' <= 1 + losses'
  <2>1. /\ logged[e] + Waits(e) + Comes(e) <= 1 + losses
        /\ losses \in Nat /\ losses' = losses /\ logged'[e] = logged[e]
    BY AuditTypes DEF CopiesInv
  <2>2. QED
    BY <1>1, <1>2, <2>1
<1>4. QED
  BY <1>3 DEF CopiesInv

LEMMA CopiesLost ==
  ASSUME TypeOK, AuditInv, CopiesInv, NEW becomes, AuditLosesConnection(becomes),
         UNCHANGED <<queue, logged, request>>,
         \/ task' = task /\ buffer' = buffer
         \/ task' = "dial" /\ buffer' = <<>>
  PROVE  CopiesInv'
<1>1. /\ orphaned' = orphaned \o unacked /\ unacked' = <<>>
      /\ link = "up" => losses' = losses + 1
      /\ link # "up" => losses' = losses /\ unacked = <<>>
  BY DEF AuditLosesConnection, AuditInv
<1>2. /\ Items(orphaned') = Items(orphaned) \cup Items(unacked)
      /\ Once(orphaned') /\ Once(unacked') /\ Items(unacked') = {}
  <2>1. Items(orphaned') = Items(orphaned) \cup Items(unacked)
    BY <1>1, AuditTypes, ItemsOfConcat
  <2>2. Once(orphaned')
    <3>1. Once(orphaned) /\ Once(unacked) /\ Items(orphaned) \cap Items(unacked) = {}
      BY DEF CopiesInv
    <3>2. Once(orphaned \o unacked)
      BY <3>1, AuditTypes, OnceConcat
    <3>3. QED
      BY <1>1, <3>2
  <2>3. Once(unacked') /\ Items(unacked') = {}
    BY <1>1, ItemsOfNone DEF Once
  <2>4. QED
    BY <2>1, <2>2, <2>3
<1>3. Once(buffer') /\ Items(buffer') \subseteq Items(buffer) /\ Ahead' \subseteq Ahead
  BY ItemsOfNone DEF CopiesInv, Once, Ahead
<1>4. ASSUME NEW e \in Events
      PROVE  logged'[e] + Waits(e)' + Comes(e)' <= 1 + losses'
  <2>1. /\ Comes(e) \in {0, 1} /\ Comes(e)' \in {0, 1} /\ Comes(e)' <= Comes(e)
        /\ Waits(e) \in {0, 1} /\ Waits(e)' \in {0, 1} /\ Waits(e)' <= Waits(e) + 1
        /\ (unacked = <<>> => Waits(e)' = Waits(e))
    BY <1>2, <1>3, ItemsOfNone DEF Comes, Waits
  <2>2. logged[e] \in Nat /\ logged[e] + Waits(e) + Comes(e) <= 1 + losses /\ losses \in Nat
    BY AuditTypes DEF CopiesInv
  <2>3. QED
    BY <1>1, <2>1, <2>2
<1>5. QED
  BY <1>2, <1>3, <1>4 DEF CopiesInv

LEMMA CopiesDelivered ==
  ASSUME TypeOK, AuditInv, CopiesInv, Deliver, UNCHANGED request
  PROVE  CopiesInv'
<1>1. PICK d \in Events : d = Head(queue) /\ queue # <<>>
  BY AuditTypes, ItemsOfTail DEF Deliver
<1>2. /\ link = "up" /\ task \in Handling /\ buffer = unacked
      /\ buffer' = Append(buffer, d) /\ unacked' = Append(unacked, d) /\ queue' = Tail(queue)
      /\ UNCHANGED <<task, orphaned, logged, losses>>
  BY <1>1 DEF Deliver, AuditInv
<1>3. /\ Items(queue) = {d} \cup Items(queue') /\ d \notin Items(queue') /\ Once(queue')
  BY <1>1, <1>2, AuditTypes, ItemsOfTail, OnceTail DEF CopiesInv
<1>4. d \notin Items(buffer) /\ d \notin Items(orphaned)
  BY <1>2, <1>3 DEF CopiesInv
<1>5. /\ Items(buffer') = Items(buffer) \cup {d} /\ Items(unacked') = Items(unacked) \cup {d}
      /\ Once(buffer') /\ Once(unacked')
  BY <1>2, <1>4, AuditTypes, ItemsOfAppend, OnceAppend DEF CopiesInv
<1>6. Ahead' \subseteq Ahead \cup {d} /\ d \notin Ahead
  <2>1. CASE task \in {"air", "ack"}
    <3>1. buffer # <<>>
      BY <2>1 DEF AuditInv
    <3>2. /\ Append(buffer, d) \in Seq(Events) /\ Append(buffer, d) # <<>>
          /\ Head(Append(buffer, d)) = Head(buffer)
      <4>1. Len(buffer) \in Nat \ {0} /\ buffer \in Seq(Events)
        BY <3>1, AuditTypes, HeadTailProperties, EmptySeq
      <4>2. /\ Append(buffer, d) \in Seq(Events) /\ Len(Append(buffer, d)) = Len(buffer) + 1
            /\ Append(buffer, d)[1] = buffer[1]
        BY <4>1, AppendProperties
      <4>3. Append(buffer, d) # <<>>
        BY <4>1, <4>2, EmptySeq
      <4>4. Head(Append(buffer, d)) = Append(buffer, d)[1] /\ Head(buffer) = buffer[1]
        BY <3>1, <4>1, <4>2, <4>3, HeadTailProperties
      <4>5. QED
        BY <4>2, <4>3, <4>4
    <3>3. /\ Items(buffer) = {Head(buffer)} \cup Items(Tail(buffer))
          /\ Head(buffer) \notin Items(Tail(buffer))
      BY <3>1, AuditTypes, ItemsOfTail, OnceTail DEF CopiesInv
    <3>4. Items(Append(buffer, d)) = {Head(buffer)} \cup Items(Tail(Append(buffer, d)))
      BY <3>2, ItemsOfTail
    <3>5. Head(buffer) \notin Items(Tail(Append(buffer, d)))
      BY <1>2, <1>5, <3>2, OnceTail
    <3>6. Items(Tail(Append(buffer, d))) = Items(Tail(buffer)) \cup {d}
      BY <1>2, <1>4, <1>5, <3>3, <3>4, <3>5
    <3>7. Ahead = Items(Tail(buffer)) /\ Ahead' = Items(Tail(Append(buffer, d)))
      BY <1>2, <2>1 DEF Ahead
    <3>8. QED
      BY <1>4, <3>3, <3>6, <3>7
  <2>2. CASE task \notin {"air", "ack"}
    BY <1>2, <1>4, <1>5, <2>2 DEF Ahead
  <2>3. QED
    BY <2>1, <2>2
<1>7. ASSUME NEW e \in Events
      PROVE  logged'[e] + Waits(e)' + Comes(e)' <= 1 + losses'
  <2>1. logged[e] \in Nat /\ logged[e] + Waits(e) + Comes(e) <= 1 + losses /\ losses \in Nat
    BY AuditTypes DEF CopiesInv
  <2>2. CASE e = d
    BY <1>2, <1>3, <1>4, <1>6, <2>1, <2>2 DEF Waits, Comes
  <2>3. CASE e # d
    <3>1. Waits(e)' = Waits(e)
      BY <1>2, <1>3, <2>3 DEF Waits
    <3>2. Comes(e)' <= Comes(e) /\ Comes(e)' \in {0, 1} /\ Comes(e) \in {0, 1}
      BY <1>6, <2>3 DEF Comes
    <3>3. Waits(e) \in {0, 1}
      BY DEF Waits
    <3>4. QED
      BY <1>2, <2>1, <3>1, <3>2, <3>3
  <2>4. QED
    BY <2>2, <2>3
<1>8. \A e \in Events : request[e] # "sent" => e # d
  BY <1>3 DEF CopiesInv
<1>9. QED
  BY <1>2, <1>3, <1>4, <1>5, <1>7, <1>8 DEF CopiesInv

LEMMA CopiesRequeued ==
  ASSUME TypeOK, CopiesInv, Requeue, UNCHANGED request
  PROVE  CopiesInv'
<1>1. /\ queue' = orphaned \o queue /\ orphaned' = <<>>
      /\ UNCHANGED <<task, buffer, unacked, logged, losses>>
  BY DEF Requeue
<1>2. /\ Items(queue') = Items(orphaned) \cup Items(queue) /\ Items(orphaned') = {}
      /\ Once(queue') /\ Once(orphaned')
  <2>1. Items(orphaned) \cap Items(queue) = {}
    BY DEF CopiesInv
  <2>2. /\ Items(orphaned \o queue) = Items(orphaned) \cup Items(queue)
        /\ Once(orphaned \o queue)
    <3>1. Once(orphaned) /\ Once(queue)
      BY DEF CopiesInv
    <3>2. QED
      BY <2>1, <3>1, AuditTypes, ItemsOfConcat, OnceConcat
  <2>3. Once(orphaned') /\ Items(orphaned') = {}
    BY <1>1, ItemsOfNone DEF Once
  <2>4. QED
    BY <1>1, <2>2, <2>3
<1>3. \A e \in Events : Waits(e)' = Waits(e) /\ Comes(e)' = Comes(e)
  BY <1>1, <1>2 DEF Waits, Comes, Ahead
<1>4. QED
  BY <1>1, <1>2, <1>3 DEF CopiesInv

LEMMA CopiesInserted ==
  ASSUME TypeOK, AuditInv, CopiesInv, Insert \/ InsertFails, UNCHANGED request
  PROVE  CopiesInv'
<1>1. /\ task = "insert" /\ task' = "air"
      /\ UNCHANGED <<queue, orphaned, unacked, buffer, losses>>
      /\ logged' = logged \/ logged' = [logged EXCEPT ![Head(buffer)] = @ + 1]
  BY DEF Insert, InsertFails, Step, broker
<1>2. PICK d \in Events : d = Head(buffer) /\ buffer # <<>>
  BY <1>1, AuditTypes, ItemsOfTail DEF AuditInv
<1>3. Items(buffer) = {d} \cup Items(Tail(buffer)) /\ d \notin Items(Tail(buffer))
  BY <1>2, AuditTypes, ItemsOfTail, OnceTail DEF CopiesInv
<1>4. /\ logged'[d] \in {logged[d], logged[d] + 1}
      /\ \A e \in Events : e # d => logged'[e] = logged[e]
  BY <1>1, <1>2, AuditTypes
<1>5. ASSUME NEW e \in Events
      PROVE  logged'[e] + Waits(e)' + Comes(e)' <= 1 + losses'
  <2>1. logged[e] \in Nat /\ logged[e] + Waits(e) + Comes(e) <= 1 + losses /\ losses \in Nat
    BY AuditTypes DEF CopiesInv
  <2>2. Waits(e)' = Waits(e) /\ Waits(e) \in {0, 1}
    BY <1>1 DEF Waits
  <2>3. CASE e = d
    <3>1. Comes(e) = 1 /\ Comes(e)' = 0
      BY <1>1, <1>3, <2>3 DEF Comes, Ahead
    <3>2. QED
      BY <1>1, <1>4, <2>1, <2>2, <2>3, <3>1
  <2>4. CASE e # d
    <3>1. Comes(e)' = Comes(e) /\ Comes(e) \in {0, 1}
      BY <1>1, <1>3, <2>4 DEF Comes, Ahead
    <3>2. QED
      BY <1>1, <1>4, <2>1, <2>2, <2>4, <3>1
  <2>5. QED
    BY <2>3, <2>4
<1>6. \A e \in Events : request[e] # "sent" => e # d
  BY <1>3 DEF CopiesInv
<1>7. QED
  BY <1>1, <1>4, <1>5, <1>6 DEF CopiesInv

LEMMA CopiesAcked ==
  ASSUME TypeOK, AuditInv, CopiesInv, Ack, UNCHANGED request
  PROVE  CopiesInv'
<1>1. /\ task = "ack" /\ task' = "next" /\ buffer' = Tail(buffer) /\ buffer # <<>>
      /\ unacked' = IF link = "up" THEN Tail(unacked) ELSE unacked
      /\ (link = "up" => unacked = buffer)
      /\ UNCHANGED <<queue, orphaned, logged, losses>>
  BY DEF Ack, Step, AuditInv, broker
<1>2. /\ Items(buffer') \subseteq Items(buffer) /\ Once(buffer')
  BY <1>1, AuditTypes, ItemsOfTail, OnceTail DEF CopiesInv
<1>3. Items(unacked') \subseteq Items(unacked) /\ Once(unacked')
  BY <1>1, <1>2 DEF CopiesInv
<1>4. Ahead' = Ahead
  BY <1>1 DEF Ahead
<1>5. \A e \in Events : Waits(e)' = Waits(e) /\ Comes(e)' = Comes(e)
  BY <1>1, <1>4 DEF Waits, Comes
<1>6. QED
  BY <1>1, <1>2, <1>3, <1>5 DEF CopiesInv

LEMMA CopiesPublished ==
  ASSUME TypeOK, AuditInv, CopiesInv, NEW d \in Events, PublishReturnsNil(d), UNCHANGED audit
  PROVE  CopiesInv'
<1>1. /\ request[d] = "current" /\ request' = [request EXCEPT ![d] = "sent"]
      /\ queue' = Append(queue, d) \/ queue' = queue
      /\ UNCHANGED <<task, orphaned, unacked, buffer, logged, losses>>
  BY DEF PublishReturnsNil, Route, audit
<1>2. /\ d \notin Items(queue) \cup Items(orphaned) \cup Items(unacked) \cup Items(buffer)
      /\ logged[d] = 0
  BY <1>1 DEF CopiesInv
<1>3. Items(queue') \subseteq Items(queue) \cup {d} /\ Items(queue) \subseteq Items(queue')
      /\ Once(queue')
  <2>1. Items(Append(queue, d)) = Items(queue) \cup {d} /\ Once(Append(queue, d))
    BY <1>2, AuditTypes, ItemsOfAppend, OnceAppend DEF CopiesInv
  <2>2. QED
    BY <1>1, <2>1 DEF CopiesInv
<1>4. \A e \in Events : request'[e] = IF e = d THEN "sent" ELSE request[e]
  BY <1>1, AuditTypes
<1>5. ASSUME NEW e \in Events
      PROVE  logged'[e] + Waits(e)' + Comes(e)' <= 1 + losses'
  <2>1. logged[e] \in Nat /\ logged[e] + Waits(e) + Comes(e) <= 1 + losses /\ losses \in Nat
    BY AuditTypes DEF CopiesInv
  <2>2. Comes(e)' = Comes(e)
    BY <1>1 DEF Comes, Ahead
  <2>3. CASE e = d
    <3>1. Comes(e) = 0
      <4>1. Ahead \subseteq Items(buffer) \/ buffer = <<>>
        BY AuditTypes, ItemsOfTail DEF Ahead
      <4>2. CASE buffer # <<>>
        BY <1>2, <2>3, <4>1, <4>2 DEF Comes
      <4>3. CASE buffer = <<>> /\ task \notin {"air", "ack"}
        BY <4>3, ItemsOfNone DEF Comes, Ahead
      <4>4. task \in {"air", "ack"} => buffer # <<>>
        BY DEF AuditInv
      <4>5. QED
        BY <4>2, <4>3, <4>4
    <3>2. Waits(e)' \in {0, 1}
      BY DEF Waits
    <3>3. QED
      BY <1>1, <1>2, <2>1, <2>2, <2>3, <3>1, <3>2
  <2>4. CASE e # d
    <3>1. Waits(e)' = Waits(e)
      BY <1>1, <1>3, <2>4 DEF Waits
    <3>2. QED
      BY <1>1, <2>1, <2>2, <3>1
  <2>5. QED
    BY <2>3, <2>4
<1>6. QED
  BY <1>1, <1>2, <1>3, <1>4, <1>5 DEF CopiesInv

LEMMA CopiesSteps == IInv /\ CopiesInv /\ [Next]_vars => CopiesInv'
<1> SUFFICES ASSUME IInv, CopiesInv, [Next]_vars PROVE CopiesInv'
  OBVIOUS
<1>1. TypeOK /\ AuditInv
  BY DEF IInv, Audited
<1>2. CASE UNCHANGED <<queue, orphaned, unacked, buffer, task, logged, losses>>
           /\ \A e \in Events : request[e] = "sent" => request'[e] = "sent"
  BY <1>1, <1>2, CopiesKept DEF CopiesInv, Ahead
<1>3. CASE BrokerStops \/ AuditLinkBreaks
  <2>1. /\ AuditLosesConnection("broken") /\ UNCHANGED <<task, buffer>>
        /\ UNCHANGED <<queue, logged, request>>
    BY <1>3
       DEF BrokerStops, AuditLinkBreaks, ConnectionBreaks, PublisherLosesConnection, publisher
  <2>2. QED
    BY <1>1, <2>1, CopiesLost
<1>4. CASE OpsHubRestart
  BY <1>1, <1>4, CopiesLost DEF OpsHubRestart, OpsHubRestarts, publisher
<1>5. CASE PublisherNext /\ UNCHANGED <<audit, tab>>
  <2>1. CASE Reconnect /\ UNCHANGED broker
    <3>1. \A e \in Events : request[e] = "sent" => request'[e] = "sent"
      BY <1>1, <2>1, AuditTypes
         DEF Reconnect, DialSucceeds, DialFails, Setup, Adopt, SetupFails, Register,
             Notified, ConnectionClosed
    <3>2. QED
      BY <1>2, <1>5, <2>1, <3>1 DEF audit, broker
  <2>2. CASE \E e \in Events : TakeChannel(e) \/ PublishFails(e)
    <3>1. \A e \in Events : request[e] = "sent" => request'[e] = "sent"
      BY <1>1, <2>2, AuditTypes DEF TakeChannel, PublishFails
    <3>2. QED
      BY <1>2, <1>5, <2>2, <3>1 DEF audit, broker, TakeChannel, PublishFails
  <2>3. CASE \E e \in Events : PublishReturnsNil(e)
    BY <1>1, <1>5, <2>3, CopiesPublished
  <2>4. CASE FlightServiceRestarts /\ UNCHANGED <<up, bound, queue>>
    <3>1. \A e \in Events : request[e] = "sent" => request'[e] = "sent"
      BY <1>1, <2>4, AuditTypes DEF FlightServiceRestarts, Pending
    <3>2. QED
      BY <1>2, <1>5, <2>4, <3>1 DEF audit
  <2>5. QED
    BY <1>5, <2>1, <2>2, <2>3, <2>4 DEF PublisherNext, Publish
<1>6. CASE (Consume \/ InsertFails \/ Deliver \/ Requeue) /\ UNCHANGED <<publisher, tab>>
  <2>1. request' = request
    BY <1>6 DEF publisher
  <2>2. CASE Connect \/ SetupChannel \/ NextDelivery \/ Air
    <3>1. /\ UNCHANGED <<queue, orphaned, unacked, logged, losses, buffer>>
          /\ (task \in {"air", "ack"} <=> task' \in {"air", "ack"})
      <4>1. CASE Connect
        BY <4>1 DEF Connect, broker
      <4>2. CASE SetupChannel
        BY <4>2 DEF SetupChannel
      <4>3. CASE NextDelivery
        BY <4>3 DEF NextDelivery, Step, broker
      <4>4. CASE Air
        BY <4>4 DEF Air, Step, broker
      <4>5. QED
        BY <2>2, <4>1, <4>2, <4>3, <4>4
    <3>2. Once(buffer') /\ Items(buffer') \subseteq Items(buffer) /\ Ahead' = Ahead
      BY <3>1 DEF CopiesInv, Ahead
    <3>3. QED
      BY <1>1, <2>1, <3>1, <3>2, CopiesKept
  <2>3. CASE StreamEnds
    <3>1. /\ UNCHANGED <<queue, orphaned, unacked, logged, losses>>
          /\ buffer' = <<>> /\ task' = "ended"
      BY <2>3 DEF StreamEnds, Step, broker
    <3>2. Once(buffer') /\ Items(buffer') = {} /\ Ahead' = {}
      BY <3>1, ItemsOfNone DEF Once, Ahead
    <3>3. QED
      BY <1>1, <2>1, <3>1, <3>2, CopiesKept
  <2>4. CASE Insert \/ InsertFails
    BY <1>1, <2>1, <2>4, CopiesInserted
  <2>5. CASE Ack
    BY <1>1, <2>1, <2>5, CopiesAcked
  <2>6. CASE Deliver
    BY <1>1, <2>1, <2>6, CopiesDelivered
  <2>7. CASE Requeue
    BY <1>1, <2>1, <2>7, CopiesRequeued
  <2>8. QED
    BY <1>6, <2>2, <2>3, <2>4, <2>5, <2>6, <2>7 DEF Consume
<1>7. CASE PublisherLinkBreaks
  BY <1>2, <1>7 DEF PublisherLinkBreaks, PublisherLosesConnection, audit
<1>8. QED
  BY <1>2, <1>3, <1>4, <1>5, <1>6, <1>7
     DEF Next, vars, BrokerStarts, TabLinkBreaks, broker, publisher, audit

----------------------------------------------------------------------------

\* The state that EventDelivery sees: events published, those the broker keeps, and those
\* that were lost.  The rows are logged.
Sent == {e \in Events : request[e] = "sent"}

Kept == Items(queue) \cup Items(unacked) \cup Items(orphaned)

Lost == dropped \cup unlogged

\* The actions of EventDelivery in these terms.
LEMMA Mapped ==
  /\ Delivery!Init <=> /\ Sent = {} /\ Kept = {} /\ Lost = {}
                       /\ logged = [e \in Events |-> 0]
  /\ UNCHANGED <<Sent, Kept, logged, Lost>> => UNCHANGED Delivery!vars
  /\ \A e : Delivery!Publish(e) <=>
       /\ e \notin Sent
       /\ Sent' = Sent \cup {e}
       /\ Kept' = Kept \cup {e}
       /\ logged' = logged /\ Lost' = Lost
  /\ \A e : Delivery!PublishToNobody(e) <=>
       /\ e \notin Sent
       /\ Sent' = Sent \cup {e}
       /\ Lost' = Lost \cup {e}
       /\ Kept' = Kept /\ logged' = logged
  /\ \A e : Delivery!Log(e) <=>
       /\ e \in Kept
       /\ logged' = [logged EXCEPT ![e] = @ + 1]
       /\ Sent' = Sent /\ Kept' = Kept /\ Lost' = Lost
  /\ \A e : Delivery!FailToLog(e) <=>
       /\ e \in Kept
       /\ Lost' = Lost \cup {e}
       /\ Sent' = Sent /\ Kept' = Kept /\ logged' = logged
  /\ \A e : Delivery!Release(e) <=>
       /\ e \in Kept
       /\ logged[e] > 0 \/ e \in Lost
       /\ Kept' = Kept \ {e}
       /\ Sent' = Sent /\ logged' = logged /\ Lost' = Lost
BY DEF Delivery!Init, Delivery!vars, Delivery!Publish, Delivery!PublishToNobody,
       Delivery!Log, Delivery!FailToLog, Delivery!Release, Sent, Kept, Lost

\* A step that EventDelivery takes, or does not see.
Delivers == Delivery!Next \/ UNCHANGED <<Sent, Kept, logged, Lost>>

\* What is in the client, on whatever connection it came, the broker still has.
HeldInv == Items(buffer) \subseteq Kept

LEMMA PublisherDelivers ==
  ASSUME TypeOK, AuditInv, CopiesInv, HeldInv, PublisherNext, UNCHANGED audit
  PROVE  HeldInv' /\ Delivers
<1>1. UNCHANGED <<buffer, unacked, orphaned, logged, unlogged>>
  BY DEF audit
<1>2. CASE \E e \in Events : PublishReturnsNil(e)
  <2>1. PICK e \in Events : PublishReturnsNil(e)
    BY <1>2
  <2>2. /\ request[e] = "current" /\ request' = [request EXCEPT ![e] = "sent"]
        /\ \/ queue' = Append(queue, e) /\ dropped' = dropped
           \/ queue' = queue /\ dropped' = dropped \cup {e}
    BY <2>1 DEF PublishReturnsNil, Route
  <2>3. e \notin Sent /\ Sent' = Sent \cup {e}
    BY <2>2, AuditTypes DEF Sent
  <2>4. CASE queue' = Append(queue, e) /\ dropped' = dropped
    <3>1. Items(queue') = Items(queue) \cup {e}
      BY <2>4, AuditTypes, ItemsOfAppend
    <3>2. Kept' = Kept \cup {e} /\ Lost' = Lost
      BY <1>1, <2>4, <3>1 DEF Kept, Lost
    <3>3. Delivery!Publish(e)
      BY <1>1, <2>3, <3>2, Mapped
    <3>4. QED
      BY <1>1, <3>2, <3>3 DEF HeldInv, Delivers, Delivery!Next
  <2>5. CASE queue' = queue /\ dropped' = dropped \cup {e}
    <3>1. Kept' = Kept /\ Lost' = Lost \cup {e}
      BY <1>1, <2>5 DEF Kept, Lost
    <3>2. Delivery!PublishToNobody(e)
      BY <1>1, <2>3, <3>1, Mapped
    <3>3. QED
      BY <1>1, <3>1, <3>2 DEF HeldInv, Delivers, Delivery!Next
  <2>6. QED
    BY <2>2, <2>4, <2>5
<1>3. CASE /\ queue' = queue /\ dropped' = dropped
           /\ \A e \in Events : request'[e] = "sent" <=> request[e] = "sent"
  BY <1>1, <1>3 DEF Delivers, Sent, Kept, Lost, HeldInv
<1>4. CASE Reconnect /\ UNCHANGED broker
  BY <1>3, <1>4, AuditTypes
     DEF Reconnect, DialSucceeds, DialFails, Setup, Adopt, SetupFails, Register, Notified,
         ConnectionClosed, broker
<1>5. CASE \E e \in Events : TakeChannel(e) \/ PublishFails(e)
  BY <1>3, <1>5, AuditTypes DEF TakeChannel, PublishFails, broker
<1>6. CASE FlightServiceRestarts /\ UNCHANGED <<up, bound, queue>>
  BY <1>3, <1>6, AuditTypes DEF FlightServiceRestarts, Pending
<1>7. QED
  BY <1>2, <1>4, <1>5, <1>6 DEF PublisherNext, Publish

LEMMA ConsumerDelivers ==
  ASSUME TypeOK, AuditInv, CopiesInv, HeldInv, Consume \/ InsertFails, UNCHANGED publisher
  PROVE  HeldInv' /\ Delivers
<1>1. Sent' = Sent /\ dropped' = dropped
  BY DEF publisher, Sent
<1>2. CASE Connect \/ SetupChannel \/ NextDelivery \/ Air \/ StreamEnds
  <2>1. /\ UNCHANGED <<queue, unacked, orphaned, logged, unlogged>>
        /\ buffer' = buffer \/ buffer' = <<>>
    BY <1>2 DEF Connect, SetupChannel, NextDelivery, Air, StreamEnds, broker
  <2>2. Items(buffer') \subseteq Items(buffer)
    BY <2>1, ItemsOfNone
  <2>3. QED
    BY <1>1, <2>1, <2>2 DEF Delivers, Kept, Lost, HeldInv
<1>3. CASE Insert \/ InsertFails
  <2>1. /\ UNCHANGED <<queue, unacked, orphaned, buffer>> /\ task = "insert"
        /\ \/ logged' = [logged EXCEPT ![Head(buffer)] = @ + 1] /\ unlogged' = unlogged
           \/ logged' = logged /\ unlogged' = unlogged \cup {Head(buffer)}
    BY <1>3 DEF Insert, InsertFails, Step, broker
  <2>2. PICK e \in Events : e = Head(buffer) /\ e \in Items(buffer)
    BY <2>1, AuditTypes, ItemsOfTail DEF AuditInv
  <2>3. e \in Kept /\ Kept' = Kept /\ HeldInv'
    BY <2>1, <2>2 DEF HeldInv, Kept
  <2>4. CASE logged' = [logged EXCEPT ![e] = @ + 1] /\ unlogged' = unlogged
    <3>1. Lost' = Lost
      BY <1>1, <2>4 DEF Lost
    <3>2. Delivery!Log(e)
      BY <1>1, <2>3, <2>4, <3>1, Mapped
    <3>3. QED
      BY <2>3, <3>2 DEF Delivers, Delivery!Next
  <2>5. CASE logged' = logged /\ unlogged' = unlogged \cup {e}
    <3>1. Lost' = Lost \cup {e}
      BY <1>1, <2>5 DEF Lost
    <3>2. Delivery!FailToLog(e)
      BY <1>1, <2>3, <2>5, <3>1, Mapped
    <3>3. QED
      BY <2>3, <3>2 DEF Delivers, Delivery!Next
  <2>6. QED
    BY <2>1, <2>2, <2>4, <2>5
<1>4. CASE Ack
  <2>1. /\ UNCHANGED <<queue, orphaned, logged, unlogged>>
        /\ task = "ack" /\ buffer # <<>> /\ buffer' = Tail(buffer)
        /\ unacked' = IF link = "up" THEN Tail(unacked) ELSE unacked
        /\ (link = "up" => unacked = buffer)
    BY <1>4 DEF Ack, Step, AuditInv, broker
  <2>2. Lost' = Lost
    BY <1>1, <2>1 DEF Lost
  <2>3. PICK e \in Events : e = Head(buffer) /\ Recorded(e)
    BY <2>1, AuditTypes, ItemsOfTail DEF AuditInv
  <2>4. /\ Items(buffer) = {e} \cup Items(buffer') /\ e \notin Items(buffer')
    BY <2>1, <2>3, AuditTypes, ItemsOfTail, OnceTail DEF CopiesInv
  <2>5. CASE link = "up"
    <3>1. /\ Items(unacked) = {e} \cup Items(unacked') /\ e \notin Items(unacked')
          /\ Items(buffer') = Items(unacked')
      BY <2>1, <2>4, <2>5
    <3>2. e \notin Items(queue) /\ e \notin Items(orphaned)
      BY <3>1 DEF CopiesInv
    <3>3. e \in Kept /\ Kept' = Kept \ {e} /\ HeldInv'
      BY <2>1, <3>1, <3>2 DEF Kept, HeldInv
    <3>4. logged[e] > 0 \/ e \in Lost
      BY <2>3 DEF Recorded, Lost
    <3>5. Delivery!Release(e)
      BY <1>1, <2>1, <2>2, <3>3, <3>4, Mapped
    <3>6. QED
      BY <3>3, <3>5 DEF Delivers, Delivery!Next
  <2>6. CASE link # "up"
    BY <1>1, <2>1, <2>2, <2>4, <2>6 DEF Delivers, Kept, HeldInv
  <2>7. QED
    BY <2>5, <2>6
<1>5. QED
  BY <1>2, <1>3, <1>4 DEF Consume

\* The broker hands over and takes back what it keeps.
LEMMA BrokerDelivers ==
  ASSUME TypeOK, HeldInv, Deliver \/ Requeue, UNCHANGED publisher
  PROVE  HeldInv' /\ Delivers
<1>1. Sent' = Sent /\ dropped' = dropped
  BY DEF publisher, Sent
<1>2. logged' = logged /\ Lost' = Lost
  BY <1>1 DEF Deliver, Requeue, Lost
<1>3. CASE Deliver
  <2>1. PICK e \in Events : e = Head(queue) /\ Items(queue) = {e} \cup Items(Tail(queue))
    BY <1>3, AuditTypes, ItemsOfTail DEF Deliver
  <2>2. /\ Items(Append(unacked, e)) = Items(unacked) \cup {e}
        /\ Items(Append(buffer, e)) = Items(buffer) \cup {e}
    BY AuditTypes, ItemsOfAppend
  <2>3. /\ queue' = Tail(queue) /\ unacked' = Append(unacked, e)
        /\ buffer' = Append(buffer, e) /\ orphaned' = orphaned
    BY <1>3, <2>1 DEF Deliver
  <2>4. Kept' = Kept /\ HeldInv'
    BY <2>1, <2>2, <2>3 DEF Kept, HeldInv
  <2>5. QED
    BY <1>1, <1>2, <2>4 DEF Delivers
<1>4. CASE Requeue
  <2>1. /\ queue' = orphaned \o queue /\ orphaned' = <<>>
        /\ buffer' = buffer /\ unacked' = unacked
    BY <1>4 DEF Requeue
  <2>2. Items(queue') = Items(orphaned) \cup Items(queue) /\ Items(orphaned') = {}
    BY <2>1, AuditTypes, ItemsOfConcat, ItemsOfNone
  <2>3. Kept' = Kept /\ HeldInv'
    BY <2>1, <2>2 DEF Kept, HeldInv
  <2>4. QED
    BY <1>1, <1>2, <2>3 DEF Delivers
<1>5. QED
  BY <1>3, <1>4

\* The end of a connection of the consumer gives what it held back to the broker.
LEMMA LosingDelivers ==
  ASSUME TypeOK, HeldInv, NEW becomes, AuditLosesConnection(becomes),
         UNCHANGED <<queue, logged, unlogged, request, dropped>>,
         buffer' = buffer \/ buffer' = <<>>
  PROVE  HeldInv' /\ Delivers
<1>1. orphaned' = orphaned \o unacked /\ unacked' = <<>>
  BY DEF AuditLosesConnection
<1>2. Items(orphaned') = Items(orphaned) \cup Items(unacked) /\ Items(unacked') = {}
  BY <1>1, AuditTypes, ItemsOfConcat, ItemsOfNone
<1>3. Items(buffer') \subseteq Items(buffer)
  BY ItemsOfNone
<1>4. QED
  BY <1>2, <1>3 DEF Kept, HeldInv, Delivers, Sent, Lost

LEMMA DeliverySteps ==
  IInv /\ CopiesInv /\ HeldInv /\ [Next]_vars =>
    HeldInv' /\ [Delivery!Next]_(Delivery!vars)
<1> SUFFICES ASSUME IInv, CopiesInv, HeldInv, [Next]_vars PROVE HeldInv' /\ Delivers
  BY Mapped DEF Delivers
<1>1. TypeOK /\ AuditInv
  BY DEF IInv, Audited
<1>2. CASE UNCHANGED <<queue, unacked, orphaned, buffer, request, dropped, logged, unlogged>>
  BY <1>2 DEF HeldInv, Delivers, Sent, Kept, Lost
<1>3. CASE BrokerStops \/ AuditLinkBreaks
  BY <1>1, <1>3, LosingDelivers
     DEF BrokerStops, AuditLinkBreaks, ConnectionBreaks, PublisherLosesConnection, publisher
<1>4. CASE OpsHubRestart
  BY <1>1, <1>4, LosingDelivers DEF OpsHubRestart, OpsHubRestarts, publisher
<1>5. CASE PublisherNext /\ UNCHANGED <<audit, tab>>
  BY <1>1, <1>5, PublisherDelivers
<1>6. CASE (Consume \/ InsertFails \/ Deliver \/ Requeue) /\ UNCHANGED <<publisher, tab>>
  BY <1>1, <1>6, ConsumerDelivers, BrokerDelivers
<1>7. CASE PublisherLinkBreaks
  BY <1>2, <1>7 DEF PublisherLinkBreaks, PublisherLosesConnection, audit
<1>8. QED
  BY <1>2, <1>3, <1>4, <1>5, <1>6, <1>7
     DEF Next, vars, BrokerStarts, TabLinkBreaks, broker, publisher, audit

----------------------------------------------------------------------------

\* All parts of the pipeline keep their types.
THEOREM PipelineTypes == Spec => []TypeOK
<1>1. IInv => TypeOK
  BY DEF IInv
<1>2. QED
  BY <1>1, Invariance, PTL

\* A connection that requests publish on is watched, or about to be.
THEOREM PublisherIsWatched == Spec => []OpenIsWatched
<1>1. Init => OpenIsWatched
  BY DEF Init, PublisherInit, OpenIsWatched
<1>2. QED
  BY <1>1, OpenIsWatchedStep, PTL DEF Spec

\* No order of outages, broken connections and restarts loses an event that reached the
\* queue: until it is logged, or its insert fails, the broker has it.
THEOREM PublishesAreAccountedFor == Spec => []EveryPublishAccountedFor
<1>1. IInv => EveryPublishAccountedFor
  BY DEF IInv, Audited
<1>2. QED
  BY <1>1, Invariance, PTL

\* A tab of a logged-in user has one stream or a timer that will open one, and never two.
THEOREM OneStreamIsKept == Spec => []StreamIsKept
<1>1. IInv => StreamIsKept
  BY StreamKept DEF IInv
<1>2. QED
  BY <1>1, Invariance, PTL

\* A fetch that was made because of a change has that change, whatever requests were on
\* their way, where None is no set of changes.
THEOREM FetchesSeeChanges ==
  ASSUME None \notin SUBSET Change
  PROVE  Spec => []FetchSeesChange
<1>1. Init => CacheInv
  BY DEF Init, CacheInit, CacheInv, QueryInv
<1>2. IInv /\ CacheInv /\ [Next]_vars => CacheInv'
  BY CacheSteps
<1>3. CacheInv => FetchSeesChange
  BY DEF CacheInv, QueryInv, FetchSeesChange
<1>4. QED
  BY <1>1, <1>2, <1>3, Invariance, PTL DEF Spec

\* Redelivery makes one more row of an event for each connection lost, and no other.
THEOREM DuplicatesAreBounded == Spec => []DuplicatesOnlyAfterLoss
<1>1. IInv /\ CopiesInv => DuplicatesOnlyAfterLoss
  <2>1. SUFFICES ASSUME IInv, CopiesInv, NEW e \in Events PROVE logged[e] <= 1 + losses
    BY DEF DuplicatesOnlyAfterLoss
  <2>2. logged[e] \in Nat /\ losses \in Nat /\ Waits(e) \in {0, 1} /\ Comes(e) \in {0, 1}
    BY <2>1, AuditTypes DEF IInv, Waits, Comes
  <2>3. logged[e] + Waits(e) + Comes(e) <= 1 + losses
    BY <2>1 DEF CopiesInv
  <2>4. QED
    BY <2>2, <2>3
<1>2. QED
  BY <1>1, InitCopies, CopiesSteps, Invariance, PTL DEF Spec

\* In whatever order the broker, the services and their connections fail, the pipeline
\* does as EventDelivery says: an event that has come to the broker stays there until it
\* has a row or its insert has failed, and only events that are there get rows.
THEOREM DeliveryIsKept == Spec => DeliveredAtLeastOnce
<1>1. Init => HeldInv /\ Delivery!Init
  <2>1. SUFFICES ASSUME Init PROVE HeldInv /\ Delivery!Init
    OBVIOUS
  <2>2. /\ queue = <<>> /\ orphaned = <<>> /\ unacked = <<>> /\ buffer = <<>>
        /\ logged = [e \in Events |-> 0] /\ dropped = {} /\ unlogged = {}
        /\ request = [e \in Events |-> "idle"]
    BY <2>1 DEF Init, BrokerInit, PublisherInit, AuditInit
  <2>3. Sent = {} /\ Kept = {} /\ Lost = {} /\ HeldInv
    BY <2>2, ItemsOfNone DEF Sent, Kept, Lost, HeldInv
  <2>4. QED
    BY <2>2, <2>3, Mapped
<1>2. QED
  BY <1>1, InitCopies, CopiesSteps, DeliverySteps, Invariance, PTL
     DEF Spec, DeliveredAtLeastOnce, Delivery!Spec
=============================================================================
