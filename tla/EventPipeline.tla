--------------------------- MODULE EventPipeline ---------------------------
(***************************************************************************)
(* An event on its way from a request of the Flight Service through the    *)
(* broker to the audit log of the Ops Hub and the tab of a dashboard.      *)
(***************************************************************************)
EXTENDS LiveStream

vars == <<broker, publisher, audit, tab>>

TypeOK ==
  /\ BrokerTypeOK
  /\ PublisherTypeOK
  /\ AuditTypeOK
  /\ SessionTypeOK
  /\ CacheTypeOK
  /\ StreamTypeOK

Init ==
  /\ BrokerInit
  /\ PublisherInit
  /\ AuditInit
  /\ SessionInit
  /\ CacheInit
  /\ StreamInit

----------------------------------------------------------------------------

\* The broker goes down, and both of its connections with it.
BrokerStops ==
  /\ up /\ Spend("outage")
  /\ up' = FALSE
  /\ PublisherLosesConnection
  /\ ConnectionBreaks
  /\ UNCHANGED <<bound, queue, tab>>

PublisherLinkBreaks ==
  /\ "up" \in {conn, fresh} /\ Spend("flight")
  /\ PublisherLosesConnection
  /\ UNCHANGED <<up, bound, queue, audit, tab>>

AuditLinkBreaks ==
  /\ link = "up" /\ Spend("hub")
  /\ ConnectionBreaks
  /\ UNCHANGED <<up, bound, queue, publisher, tab>>

OpsHubRestart ==
  /\ Spend("hub")
  /\ OpsHubRestarts
  /\ StreamsLost
  /\ UNCHANGED <<up, bound, queue, publisher, session, cache>>

TabLinkBreaks ==
  /\ Spend("hub")
  /\ \E s \in Streams : stream[s] = "open"
  /\ StreamsLost
  /\ UNCHANGED <<up, bound, queue, publisher, audit, session, cache>>

\* start_consumer
Consume ==
  \/ Connect
  \/ SetupChannel
  \/ NextDelivery
  \/ StreamEnds
  \/ Insert
  \/ Air
  \/ Ack

Next ==
  \/ BrokerStarts /\ UNCHANGED <<publisher, audit, tab>>
  \/ BrokerStops
  \/ PublisherNext /\ UNCHANGED <<audit, tab>>
  \/ PublisherLinkBreaks
  \/ (Consume \/ InsertFails \/ Deliver \/ Requeue) /\ UNCHANGED <<publisher, tab>>
  \/ AuditLinkBreaks
  \/ OpsHubRestart
  \/ TabInput /\ UNCHANGED <<up, bound, queue, publisher, audit>>
  \/ TabStep /\ UNCHANGED <<broker, publisher, audit>>
  \/ TabLinkBreaks

\* Services run on, the broker is started again and delivers and requeues messages.
Spec ==
  /\ Init
  /\ [][Next]_vars
  /\ PublisherFairness /\ WF_broker(BrokerStarts)
  /\ WF_audit(Requeue /\ UNCHANGED <<publisher, tab>>)
  /\ WF_audit(Deliver /\ UNCHANGED <<publisher, tab>>)
  /\ WF_audit(Consume /\ UNCHANGED <<publisher, tab>>)
  /\ WF_cache(Mount /\ UNCHANGED <<broker, publisher, audit, session, live>>)
  /\ \A q \in Followed :
       WF_cache((Poll(q) \/ Answered(q)) /\ UNCHANGED <<broker, publisher, audit, session, live>>)

----------------------------------------------------------------------------

Items(s) == {s[i] : i \in DOMAIN s}

\* An event whose publish returned no error, and that was neither written to a
\* broken connection nor published before the queue existed, is in the hands of
\* the broker until it has been logged or its insert has failed.
EveryPublishAccountedFor ==
  \A e \in Events : request[e] = "sent" /\ e \notin dropped =>
    \/ logged[e] > 0
    \/ e \in unlogged
    \/ e \in Items(queue) \cup Items(unacked) \cup Items(orphaned)

\* The services deliver events as EventDelivery says.
Delivery == INSTANCE EventDelivery WITH
  published <- {e \in Events : request[e] = "sent"},
  kept <- Items(queue) \cup Items(unacked) \cup Items(orphaned),
  rows <- logged,
  lost <- dropped \cup unlogged

\* Outages, restarts and lost connections make the audit log get an event once more, and
\* never less often: the broker forgets an event only when it has been logged or its
\* insert has failed, and the log has no event that the broker does not have.
DeliveredAtLeastOnce == Delivery!Spec

\* An event is logged again only after a connection was lost before its ack.
DuplicatesOnlyAfterLoss == \A e \in Events : logged[e] <= 1 + losses

\* An event that has reached the queue is logged in the end, unless its insert fails
\* or the consumer has ended, in which case only a restart of the process helps.
SentIsAudited ==
  \A e \in Events :
    request[e] = "sent" ~> \/ e \in dropped \cup unlogged
                           \/ logged[e] > 0
                           \/ task = "ended"
=============================================================================
