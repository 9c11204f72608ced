----------------------------- MODULE EventAudit -----------------------------
(***************************************************************************)
(* The event consumer of the Ops Hub: it connects with retries, declares   *)
(* and binds its queue, and then for one message after the other inserts   *)
(* a row into event_log, gives the event to the broadcast channel and      *)
(* acknowledges it.  The task ends when it cannot connect or its stream    *)
(* ends, and nothing starts it again but a restart of the process.         *)
(*                                                                         *)
(* Messages are valid JSON, as every publisher makes them.                 *)
(***************************************************************************)
EXTENDS EventBroker

CONSTANTS
  MaxTries,   \* attempts of connect_with_retry
  Prefetch    \* basic_qos

ASSUME AuditAssumption == {MaxTries, Prefetch} \subseteq Nat \ {0}

VARIABLES
  task,       \* where start_consumer is
  tries,      \* attempts to connect that have failed
  link,       \* the connection of the consumer
  buffer,     \* messages in the client, the first is the one in hand
  unacked,    \* messages the broker has sent on this connection
  orphaned,   \* unacknowledged messages of earlier connections
  logged,     \* event_log: rows of each event
  aired,      \* what the broadcast channel was sent since the process started
  unlogged,   \* history: events of which an insert failed
  losses      \* history: connections lost

audit == <<task, tries, link, buffer, unacked, orphaned, logged, aired, unlogged, losses>>

Handling == {"next", "insert", "air", "ack"}

AuditTypeOK ==
  /\ task \in {"dial", "setup", "ended"} \cup Handling
  /\ tries \in 0..(MaxTries - 1)
  /\ link \in {"none", "up", "broken"}
  /\ {buffer, unacked, orphaned, aired} \subseteq Seq(Events)
  /\ logged \in [Events -> Nat]
  /\ unlogged \subseteq Events
  /\ losses \in Nat

AuditInit ==
  /\ task = IF Started THEN "next" ELSE "dial"
  /\ tries = 0
  /\ link = IF Started THEN "up" ELSE "none"
  /\ buffer = <<>>
  /\ unacked = <<>>
  /\ orphaned = <<>>
  /\ logged = [e \in Events |-> 0]
  /\ aired = <<>>
  /\ unlogged = {}
  /\ losses = 0

----------------------------------------------------------------------------

\* connect_with_retry
Connect ==
  /\ task = "dial"
  /\ IF up
       THEN task' = "setup" /\ link' = "up" /\ tries' = 0
       ELSE /\ task' = IF tries + 1 = MaxTries THEN "ended" ELSE "dial"
            /\ tries' = (tries + 1) % MaxTries
            /\ UNCHANGED link
  /\ UNCHANGED <<broker, buffer, unacked, orphaned, logged, aired, unlogged, losses>>

\* create_channel, setup_channel and basic_consume: an error ends the task.
SetupChannel ==
  /\ task = "setup"
  /\ IF link = "up"
       THEN task' = "next" /\ bound' = TRUE /\ UNCHANGED link
       ELSE task' = "ended" /\ link' = "none" /\ UNCHANGED bound
  /\ UNCHANGED <<up, queue, budget, tries, buffer, unacked, orphaned, logged, aired,
                 unlogged, losses>>

\* The broker sends the next message, Prefetch of them at most.
Deliver ==
  /\ link = "up" /\ task \in Handling
  /\ queue # <<>> /\ Len(unacked) < Prefetch
  /\ buffer' = Append(buffer, Head(queue))
  /\ unacked' = Append(unacked, Head(queue))
  /\ queue' = Tail(queue)
  /\ UNCHANGED <<up, bound, budget, task, tries, link, orphaned, logged, aired, unlogged,
                 losses>>

\* The broker has noticed the end of a connection and takes back its messages.
Requeue ==
  /\ orphaned # <<>>
  /\ queue' = orphaned \o queue
  /\ orphaned' = <<>>
  /\ UNCHANGED <<up, bound, budget, task, tries, link, buffer, unacked, logged, aired,
                 unlogged, losses>>

Step(from, to) == task = from /\ task' = to

NextDeliveryAcked ==
  /\ buffer # <<>>
  /\ Step("next", "insert")
  /\ unacked' = IF link = "up" THEN Tail(unacked) ELSE unacked
  /\ UNCHANGED <<broker, tries, link, buffer, orphaned, logged, aired, unlogged, losses>>

NextDeliveryAired ==
  /\ buffer # <<>>
  /\ Step("next", "insert")
  /\ aired' = Append(aired, Head(buffer))
  /\ UNCHANGED <<broker, tries, link, buffer, unacked, orphaned, logged, unlogged, losses>>

NextDelivery ==
  /\ buffer # <<>>
  /\ Step("next", "insert")
  /\ UNCHANGED <<broker, tries, link, buffer, unacked, orphaned, logged, aired, unlogged,
                 losses>>

\* consumer.next() returns None once the connection is gone, before or after the
\* messages that were already here; start_consumer returns.
StreamEnds ==
  /\ link = "broken"
  /\ Step("next", "ended")
  /\ link' = "none"
  /\ buffer' = <<>>
  /\ UNCHANGED <<broker, tries, unacked, orphaned, logged, aired, unlogged, losses>>

Insert ==
  /\ Step("insert", "air")
  /\ logged' = [logged EXCEPT ![Head(buffer)] = @ + 1]
  /\ UNCHANGED <<broker, tries, link, buffer, unacked, orphaned, aired, unlogged, losses>>

\* The error is logged, and the message goes on to be broadcast and acknowledged.
InsertFails ==
  /\ Step("insert", "air") /\ Spend("hub")
  /\ unlogged' = unlogged \cup {Head(buffer)}
  /\ UNCHANGED <<up, bound, queue, tries, link, buffer, unacked, orphaned, logged, aired,
                 losses>>

Air ==
  /\ Step("air", "ack")
  /\ aired' = Append(aired, Head(buffer))
  /\ UNCHANGED <<broker, tries, link, buffer, unacked, orphaned, logged, unlogged, losses>>

AckRetried ==
  /\ Step("ack", IF link = "up" THEN "next" ELSE "insert")
  /\ unacked' = IF link = "up" THEN Tail(unacked) ELSE unacked
  /\ buffer' = IF link = "up" THEN Tail(buffer) ELSE buffer
  /\ UNCHANGED <<broker, tries, link, orphaned, logged, aired, unlogged, losses>>

AckAwaited ==
  /\ Step("ack", "next") /\ link = "up"
  /\ unacked' = Tail(unacked)
  /\ buffer' = Tail(buffer)
  /\ UNCHANGED <<broker, tries, link, orphaned, logged, aired, unlogged, losses>>

\* An ack on a broken connection fails, which is logged.
Ack ==
  /\ Step("ack", "next")
  /\ unacked' = IF link = "up" THEN Tail(unacked) ELSE unacked
  /\ buffer' = Tail(buffer)
  /\ UNCHANGED <<broker, tries, link, orphaned, logged, aired, unlogged, losses>>

----------------------------------------------------------------------------

\* What the end of a TCP connection does to this side of it.
AuditLosesConnection(becomes) ==
  /\ link' = IF link = "up" THEN becomes ELSE link
  /\ losses' = IF link = "up" THEN losses + 1 ELSE losses
  /\ orphaned' = orphaned \o unacked
  /\ unacked' = <<>>

ConnectionBreaks ==
  /\ AuditLosesConnection("broken")
  /\ UNCHANGED <<task, tries, buffer, logged, aired, unlogged>>

\* A crash, or a restart of the container.
OpsHubRestarts ==
  /\ task # "dial"
  /\ AuditLosesConnection("none")
  /\ task' = "dial"
  /\ tries' = 0
  /\ buffer' = <<>>
  /\ aired' = <<>>
  /\ UNCHANGED <<logged, unlogged>>
=============================================================================
