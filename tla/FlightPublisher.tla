-------------------------- MODULE FlightPublisher --------------------------
(***************************************************************************)
(* RabbitMQPublisher of the Flight Service: connect with its retries, the  *)
(* goroutine that waits for the loss of the connection, and Publish, which *)
(* takes the channel under the lock and uses it outside.                   *)
(*                                                                         *)
(* A connection that is broken is open until the amqp library notices; it  *)
(* is then closed, and the channels that NotifyClose returned before get   *)
(* the error.  For a closed connection NotifyClose returns a channel that  *)
(* is closed, which handleReconnect cannot tell from a shutdown.           *)
(***************************************************************************)
EXTENDS EventBroker

CONSTANT MaxDials   \* maxRetries

ASSUME PublisherAssumption == MaxDials \in Nat \ {0}

VARIABLES
  conn,      \* p.conn, "none" before the first connection
  fresh,     \* the connection that connect is setting up
  watcher,   \* where connect and handleReconnect are
  attempt,   \* attempts to dial that have failed
  request,   \* what the request that publishes an event has come to
  dropped    \* history: published without an error, but never in the queue

publisher == <<conn, fresh, watcher, attempt, request, dropped>>

\* A request that has taken the channel has the current one or an older one.
PublisherTypeOK ==
  /\ conn \in {"none", "up", "broken", "closed"}
  /\ fresh \in {"none", "up", "broken"}
  /\ watcher \in {"dial", "setup", "register", "watch", "ended"}
  /\ attempt \in 0..(MaxDials - 1)
  /\ request \in [Events -> {"idle", "current", "old", "sent", "failed"}]
  /\ dropped \subseteq Events

Pending(e) == request[e] \in {"current", "old"}

PublisherInit ==
  /\ conn = IF Started THEN "up" ELSE "none"
  /\ fresh = "none"
  /\ watcher = IF Started THEN "watch" ELSE "dial"
  /\ attempt = 0
  /\ request = [e \in Events |-> "idle"]
  /\ dropped = {}

----------------------------------------------------------------------------

\* connect returns an error.  The first time the process exits and is started
\* again; handleReconnect goes round its loop with the connection it has.
ConnectFails ==
  /\ watcher' = IF conn = "none" THEN "dial" ELSE "register"
  /\ attempt' = 0
  /\ fresh' = "none"

DialSucceeds ==
  /\ watcher = "dial" /\ up
  /\ watcher' = "setup"
  /\ attempt' = 0
  /\ fresh' = "up"
  /\ UNCHANGED <<conn, request, dropped>>

DialFails ==
  /\ watcher = "dial" /\ ~up
  /\ IF attempt + 1 < MaxDials
       THEN attempt' = attempt + 1 /\ UNCHANGED <<watcher, fresh>>
       ELSE ConnectFails
  /\ UNCHANGED <<conn, request, dropped>>

\* The new connection becomes that of the publisher, and handleReconnect goes to next.
Adopt(next) ==
  /\ watcher = "setup" /\ fresh = "up"
  /\ conn' = "up"
  /\ request' = [e \in Events |-> IF request[e] = "current" THEN "old" ELSE request[e]]
  /\ fresh' = "none"
  /\ watcher' = next
  /\ UNCHANGED <<attempt, dropped>>

SetupReturning == Adopt(IF conn = "none" THEN "register" ELSE "ended")

\* The channel is open and the exchange declared: conn and channel are replaced.
Setup == Adopt("register")

SetupFails ==
  /\ watcher = "setup" /\ fresh = "broken"
  /\ ConnectFails
  /\ UNCHANGED <<conn, request, dropped>>

\* handleReconnect asks to be notified; a connection closed by now notifies nobody.
Register ==
  /\ watcher = "register"
  /\ watcher' = IF conn = "closed" THEN "ended" ELSE "watch"
  /\ UNCHANGED <<conn, fresh, attempt, request, dropped>>

ConnectionClosed ==
  /\ conn = "broken"
  /\ conn' = "closed"
  /\ UNCHANGED <<fresh, watcher, attempt, request, dropped>>

\* The error arrives on connErr.
Notified ==
  /\ watcher = "watch" /\ conn = "closed"
  /\ watcher' = "dial"
  /\ UNCHANGED <<conn, fresh, attempt, request, dropped>>

\* Publish reads p.channel, then gives the message to the channel it has read.
TakeChannel(e) ==
  /\ request[e] = "idle" /\ conn # "none"
  /\ Spend("request")
  /\ request' = [request EXCEPT ![e] = "current"]
  /\ UNCHANGED <<up, bound, queue, conn, fresh, watcher, attempt, dropped>>

PublishReturnsNil(e) ==
  /\ request[e] = "current" /\ conn \in {"up", "broken"}
  /\ request' = [request EXCEPT ![e] = "sent"]
  /\ IF conn = "up" /\ bound
       THEN Route(e) /\ UNCHANGED dropped
       ELSE dropped' = dropped \cup {e} /\ UNCHANGED queue
  /\ UNCHANGED <<up, bound, budget, conn, fresh, watcher, attempt>>

PublishFails(e) ==
  /\ \/ request[e] = "old"
     \/ request[e] = "current" /\ conn \in {"broken", "closed"}
  /\ request' = [request EXCEPT ![e] = "failed"]
  /\ UNCHANGED <<broker, conn, fresh, watcher, attempt, dropped>>

----------------------------------------------------------------------------

\* What the end of a TCP connection does to this side of it.
PublisherLosesConnection ==
  /\ conn' = IF conn = "up" THEN "broken" ELSE conn
  /\ fresh' = IF fresh = "up" THEN "broken" ELSE fresh
  /\ UNCHANGED <<watcher, attempt, request, dropped>>

\* Shutdown with Close, or a crash; the container is started again.
FlightServiceRestarts ==
  /\ conn # "none"
  /\ conn' = "none"
  /\ fresh' = "none"
  /\ watcher' = "dial"
  /\ attempt' = 0
  /\ request' = [e \in Events |-> IF Pending(e) THEN "failed" ELSE request[e]]
  /\ UNCHANGED dropped

Reconnect ==
  \/ DialSucceeds
  \/ DialFails
  \/ Setup
  \/ SetupFails
  \/ Register
  \/ Notified
  \/ ConnectionClosed

Publish(e) == TakeChannel(e) \/ PublishReturnsNil(e) \/ PublishFails(e)

PublisherNext ==
  \/ Reconnect /\ UNCHANGED broker
  \/ \E e \in Events : Publish(e)
  \/ Spend("flight") /\ FlightServiceRestarts /\ UNCHANGED <<up, bound, queue>>

\* The goroutines run on, and the library notices a broken connection by its
\* heartbeats.
PublisherFairness ==
  /\ WF_publisher(Reconnect /\ UNCHANGED broker)
  /\ \A e \in Events :
       WF_publisher(PublishReturnsNil(e) \/ PublishFails(e))

----------------------------------------------------------------------------

\* A connection that requests publish on has a goroutine that waits for its loss or
\* is about to: the publisher is never left without one while it has a connection.
OpenIsWatched ==
  conn \in {"up", "broken"} => watcher \in {"register", "watch"}
=============================================================================
