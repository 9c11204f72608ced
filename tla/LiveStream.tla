----------------------------- MODULE LiveStream -----------------------------
(***************************************************************************)
(* The event stream of a tab: event_stream of the Ops Hub, which           *)
(* subscribes each stream to the broadcast channel, and SSEProvider of the *)
(* dashboard, which opens an EventSource when the user is logged in, opens *)
(* another one three seconds after an error, and on a message invalidates  *)
(* the queries that the event may have changed.                            *)
(***************************************************************************)
EXTENDS QueryCache

CONSTANTS
  Streams,     \* EventSource objects
  Capacity     \* of the broadcast channel

ASSUME StreamAssumption ==
  /\ \E s, t \in Streams : s # t
  /\ Capacity \in Nat \ {0}

VARIABLES
  effect,      \* isAuthenticated when the effect ran last
  stream,      \* the state of each EventSource
  current,     \* eventSourceRef
  cursor,      \* the next message of the channel for each stream
  timers,      \* calls of connect that setTimeout has pending
  connected    \* what the top bar shows as LIVE

live == <<effect, stream, current, cursor, timers, connected>>

tab == <<session, cache, live>>

isAuthenticated == user # None

\* The tab has yet to notice that a stream is lost.
Live(s) == stream[s] \in {"connecting", "open", "lost"}

StreamTypeOK ==
  /\ {effect, connected} \subseteq BOOLEAN
  /\ stream \in [Streams -> {"closed", "connecting", "open", "lost"}]
  /\ current \in Streams
  /\ cursor \in [Streams -> Nat]
  /\ timers \in Nat

StreamInit ==
  /\ effect = FALSE
  /\ stream = [s \in Streams |-> "closed"]
  /\ current = CHOOSE s \in Streams : TRUE
  /\ cursor = [s \in Streams |-> 1]
  /\ timers = 0
  /\ connected = FALSE

----------------------------------------------------------------------------

Close(s) == [stream EXCEPT ![s] = "closed"]

\* An EventSource that was closed long ago stands for a new one.
NewStream == CHOOSE s \in Streams : ~Live(s) /\ s # current

OpenBeside(others) ==
  /\ stream' = [stream EXCEPT ![NewStream] = "connecting"]
  /\ current' = NewStream

\* connect: the stream of eventSourceRef is closed and replaced by a new one.
OpenStream(others) ==
  /\ stream' = [others EXCEPT ![NewStream] = "connecting"]
  /\ current' = NewStream

\* The effect on isAuthenticated: the clean-up of its last run, then this run.
RunEffect ==
  /\ effect # isAuthenticated
  /\ effect' = isAuthenticated
  /\ IF isAuthenticated
       THEN OpenStream(Close(current))
       ELSE stream' = Close(current) /\ UNCHANGED current
  /\ UNCHANGED <<cursor, timers, connected>>

\* The timer fires whether or not the user is still logged in.
TimerFires ==
  /\ timers > 0
  /\ timers' = timers - 1
  /\ OpenStream(Close(current))
  /\ UNCHANGED <<effect, cursor, connected>>

Refused == token # None /\ token.expired

\* event_stream accepts a stream without a token too, and subscribes; onopen.
Accepted(s) ==
  /\ stream[s] = "connecting" /\ ~Refused
  /\ stream' = [stream EXCEPT ![s] = "open"]
  /\ cursor' = [cursor EXCEPT ![s] = Len(aired) + 1]
  /\ connected' = TRUE
  /\ UNCHANGED <<effect, current, timers>>

\* The tab is told of the error, or of the refusal of its token: onerror.
OnError(s) ==
  /\ \/ stream[s] = "lost"
     \/ stream[s] = "connecting" /\ Refused
  /\ connected' = FALSE
  /\ stream' = Close(s)
  /\ timers' = timers + 1
  /\ UNCHANGED <<effect, current, cursor>>

\* Messages that have left the channel are skipped by a subscriber that lags.
Oldest(s) == IF Len(aired) - cursor[s] >= Capacity
               THEN Len(aired) - Capacity + 1 ELSE cursor[s]

\* onmessage; the events here are those of the Flight Service.
OnMessage(s) ==
  /\ stream[s] = "open" /\ cursor[s] <= Len(aired)
  /\ Invalidate("flight", aired[Oldest(s)])
  /\ cursor' = [cursor EXCEPT ![s] = Oldest(s) + 1]
  /\ UNCHANGED <<effect, stream, current, timers, connected>>

\* The other end of the streams is gone.
StreamsLost ==
  /\ stream' = [s \in Streams |-> IF stream[s] = "open" THEN "lost" ELSE stream[s]]
  /\ UNCHANGED <<effect, current, cursor, timers, connected>>

\* The page is loaded anew: the browser closes its streams.
StreamsDiscarded ==
  /\ effect' = FALSE
  /\ stream' = [s \in Streams |-> "closed"]
  /\ timers' = 0
  /\ connected' = FALSE
  /\ UNCHANGED <<current, cursor>>

Reload ==
  /\ Spend("login")
  /\ LoadSession
  /\ CacheLost
  /\ StreamsDiscarded

TabStep ==
  \/ SessionStep /\ LeavePage /\ UNCHANGED live
  \/ CacheStep /\ UNCHANGED <<session, live>>
  \/ /\ \/ RunEffect
        \/ TimerFires
        \/ \E s \in Streams : Accepted(s) \/ OnError(s)
     /\ UNCHANGED <<session, cache>>
  \/ \E s \in Streams : OnMessage(s) /\ UNCHANGED session

\* What the budget bounds.
TabInput ==
  \/ SessionInput /\ LeavePage /\ UNCHANGED live
  \/ CacheInput /\ UNCHANGED <<session, live>>
  \/ Reload

----------------------------------------------------------------------------

\* SSEProvider keeps one stream: whatever the order of logins, errors and timers, no
\* second EventSource is left open, a user who is logged in has a stream or a timer
\* that will open one, and LIVE is shown only while there is a stream.
StreamIsKept ==
  /\ \A s, t \in Streams : Live(s) /\ Live(t) => s = t
  /\ effect => timers > 0 \/ Live(current)
  /\ effect /\ connected => Live(current)
=============================================================================
