---------------------------- MODULE EventBroker ----------------------------
(***************************************************************************)
(* The broker as the Flight Service and the Ops Hub use it: the durable    *)
(* queue ops-hub-all-queue, which exists once a consumer has declared and  *)
(* bound it, and outages of the broker.  RabbitMQ is not in this           *)
(* repository; the modules that extend this one say what a broken          *)
(* connection does to their end of it.                                     *)
(***************************************************************************)
EXTENDS Integers, Sequences, FiniteSets

CONSTANTS
  Events,     \* the events that requests publish
  Budgets     \* bounds: what may happen in a behaviour, which starts with one of them

\* Outages of the broker; broken connections and restarts of the Flight Service;
\* broken connections, restarts and failed inserts of the Ops Hub; logins and reloads
\* of the dashboard; requests that publish; clicks at the dashboard, and its requests
\* that fail; changes that no event tells of.  Without a start, the services have been
\* started and connected before.
Kinds == {"start", "outage", "flight", "hub", "login", "request", "click", "change"}

ASSUME BrokerAssumption == Budgets \subseteq [Kinds -> Nat]

VARIABLES
  up,      \* the broker answers
  bound,   \* the queue is declared and bound to the exchanges
  queue,   \* messages that are ready for delivery
  budget   \* what may still happen

broker == <<up, bound, queue, budget>>

BrokerTypeOK ==
  /\ up \in BOOLEAN
  /\ bound \in BOOLEAN
  /\ queue \in Seq(Events)
  /\ budget \in [Kinds -> Nat]

Started == budget["start"] = 0

BrokerInit ==
  /\ budget \in Budgets
  /\ up = TRUE
  /\ bound = Started
  /\ queue = <<>>

Spend(kind) ==
  /\ budget[kind] > 0
  /\ budget' = [budget EXCEPT ![kind] = @ - 1]

\* Without the mandatory flag a message that no queue is bound for is dropped.
Route(e) == queue' = IF bound THEN Append(queue, e) ELSE queue

\* The container is started again; queue and messages are durable.
BrokerStarts ==
  /\ ~up
  /\ up' = TRUE
  /\ UNCHANGED <<bound, queue, budget>>
=============================================================================
