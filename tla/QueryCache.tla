---------------------------- MODULE QueryCache ----------------------------
(***************************************************************************)
(* What the pages of the dashboard show of the tables of the services: the *)
(* queries of the hooks, which are fetched when a page is mounted, at      *)
(* intervals, when a message of the event stream invalidates them and when *)
(* an alert has been resolved.                                             *)
(*                                                                         *)
(* A table is the set of the changes it has taken, and data the changes    *)
(* that were in the answer.  TanStack Query is not in this repository: one *)
(* fetch at a time for a query, of which an invalidation starts another    *)
(* one unless it is the first, retried once, and the data outlives the     *)
(* page.                                                                   *)
(***************************************************************************)
EXTENDS FlightPublisher, EventAudit, Session

CONSTANTS
  Followed,   \* bound: the queries that an instance follows
  Alerts      \* alerts that are open at first

VARIABLES
  resolved,     \* alerts whose status has been set to resolved
  elsewhere,    \* how often the tables have changed of which no event tells
  alertsTab,    \* the tab of EventsPage
  mounted,      \* queries that a component on the screen uses
  data,         \* the last answer of each query
  fetch,        \* the answer to the request of each query, as it would be now
  invalid,      \* queries that are to be fetched when they are mounted
  patch,        \* the alert that handleResolve has sent, and what has come of it
  told          \* history: changes because of which a query was to be fetched

cache == <<resolved, elsewhere, alertsTab, mounted, data, fetch, invalid, patch, told>>

----------------------------------------------------------------------------

\* A hook makes a query of its key, its arguments and the table behind its URL.
Query(key, args, table) == [key |-> key, args |-> args, table |-> table]

useFlights(limit) == Query("flights", limit, "flights")
useUpcomingArrivals == Query("flights", "upcoming", "flights")
useTurnarounds(limit) == Query("turnarounds", limit, "turnarounds")
useCrew(limit) == Query("crew", limit, "crew")
useAssignments == Query("assignments", "", "assignments")
useEquipment == Query("equipment", "100", "equipment")
useEvents(limit) == Query("events", limit, "events")
useAlerts(status) == Query("alerts", status, "alerts")
useWeather == Query("weather", "", "weather")
gateOccupancy == Query("gate-occupancy", "", "flights")

OverviewPage == {useFlights("200"), useUpcomingArrivals, useTurnarounds("200"),
                 useCrew("200"), useAlerts("open"), useEvents("10"), useWeather}

CrewPage == {useCrew("100"), useAssignments}

EventsPage == IF alertsTab THEN {useAlerts("any")} ELSE {useEvents("100")}

TopBar == {useAlerts("open")}

\* What the components at a path use; the layout is around all pages but the login.
UsedAt(p) ==
  CASE p = "/login" -> {}
    [] p = "/" -> TopBar \cup OverviewPage
    [] p = "/flights" -> TopBar \cup {useFlights("100")}
    [] p = "/turnarounds" -> TopBar \cup {useTurnarounds("100")}
    [] p = "/stand-plan" -> TopBar \cup {gateOccupancy}
    [] p = "/equipment" -> TopBar \cup {useEquipment}
    [] p = "/crew" -> TopBar \cup CrewPage
    [] p = "/events" -> TopBar \cup EventsPage
    [] OTHER -> TopBar

\* What the service answers now.
Now(q) ==
  CASE q.table = "events" -> {e \in Events : logged[e] > 0}
    [] q.table = "flights" -> {e \in Events : request[e] # "idle"}
    [] q.table = "alerts" -> resolved
    [] OTHER -> 1..elsewhere

Change == Events \cup Alerts \cup Nat

CacheTypeOK ==
  /\ resolved \subseteq Alerts
  /\ elsewhere \in Nat
  /\ alertsTab \in BOOLEAN
  /\ {mounted, invalid} \subseteq SUBSET Followed
  /\ data \in [Followed -> (SUBSET Change) \cup {None}]
  /\ fetch \in [Followed -> (SUBSET Change) \cup {None}]
  /\ patch \in [of : Alerts \cup {None}, served : BOOLEAN]
  /\ told \in [Followed -> SUBSET Change]

Unpatched == [of |-> None, served |-> FALSE]

CacheInit ==
  /\ resolved = {}
  /\ elsewhere = 0
  /\ alertsTab = FALSE
  /\ mounted = {}
  /\ data = [q \in Followed |-> None]
  /\ fetch = [q \in Followed |-> None]
  /\ invalid = {}
  /\ patch = Unpatched
  /\ told = [q \in Followed |-> {}]

----------------------------------------------------------------------------

\* Mounted components fetch what is missing or invalid, and may find the rest stale.
Mount ==
  LET wanted == IF Settled THEN UsedAt(path) \cap Followed ELSE {} IN
  /\ mounted # wanted
  /\ mounted' = wanted
  /\ \E stale \in SUBSET (wanted \ mounted) :
       fetch' = [q \in Followed |->
                   IF /\ q \in wanted \ mounted
                      /\ fetch[q] = None
                      /\ data[q] = None \/ q \in invalid \cup stale
                     THEN Now(q) ELSE fetch[q]]
  /\ UNCHANGED <<resolved, elsewhere, alertsTab, data, invalid, patch, told>>

PollOnce(q) ==
  /\ q \in mounted /\ fetch[q] = None /\ data[q] = None
  /\ fetch' = [fetch EXCEPT ![q] = Now(q)]
  /\ UNCHANGED <<resolved, elsewhere, alertsTab, mounted, data, invalid, patch, told>>

\* refetchInterval
Poll(q) ==
  /\ q \in mounted /\ fetch[q] = None
  /\ fetch' = [fetch EXCEPT ![q] = Now(q)]
  /\ UNCHANGED <<resolved, elsewhere, alertsTab, mounted, data, invalid, patch, told>>

\* The service reads its table at some time before the answer.
ReadLater(q) ==
  /\ fetch[q] # None
  /\ fetch' = [fetch EXCEPT ![q] = Now(q)]
  /\ UNCHANGED <<resolved, elsewhere, alertsTab, mounted, data, invalid, patch, told>>

Answered(q) ==
  /\ fetch[q] # None
  /\ data' = [data EXCEPT ![q] = fetch[q]]
  /\ fetch' = [fetch EXCEPT ![q] = None]
  /\ invalid' = invalid \ {q}
  /\ UNCHANGED <<resolved, elsewhere, alertsTab, mounted, patch, told>>

\* The request and its retry fail: the data stays as it was.
FetchFails(q) ==
  /\ fetch[q] # None /\ Spend("click")
  /\ fetch' = [fetch EXCEPT ![q] = None]
  /\ told' = [told EXCEPT ![q] = {}]
  /\ UNCHANGED <<resolved, elsewhere, alertsTab, mounted, data, invalid, patch>>

\* A fetch is started again, unless it is the first one of its query.
Refetched(q) == fetch[q] = None \/ data[q] # None

KeysOf(prefix) ==
  {"events", "alerts"}
  \cup CASE prefix = "flight" -> {"flights", "upcoming-arrivals"}
         [] prefix = "turnaround" -> {"turnarounds"}
         [] prefix = "crew" -> {"crew"}
         [] prefix = "equipment" -> {"equipment"}
         [] OTHER -> {}

\* invalidateQueries for the keys of a message that tells of event e: what is on the
\* screen is fetched at once, the rest when it is mounted.
Invalidate(prefix, e) ==
  LET hit == {q \in Followed : /\ q.key \in KeysOf(prefix)
                               /\ q \in mounted \/ data[q] # None \/ fetch[q] # None}
      shown == {q \in hit \cap mounted : Refetched(q)}
      waiting == {q \in hit \ mounted : fetch[q] = None}
  IN  /\ fetch' = [q \in Followed |-> IF q \in shown THEN Now(q) ELSE fetch[q]]
      /\ invalid' = invalid \cup hit
      /\ told' = [q \in Followed |->
                    IF q \in shown \cup waiting /\ q.table \in {"events", "flights"}
                      THEN told[q] \cup {e} ELSE told[q]]
      /\ UNCHANGED <<resolved, elsewhere, alertsTab, mounted, data, patch>>

----------------------------------------------------------------------------

\* The alerts have been fetched and show one that is open to someone who may resolve it.
canResolve(a) ==
  /\ useAlerts("any") \in mounted
  /\ user \in {"admin", "ops_manager"}
  /\ data[useAlerts("any")] # None
  /\ a \notin data[useAlerts("any")]

OpenAlertsTab ==
  /\ path = "/events" /\ Settled /\ Spend("click")
  /\ alertsTab' = ~alertsTab
  /\ UNCHANGED <<resolved, elsewhere, mounted, data, fetch, invalid, patch, told>>

\* handleResolve; bound: one at a time.
ClickResolve(a) ==
  /\ canResolve(a) /\ patch = Unpatched /\ Spend("click")
  /\ patch' = [of |-> a, served |-> FALSE]
  /\ UNCHANGED <<resolved, elsewhere, alertsTab, mounted, data, fetch, invalid, told>>

PatchServed ==
  /\ patch # Unpatched /\ ~patch.served
  /\ resolved' = resolved \cup {patch.of}
  /\ patch' = [patch EXCEPT !.served = TRUE]
  /\ UNCHANGED <<elsewhere, alertsTab, mounted, data, fetch, invalid, told>>

\* refetch, which cancels the request that may be on its way.
PatchAnswered ==
  LET q == useAlerts("any") IN
  /\ patch.served
  /\ fetch' = [fetch EXCEPT ![q] = IF Refetched(q) THEN Now(q) ELSE @]
  /\ told' = [told EXCEPT ![q] = IF Refetched(q) THEN @ \cup {patch.of} ELSE @]
  /\ patch' = Unpatched
  /\ UNCHANGED <<resolved, elsewhere, alertsTab, mounted, data, invalid>>

PatchFails ==
  /\ patch # Unpatched /\ Spend("click")
  /\ patch' = Unpatched
  /\ UNCHANGED <<resolved, elsewhere, alertsTab, mounted, data, fetch, invalid, told>>

\* Crew assignments, equipment, weather: bound by the budget.
ElsewhereChanges ==
  /\ Spend("change")
  /\ elsewhere' = elsewhere + 1
  /\ UNCHANGED <<resolved, alertsTab, mounted, data, fetch, invalid, patch, told>>

\* The path may change: the state of a page goes with the page.
LeavePage ==
  /\ alertsTab' = (alertsTab /\ path' = "/events")
  /\ UNCHANGED <<resolved, elsewhere, mounted, data, fetch, invalid, patch, told>>

\* The page is loaded anew.
CacheLost ==
  /\ alertsTab' = FALSE
  /\ mounted' = {}
  /\ data' = [q \in Followed |-> None]
  /\ fetch' = [q \in Followed |-> None]
  /\ invalid' = {}
  /\ patch' = Unpatched
  /\ told' = [q \in Followed |-> {}]
  /\ UNCHANGED <<resolved, elsewhere>>

CacheStep ==
  \/ Mount
  \/ \E q \in Followed : Poll(q) \/ ReadLater(q) \/ Answered(q)
  \/ PatchServed
  \/ PatchAnswered

CacheInput ==
  \/ OpenAlertsTab
  \/ \E q \in Followed : FetchFails(q)
  \/ \E a \in Alerts : ClickResolve(a)
  \/ PatchFails
  \/ ElsewhereChanges

----------------------------------------------------------------------------

\* A fetch that was made because of a change has that change: the row of an event is
\* there before the event is broadcast, unless its insert failed, and an alert is
\* resolved before the list is fetched again, whatever requests are on their way.
FetchSeesChange ==
  \A q \in Followed :
    fetch[q] = None /\ q \notin invalid =>
      \/ told[q] = {}
      \/ data[q] # None /\ told[q] \subseteq data[q] \cup unlogged

\* Once nothing changes and nobody clicks any more, what is on the screen becomes what
\* the services hold, even where no event tells of a change.
ScreenCatchesUp == <>[](\A q \in mounted : data[q] = Now(q))
=============================================================================
