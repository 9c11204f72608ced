--------------------------- MODULE FlightUpdates ---------------------------
(***************************************************************************)
(* CreateFlight and UpdateFlight of the Flight Service: concurrent PATCH   *)
(* requests on the flights table, the events derived from what each call   *)
(* read and wrote, and the search for gate conflicts.                      *)
(*                                                                         *)
(* Each action is one database statement or one publish of a request's     *)
(* goroutine.  actual_departure and the descriptive columns are left out:  *)
(* they are written as actual_arrival is, and nothing here reads them.     *)
(***************************************************************************)
EXTENDS Integers, Sequences, SequencesExt, FiniteSets

CONSTANTS
  Flights,    \* ids the database may give
  Calls,      \* PATCH requests
  Gates,
  Requests,   \* the bodies of PATCH requests
  Schedules,  \* the scheduled times flights are created with
  None,       \* NULL, or a field that a request leaves out
  MaxFaults   \* bound on failed statements, lost publishes and crashes

Inactive == {"departed", "cancelled", "diverted"}

Status == {"scheduled", "arrived", "boarding"} \cup Inactive

\* Fields that are None are not set.  An invalid status is refused before it is here.
Request == [status : Status \cup {None}, arrived : Nat \cup {None},
            gate : Gates \cup {None}]

Row == [status : Status, arrived : Nat \cup {None}, gate : Gates \cup {None},
        schedule : Schedules]

ASSUME FlightsAssumption ==
  /\ Requests \subseteq Request
  /\ Schedules \subseteq [arrival : Nat \cup {None}, departure : Nat \cup {None}]
  /\ None \notin Nat \cup Gates \cup Status \cup Flights \cup Row
  /\ MaxFaults \in Nat

VARIABLES
  flights,     \* the table: a row, or None before the insert
  calls,       \* the local state of each request
  told,        \* status events of each flight, in the order of publishing
  moved,       \* flight.gate.changed events
  conflicts,   \* flight.gate.conflict events
  faults,      \* faults injected so far
  cut,         \* history: flights of which an event was lost
  overlapped,  \* history: flights two requests were updating at a time
  reached,     \* history: the statuses each flight has been given
  unchecked    \* history: flights that came to their gate, or back to work at it,
               \* without a search for conflicts

vars == <<flights, calls, told, moved, conflicts, faults, cut, overlapped, reached,
          unchecked>>

events == <<told, moved, conflicts>>

history == <<faults, cut, overlapped, reached, unchecked>>

Nothing == [status |-> None, arrived |-> None, gate |-> None]

Pc == {"idle", "update", "status", "gate", "check", "conflicts", "done"}

\* before and after are existing and flight of UpdateFlight, found the answer of
\* FindConflictingFlights.
Call == [pc : Pc, flight : Flights \cup {None}, req : Requests \cup {Nothing},
         before : Row \cup {None}, after : Row \cup {None}, found : SUBSET Flights]

Fresh(pc) == [pc |-> pc, flight |-> None, req |-> Nothing, before |-> None,
              after |-> None, found |-> {}]

Running(h) == h.pc \notin {"idle", "done"}

----------------------------------------------------------------------------

Set(req, row) ==
  [row EXCEPT !.status = IF req.status = None THEN @ ELSE req.status,
              !.arrived = IF req.arrived = None THEN @ ELSE req.arrived,
              !.gate = IF req.gate = None THEN @ ELSE req.gate]

StatusChanged(h) == h.req.status # None /\ h.req.status # h.before.status

GateChanged(h) == h.req.gate # None /\ h.req.gate # h.before.gate

\* Where publishStatusEvents goes after the write, and after the status event.
NextEventOr(h) ==
  IF GateChanged(h) THEN "gate" ELSE IF StatusChanged(h) THEN "status" ELSE "done"

NextEvent(h) ==
  IF StatusChanged(h) THEN "status" ELSE IF GateChanged(h) THEN "gate" ELSE "done"

AfterStatus(h) == IF GateChanged(h) THEN "gate" ELSE "done"

Coalesce(s, t) == IF s = None THEN t ELSE s

\* The window of a flight that is searched for; a flight without times has none.
Begins(row) == Coalesce(row.schedule.arrival, row.arrived)

Ends(row) == Coalesce(row.schedule.departure, Begins(row) + 3)

\* Flight g has its window at the gate of row, and meets that of row.
Meets(row, g) ==
  /\ row.schedule.arrival # None
  /\ flights[g] # None
  /\ flights[g].gate = row.gate
  /\ Begins(flights[g]) # None
  /\ Begins(flights[g]) < Ends(row)
  /\ Ends(flights[g]) > row.schedule.arrival

FindScheduledOnly(f, row) ==
  {g \in Flights \ {f} : Meets(row, g) /\ flights[g].status = "scheduled"}

\* The flights that the query finds for flight f with the window of row.
FindConflicting(f, row) ==
  {g \in Flights \ {f} : Meets(row, g) /\ flights[g].status \notin Inactive}

----------------------------------------------------------------------------

Init ==
  /\ flights = [f \in Flights |-> None]
  /\ calls = [c \in Calls |-> Fresh("idle")]
  /\ told = [f \in Flights |-> <<>>]
  /\ moved = {}
  /\ conflicts = {}
  /\ faults = 0
  /\ cut = {}
  /\ overlapped = {}
  /\ reached = [f \in Flights |-> {}]
  /\ unchecked = {}

\* POST /api/flights: no event, and no search for conflicts.
CreateFlight(f, schedule, gate) ==
  /\ flights[f] = None
  /\ flights' = [flights EXCEPT ![f] = [status |-> "scheduled", arrived |-> None,
                                        gate |-> gate, schedule |-> schedule]]
  /\ unchecked' = IF gate = None THEN unchecked ELSE unchecked \cup {f}
  /\ UNCHANGED <<calls, events, faults, cut, overlapped, reached>>

\* PATCH /api/flights/{id}: GetByID.
Begin(c, f, req) ==
  /\ calls[c].pc = "idle"
  /\ req # Nothing
  /\ flights[f] # None
  /\ calls' = [calls EXCEPT ![c] = [Fresh("update") EXCEPT !.flight = f, !.req = req,
                                                           !.before = flights[f]]]
  /\ overlapped' = IF \E d \in Calls : Running(calls[d]) /\ calls[d].flight = f
                   THEN overlapped \cup {f} ELSE overlapped
  /\ UNCHANGED <<flights, events, faults, cut, reached, unchecked>>

\* The UPDATE of request h is committed.
Commit(h, row) ==
  /\ flights' = [flights EXCEPT ![h.flight] = row]
  /\ reached' = [reached EXCEPT ![h.flight] = IF h.req.status = None THEN @
                                              ELSE @ \cup {h.req.status}]

BackToWork(f, row) == flights[f].status \in Inactive /\ row.status \notin Inactive

\* repo.Update writes row and returns it.
Write(c, row) ==
  LET h == [calls[c] EXCEPT !.after = row]
      f == h.flight
  IN  /\ Commit(h, row)
      /\ calls' = [calls EXCEPT ![c] = IF NextEvent(h) = "done" THEN Fresh("done")
                                       ELSE [h EXCEPT !.pc = NextEvent(h)]]
      /\ unchecked' = IF GateChanged(h) THEN unchecked \ {f}
                      ELSE IF BackToWork(f, row) THEN unchecked \cup {f} ELSE unchecked
      /\ UNCHANGED <<events, faults, cut, overlapped>>

UpdateAll(c) ==
  /\ calls[c].pc = "update"
  /\ Write(c, Set(calls[c].req, calls[c].before))

Update(c) ==
  /\ calls[c].pc = "update"
  /\ Write(c, Set(calls[c].req, flights[calls[c].flight]))

\* The UPDATE is committed but answered by an error: nothing is announced or searched.
UpdateUnanswered(c) ==
  LET h == calls[c]
      f == h.flight
      row == Set(h.req, flights[f])
  IN  /\ h.pc = "update"
      /\ faults < MaxFaults
      /\ faults' = faults + 1
      /\ Commit(h, row)
      /\ calls' = [calls EXCEPT ![c] = Fresh("done")]
      /\ cut' = IF NextEvent(h) = "done" THEN cut ELSE cut \cup {f}
      /\ unchecked' = IF GateChanged(h) \/ BackToWork(f, row) THEN unchecked \cup {f}
                      ELSE unchecked
      /\ UNCHANGED <<events, overlapped>>

\* The flights whose update was written by one of the calls, and that have events to come.
Losing(cs) == {calls[c].flight : c \in {d \in cs : Running(calls[d]) /\ calls[d].pc # "update"}}

\* A publish of a call that may fail, which is logged.
Publish(c, taken) ==
  \/ /\ taken
     /\ UNCHANGED <<faults, cut>>
  \/ /\ faults < MaxFaults
     /\ faults' = faults + 1
     /\ cut' = cut \cup {calls[c].flight}
     /\ UNCHANGED events

GoOn(c, pc) ==
  calls' = [calls EXCEPT ![c] = IF pc = "done" THEN Fresh("done") ELSE [@ EXCEPT !.pc = pc]]

\* The event of a new status; the row is that of the write, not of the publish.
PublishStatusOf(c, row) ==
  LET h == calls[c]
  IN  /\ h.pc = "status"
      /\ Publish(c, /\ told' = [told EXCEPT ![h.flight] =
                                  Append(@, [old |-> h.before.status, new |-> row.status])]
                    /\ UNCHANGED <<moved, conflicts>>)
      /\ GoOn(c, AfterStatus(h))
      /\ UNCHANGED <<flights, overlapped, reached, unchecked>>

PublishStatusReread(c) == PublishStatusOf(c, flights[calls[c].flight])

PublishStatus(c) == PublishStatusOf(c, calls[c].after)

PublishGate(c) ==
  LET h == calls[c]
  IN  /\ h.pc = "gate"
      /\ Publish(c, /\ moved' = moved \cup {[flight |-> h.flight, old |-> h.before.gate,
                                             new |-> h.after.gate]}
                    /\ UNCHANGED <<told, conflicts>>)
      /\ GoOn(c, "check")
      /\ UNCHANGED <<flights, overlapped, reached, unchecked>>

\* checkGateConflicts: the query, after the write was committed.
Check(c) ==
  LET found == FindConflicting(calls[c].flight, calls[c].after)
  IN  /\ calls[c].pc = "check"
      /\ calls' = [calls EXCEPT ![c] = IF found = {} THEN Fresh("done")
                                       ELSE [@ EXCEPT !.pc = "conflicts", !.found = found]]
      /\ UNCHANGED <<flights, events, history>>

PublishConflict(c) ==
  LET h == calls[c]
  IN  /\ h.pc = "conflicts"
      /\ \E g \in h.found :
           /\ Publish(c, /\ conflicts' = conflicts \cup {[flights |-> {h.flight, g},
                                                          gate |-> h.after.gate]}
                         /\ UNCHANGED <<told, moved>>)
           /\ calls' = [calls EXCEPT ![c] = IF h.found = {g} THEN Fresh("done")
                                            ELSE [h EXCEPT !.found = @ \ {g}]]
      /\ UNCHANGED <<flights, overlapped, reached, unchecked>>

\* A statement fails and has no effect: before the write this is answered by 422, after
\* it is logged.
DatabaseError(c) ==
  /\ calls[c].pc \in {"update", "check"}
  /\ faults < MaxFaults
  /\ faults' = faults + 1
  /\ cut' = cut \cup Losing({c})
  /\ calls' = [calls EXCEPT ![c] = Fresh("done")]
  /\ UNCHANGED <<flights, events, overlapped, reached, unchecked>>

\* The process dies, with all requests.
Crash ==
  /\ \E c \in Calls : Running(calls[c])
  /\ faults < MaxFaults
  /\ faults' = faults + 1
  /\ cut' = cut \cup Losing(Calls)
  /\ calls' = [c \in Calls |-> IF Running(calls[c]) THEN Fresh("done") ELSE calls[c]]
  /\ UNCHANGED <<flights, events, overlapped, reached, unchecked>>

Handle(c) ==
  \/ Update(c) \/ PublishStatus(c) \/ PublishGate(c) \/ Check(c) \/ PublishConflict(c)

Next ==
  \/ \E f \in Flights, schedule \in Schedules, gate \in Gates \cup {None} :
       CreateFlight(f, schedule, gate)
  \/ \E c \in Calls :
       \/ \E f \in Flights, req \in Requests : Begin(c, f, req)
       \/ Handle(c)
       \/ UpdateUnanswered(c)
       \/ DatabaseError(c)
  \/ Crash

Spec == Init /\ [][Next]_vars

----------------------------------------------------------------------------

\* Types of the table, the requests and the events; a status event is about a change.
TypeOK ==
  /\ flights \in [Flights -> Row \cup {None}]
  /\ calls \in [Calls -> Call]
  /\ told \in [Flights -> Seq({e \in [old : Status, new : Status] : e.old # e.new})]
  /\ moved \subseteq [flight : Flights, old : Gates \cup {None}, new : Gates]
  /\ conflicts \subseteq [flights : SUBSET Flights, gate : Gates]
  /\ faults \in 0 .. MaxFaults
  /\ cut \subseteq Flights
  /\ overlapped \subseteq Flights
  /\ reached \in [Flights -> SUBSET Status]
  /\ unchecked \subseteq Flights

Updating(f) == \E c \in Calls : Running(calls[c]) /\ calls[c].flight = f

\* Where updates of a flight come one at a time and no event of it is lost, whatever
\* becomes of the others, its status events are its history:
\* each begins where the last one ended, and the last one ends at its status.
EventsTellTheStory ==
  \A f \in Flights :
    LET statuses == <<"scheduled">> \o [i \in DOMAIN told[f] |-> told[f][i].new]
    IN  /\ flights[f] # None /\ f \notin cut \cup overlapped /\ ~Updating(f)
        => /\ \A i \in DOMAIN told[f] : told[f][i].old = statuses[i]
           /\ statuses[Len(statuses)] = flights[f].status

\* However updates race, a status that a flight was ever given other than its first
\* is announced: a racing update can hide a return to it, never the first time.  A lost
\* publish, a failed or unanswered statement or a crash keeps from the others only the
\* flights whose update was written and had events to come.
EveryStatusAnnounced ==
  \A f \in Flights \ cut :
    \A s \in reached[f] \ {"scheduled"} :
      \/ \E i \in DOMAIN told[f] : told[f][i].new = s
      \/ \E c \in Calls : /\ calls[c].pc = "status" /\ calls[c].flight = f
                          /\ calls[c].after.status = s

Overlap(r, s) ==
  /\ r.schedule.arrival # None /\ s.schedule.arrival # None
  /\ Begins(r) < Ends(s) /\ Begins(s) < Ends(r)

\* Two flights at work at one gate at one time are reported, whichever came first and
\* however their two updates interleave: each searches after its own write, so one of
\* them sees the other.
GateConflictsReported ==
  \A f, g \in Flights :
    LET sound(h) == /\ flights[h] # None
                    /\ flights[h].gate # None
                    /\ flights[h].status \notin Inactive
                    /\ h \notin cut \cup overlapped \cup unchecked
                    /\ ~Updating(h)
    IN  /\ f # g /\ sound(f) /\ sound(g)
        /\ flights[f].gate = flights[g].gate
        /\ Overlap(flights[f], flights[g])
        => [flights |-> {f, g}, gate |-> flights[f].gate] \in conflicts

\* Racing updates of different fields keep each other's: a field changes only to
\* what the request that writes it has sent.
FieldsChangeByRequest ==
  [][\A f \in Flights :
       flights[f] # None =>
         \E req \in {Nothing} \cup {calls[c].req : c \in {d \in Calls :
                                      calls[d].pc = "update" /\ calls[d].flight = f}} :
           flights'[f] = Set(req, flights[f])]_vars
=============================================================================
