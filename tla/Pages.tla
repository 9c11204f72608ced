------------------------------- MODULE Pages -------------------------------
(***************************************************************************)
(* What pages of the dashboard make of the answers to their queries: the   *)
(* rosters of crew and of equipment with their filters and counts, and the *)
(* lights of the Settings page, each of which is set by the answer to a    *)
(* request of its own.                                                     *)
(***************************************************************************)
EXTENDS FlightStore, FiniteSetsExt

CONSTANTS
  CrewIds, UnitIds,   \* crew members and units of equipment
  Missing             \* no answer yet

ASSUME PagesAssumption == IsFiniteSet(UnitIds)

EquipmentStatus == {"available", "in_use", "maintenance", "out_of_service"}
AssignmentStatus == {"assigned", "active", "completed", "reassigned"}

\* Two types of equipment stand for the nine.
EquipmentType == {"gpu", "fuel_truck"}

Services == 1..4

VARIABLES
  crew,          \* [crew member -> is_active] of the last answer
  assignments,   \* [crew member, status] of the last answer
  equipment,     \* [unit -> type and status] of the last answer
  services,      \* the lights of SystemHealthPanel
  answers        \* history: how the request of each light has been answered

pages == <<crew, assignments, equipment, services, answers>>

Unit == [equipment_type : EquipmentType, status : EquipmentStatus]

Unchecked == [i \in Services |-> "checking"]

PagesInit ==
  /\ crew = Missing
  /\ assignments = Missing
  /\ equipment = Missing
  /\ services = Unchecked
  /\ answers = [i \in Services |-> "none"]

----------------------------------------------------------------------------

\* The two queries of CrewPage are answered one by one, from different tables.  Nothing
\* is shown of the assignments before the crew are there.
CrewArrives ==
  /\ Spend("page")
  /\ crew' \in [CrewIds -> BOOLEAN]
  /\ UNCHANGED <<rows, assignments, equipment, services, answers>>

AssignmentsArrive ==
  /\ crew # Missing
  /\ assignments' \in SUBSET [crew_member_id : CrewIds, status : AssignmentStatus]
  /\ UNCHANGED <<rows, budget, crew, equipment, services, answers>>

assignedCrewIds ==
  IF assignments = Missing THEN {}
  ELSE {a.crew_member_id : a \in {b \in assignments : b.status \in {"assigned", "active"}}}

AssignedIncluded(filter) ==
  {c \in CrewIds :
     CASE filter = "all" -> TRUE
       [] filter = "inactive" -> ~crew[c]
       [] filter = "assigned" -> c \in assignedCrewIds
       [] filter = "available" -> crew[c] /\ c \notin assignedCrewIds}

filteredCrew(filter) ==
  {c \in CrewIds :
     CASE filter = "all" -> TRUE
       [] filter = "inactive" -> ~crew[c]
       [] filter = "assigned" -> crew[c] /\ c \in assignedCrewIds
       [] filter = "available" -> crew[c] /\ c \notin assignedCrewIds}

\* The last column of the table.
Availability(c) ==
  CASE ~crew[c] -> "Off duty"
    [] crew[c] /\ c \in assignedCrewIds -> "Assigned"
    [] OTHER -> "Available"

----------------------------------------------------------------------------

EquipmentArrives ==
  /\ Spend("page")
  /\ equipment' \in [UnitIds -> Unit]
  /\ UNCHANGED <<rows, crew, assignments, services, answers>>

\* The buttons above the table, and the rows that one of them leaves.
StatusFilter == {"all", "available", "in_use", "maintenance", "out_of_service"}

filtered(f) == {u \in UnitIds : f = "all" \/ equipment[u].status = f}

\* The cards at the top of the page.
counts ==
  [total |-> Cardinality(UnitIds),
   available |-> Cardinality({u \in UnitIds : equipment[u].status = "available"}),
   in_use |-> Cardinality({u \in UnitIds : equipment[u].status = "in_use"}),
   maintenance |-> Cardinality({u \in UnitIds : equipment[u].status = "maintenance"})]

\* What is counted for each type that there are units of.
typeGroups ==
  [t \in {equipment[u].equipment_type : u \in UnitIds} |->
     LET of == {u \in UnitIds : equipment[u].equipment_type = t} IN
     [total |-> Cardinality(of),
      available |-> Cardinality({u \in of : equipment[u].status = "available"}),
      in_use |-> Cardinality({u \in of : equipment[u].status = "in_use"})]]

----------------------------------------------------------------------------

\* SystemHealthPanel is mounted and sends all its requests.
OpenSettings ==
  /\ Spend("page")
  /\ services' = Unchecked
  /\ answers' = [i \in Services |-> "asked"]
  /\ UNCHANGED <<rows, crew, assignments, equipment>>

\* setServices with a function of the state before.
setServices(i, light) == services' = [services EXCEPT ![i] = light]

HealthAnswered(i, light) ==
  /\ answers[i] = "asked"
  /\ setServices(i, light)
  /\ answers' = [answers EXCEPT ![i] = light]
  /\ UNCHANGED <<rows, budget, crew, assignments, equipment>>

PagesNext ==
  \/ CrewArrives
  \/ AssignmentsArrive
  \/ EquipmentArrives
  \/ OpenSettings
  \/ \E i \in Services, light \in {"healthy", "down"} : HealthAnswered(i, light)

----------------------------------------------------------------------------

\* Every filter of CrewPage leaves the crew whose rows say what the filter says, while
\* the two tables they come from were read at different times.
CrewAgrees ==
  crew # Missing => \A c \in CrewIds :
    /\ c \in filteredCrew("inactive") <=> Availability(c) = "Off duty"
    /\ c \in filteredCrew("assigned") <=> Availability(c) = "Assigned"
    /\ c \in filteredCrew("available") <=> Availability(c) = "Available"

\* Every unit is left by exactly one of the buttons beside "all", and the cards and the
\* groups by type count the units that the buttons leave.
EquipmentAgrees ==
  equipment # Missing =>
    /\ \A u \in UnitIds :
         Cardinality({f \in StatusFilter \ {"all"} : u \in filtered(f)}) = 1
    /\ counts.total = Cardinality(filtered("all"))
    /\ \A f \in {"available", "in_use", "maintenance"} :
         counts[f] = Cardinality(filtered(f))
    /\ \A f \in {"total", "available", "in_use"} :
         counts[f] = MapThenSumSet(LAMBDA t : typeGroups[t][f], DOMAIN typeGroups)

\* What CrewPage and EquipmentPage say of a row in one place they say in every other.
RostersAgree == CrewAgrees /\ EquipmentAgrees

\* Every light shows the answer to its own request, in whatever order they come.
LightsAreAnswers ==
  \A i \in Services :
    services[i] = IF answers[i] \in {"none", "asked"} THEN "checking" ELSE answers[i]
=============================================================================
