-------------------------- MODULE MonitoringProofs --------------------------
(***************************************************************************)
(* What holds of Monitoring for any flights, runs, causes and pages.  The  *)
(* four parts share the flights table and the budget only, so that each    *)
(* has an inductive invariant of its own: CountedInv for the runs of the   *)
(* ingestion, AlertsInv for the jobs of the scheduler, and ShownInv for    *)
(* what the pages hold.                                                    *)
(***************************************************************************)
EXTENDS Monitoring, FiniteSetTheorems, SequenceTheorems, TLAPS

\* The steps of the Ops Hub and of the pages leave the flights table alone.
LEMMA OnlyIngestionWrites ==
  ASSUME SchedulerNext \/ OccupancyArrives \/ PagesNext
  PROVE  rows' = rows
<1>1. CASE SchedulerNext
  BY <1>1 DEF SchedulerNext, CheckTurnaroundDelays, CheckStuckTasks, CheckCrewShortage,
     StartJob, CrewAvailable, NoCrewAvailable, CrewUnknown, Count, CountFails, Counted,
     Insert, InsertFails, Close, Reopen, CreateAlert, TurnaroundChanges, CrewChanges,
     SchedulerRestarts
<1>2. CASE OccupancyArrives \/ PagesNext
  BY <1>2 DEF OccupancyArrives, PagesNext, CrewArrives, AssignmentsArrive,
     EquipmentArrives, OpenSettings, HealthAnswered
<1>3. QED
  BY <1>1, <1>2

----------------------------------------------------------------------------

BlocksKnown == occupancy = {} \/ occupancy \in Occupancies

\* What a bar shows of a block: it begins where the block does, or at midnight, covers
\* what the block occupies of the day, and where it is as drawn nothing else.
LEMMA BlockBar ==
  ASSUME NEW b, b.start \in Int, b.start < dayDuration,
         \/ b.end = NoTime /\ b.start + Turnover > 0
         \/ b.end \in Int /\ b.end > 0,
         NoTime \notin Int
  PROVE  /\ ConflictEnd(b) \in Int /\ ConflictEnd(b) > 0
         /\ left(b) \in Int /\ left(b) >= 0 /\ left(b) >= b.start
         /\ left(b) = 0 \/ left(b) = b.start
         /\ Bar(b) \subseteq Int
         /\ left(b) \in Bar(b)
         /\ \A p \in Int : p >= left(b) /\ p < ConflictEnd(b) /\ p < dayDuration
                           => p \in Bar(b)
         /\ AsDrawn(b) => \A p \in Bar(b) : p >= b.start /\ p < ConflictEnd(b)
<1>1. ConflictEnd(b) \in Int /\ ConflictEnd(b) > 0 /\ barEnd(b) = ConflictEnd(b)
  BY DEF ConflictEnd, barEnd, Turnover
<1>2. /\ left(b) \in Int /\ left(b) >= 0 /\ left(b) >= b.start
      /\ left(b) = 0 \/ left(b) = b.start
  BY DEF left
<1>3. /\ width(b) \in Int
      /\ \/ width(b) = ConflictEnd(b) - b.start
         \/ width(b) = dayDuration - left(b)
      /\ width(b) <= ConflictEnd(b) - b.start
  BY <1>1, <1>2 DEF width, dayDuration
<1> DEFINE w == IF width(b) < MinWidth THEN MinWidth ELSE width(b)
<1>4. w \in Int /\ w >= width(b) /\ w >= 2 /\ (width(b) >= MinWidth => w = width(b))
  BY <1>3 DEF MinWidth
<1>5. Bar(b) = left(b)..(left(b) + w - 1)
  BY DEF Bar
<1> HIDE DEF w
<1>6. ASSUME NEW p \in Int, p >= left(b), p < ConflictEnd(b), p < dayDuration
      PROVE  p \in Bar(b)
  BY <1>1, <1>2, <1>3, <1>4, <1>5, <1>6 DEF dayDuration
<1>7. ASSUME AsDrawn(b), NEW p \in Bar(b)
      PROVE  p >= b.start /\ p < ConflictEnd(b)
  <2>1. b.start >= 0 /\ w = width(b)
    BY <1>4, <1>7 DEF AsDrawn
  <2>2. left(b) = b.start
    BY <2>1 DEF left
  <2>3. QED
    BY <1>1, <1>3, <1>4, <1>5, <1>7, <2>1, <2>2
<1>8. left(b) \in Bar(b)
  BY <1>2, <1>4, <1>5
<1>9. QED
  BY <1>1, <1>2, <1>5, <1>6, <1>7, <1>8

\* Two blocks in conflict: the one that starts later does so while the other is there.
LEMMA ConflictOverlaps ==
  ASSUME NEW a, NEW c, Conflict(a, c),
         \A b \in {a, c} :
           /\ b.start \in Int /\ b.start < dayDuration
           /\ \/ b.end = NoTime /\ b.start + Turnover > 0
              \/ b.end \in Int /\ b.end > 0,
         NoTime \notin Int
  PROVE  Bar(a) \cap Bar(c) # {}
<1>1. /\ left(a) \in Int /\ ConflictEnd(a) \in Int /\ ConflictEnd(a) > 0
      /\ left(a) = 0 \/ left(a) = a.start
      /\ left(a) >= 0 /\ left(a) >= a.start /\ left(a) \in Bar(a)
      /\ \A p \in Int : p >= left(a) /\ p < ConflictEnd(a) /\ p < dayDuration
                        => p \in Bar(a)
      /\ a.start \in Int /\ a.start < dayDuration
  BY BlockBar
<1>2. /\ left(c) \in Int /\ ConflictEnd(c) \in Int /\ ConflictEnd(c) > 0
      /\ left(c) = 0 \/ left(c) = c.start
      /\ left(c) >= 0 /\ left(c) >= c.start /\ left(c) \in Bar(c)
      /\ \A p \in Int : p >= left(c) /\ p < ConflictEnd(c) /\ p < dayDuration
                        => p \in Bar(c)
      /\ c.start \in Int /\ c.start < dayDuration
  BY BlockBar
<1>3. a.start < ConflictEnd(c) /\ c.start < ConflictEnd(a)
  BY DEF Conflict
<1>4. CASE left(a) >= left(c)
  <2>1. left(a) < ConflictEnd(c) /\ left(a) < dayDuration
    BY <1>1, <1>2, <1>3 DEF dayDuration
  <2>2. left(a) \in Bar(c)
    BY <1>1, <1>2, <1>4, <2>1
  <2>3. QED
    BY <1>1, <2>2
<1>5. CASE left(c) >= left(a)
  <2>1. left(c) < ConflictEnd(a) /\ left(c) < dayDuration
    BY <1>1, <1>2, <1>3 DEF dayDuration
  <2>2. left(c) \in Bar(a)
    BY <1>1, <1>2, <1>5, <2>1
  <2>3. QED
    BY <1>2, <2>2
<1>6. QED
  BY <1>1, <1>2, <1>4, <1>5

LEMMA BarsAreBlocks == BlocksKnown => BarsTellConflicts
<1> SUFFICES ASSUME BlocksKnown, NEW a \in occupancy
             PROVE  LET overlapping == {b \in Row(a) \ {a} : Bar(a) \cap Bar(b) # {}} IN
                    /\ a.flight \in conflictFlightIds => overlapping # {}
                    /\ AsDrawn(a) /\ (\E b \in overlapping : AsDrawn(b))
                         => a.flight \in conflictFlightIds
  BY DEF BarsTellConflicts
<1>1. ASSUME NEW b \in occupancy
      PROVE  /\ b.start \in Int /\ b.start < dayDuration
             /\ \/ b.end = NoTime /\ b.start + Turnover > 0
                \/ b.end \in Int /\ b.end > 0
             /\ NoTime \notin Int
             /\ \A c \in occupancy : c.flight = b.flight => c = b
  BY <1>1, OccupancyAssumption DEF BlocksKnown
<1>2. Row(a) \subseteq occupancy
  BY DEF Row
<1>3. ASSUME a.flight \in conflictFlightIds
      PROVE  \E b \in Row(a) \ {a} : Bar(a) \cap Bar(b) # {}
  <2>1. PICK d \in occupancy : d.flight = a.flight /\ \E c \in Row(d) \ {d} : Conflict(d, c)
    BY <1>3 DEF conflictFlightIds
  <2>2. d = a
    BY <1>1, <2>1
  <2>3. PICK c \in Row(a) \ {a} : Conflict(a, c)
    BY <2>1, <2>2
  <2>4. c \in occupancy
    BY <1>2
  <2>5. Bar(a) \cap Bar(c) # {}
    BY <1>1, <2>3, <2>4, ConflictOverlaps
  <2>6. QED
    BY <2>5
<1>4. ASSUME NEW b \in Row(a) \ {a}, Bar(a) \cap Bar(b) # {}, AsDrawn(a), AsDrawn(b)
      PROVE  a.flight \in conflictFlightIds
  <2>1. PICK p : p \in Bar(a) /\ p \in Bar(b)
    BY <1>4
  <2>2. b \in occupancy
    BY <1>2
  <2>3. /\ p \in Int /\ p >= a.start /\ p < ConflictEnd(a)
        /\ a.start \in Int /\ ConflictEnd(a) \in Int
    BY <1>1, <1>4, <2>1, BlockBar
  <2>4. /\ p >= b.start /\ p < ConflictEnd(b)
        /\ b.start \in Int /\ ConflictEnd(b) \in Int
    BY <1>1, <1>4, <2>1, <2>2, BlockBar
  <2>5. Conflict(a, b)
    BY <2>3, <2>4 DEF Conflict
  <2>6. QED
    BY <2>5 DEF conflictFlightIds
<1>5. QED
  BY <1>3, <1>4

----------------------------------------------------------------------------

LightsKept ==
  /\ DOMAIN services = Services /\ DOMAIN answers = Services
  /\ services = [i \in Services |-> services[i]]
  /\ answers = [i \in Services |-> answers[i]]
  /\ LightsAreAnswers

LEMMA PagesLights ==
  ASSUME LightsKept, PagesNext
  PROVE  LightsKept'
<1>1. CASE CrewArrives \/ AssignmentsArrive \/ EquipmentArrives
  BY <1>1 DEF CrewArrives, AssignmentsArrive, EquipmentArrives, LightsKept,
     LightsAreAnswers
<1>2. CASE OpenSettings
  BY <1>2 DEF OpenSettings, Unchecked, LightsKept, LightsAreAnswers
<1>3. CASE \E i \in Services, light \in {"healthy", "down"} : HealthAnswered(i, light)
  <2>1. PICK i \in Services, light \in {"healthy", "down"} : HealthAnswered(i, light)
    BY <1>3
  <2>2. /\ services' = [services EXCEPT ![i] = light]
        /\ answers' = [answers EXCEPT ![i] = light]
    BY <2>1 DEF HealthAnswered, setServices
  <2>3. \A k \in Services : /\ services'[k] = IF k = i THEN light ELSE services[k]
                            /\ answers'[k] = IF k = i THEN light ELSE answers[k]
    BY <2>2 DEF LightsKept
  <2>4. LightsAreAnswers'
    BY <2>1, <2>3 DEF LightsKept, LightsAreAnswers
  <2>5. QED
    BY <2>2, <2>4 DEF LightsKept
<1>4. QED
  BY <1>1, <1>2, <1>3 DEF PagesNext

----------------------------------------------------------------------------

AnswersTyped ==
  /\ crew = Missing \/ crew \in [CrewIds -> BOOLEAN]
  /\ equipment = Missing \/ equipment \in [UnitIds -> Unit]

LEMMA PagesTyped ==
  ASSUME AnswersTyped, PagesNext
  PROVE  AnswersTyped'
BY DEF PagesNext, AnswersTyped, CrewArrives, AssignmentsArrive, EquipmentArrives,
       OpenSettings, HealthAnswered

LEMMA FiltersAgree == AnswersTyped => CrewAgrees
<1> SUFFICES ASSUME crew \in [CrewIds -> BOOLEAN], NEW c \in CrewIds
             PROVE  /\ c \in filteredCrew("inactive") <=> Availability(c) = "Off duty"
                    /\ c \in filteredCrew("assigned") <=> Availability(c) = "Assigned"
                    /\ c \in filteredCrew("available") <=> Availability(c) = "Available"
  BY DEF AnswersTyped, CrewAgrees
<1>1. /\ c \in filteredCrew("inactive") <=> ~crew[c]
      /\ c \in filteredCrew("assigned") <=> crew[c] /\ c \in assignedCrewIds
      /\ c \in filteredCrew("available") <=> crew[c] /\ c \notin assignedCrewIds
  BY DEF filteredCrew
<1>2. CASE ~crew[c]
  BY <1>1, <1>2 DEF Availability
<1>3. CASE crew[c] /\ c \in assignedCrewIds
  BY <1>1, <1>3 DEF Availability
<1>4. CASE crew[c] /\ c \notin assignedCrewIds
  BY <1>1, <1>4 DEF Availability
<1>5. QED
  BY <1>2, <1>3, <1>4

SumOf(v, f, T) == MapThenSumSet(LAMBDA t : v[t][f], T)

\* The fold of the community modules, which is defined by CHOOSE of a recursive
\* function, is the sum for two elements at most.
LEMMA SumOfTwo ==
  ASSUME NEW v, NEW f, NEW x, NEW y, x # y, NEW T \in SUBSET {x, y},
         \A t \in T : v[t][f] \in Nat
  PROVE  SumOf(v, f, T) = (IF x \in T THEN v[x][f] ELSE 0)
                            + (IF y \in T THEN v[y][f] ELSE 0)
<1> DEFINE C(s) == CHOOSE e \in s : TRUE
           Sums(g) == g = [s \in SUBSET T |->
                             IF s = {} THEN 0 ELSE v[C(s)][f] + g[s \ {C(s)}]]
           F == CHOOSE g : Sums(g)
           Sum(s) == (IF x \in s THEN v[x][f] ELSE 0) + (IF y \in s THEN v[y][f] ELSE 0)
           G == [s \in SUBSET T |-> Sum(s)]
<1>1. SumOf(v, f, T) = F[T]
  BY DEF SumOf, MapThenSumSet, MapThenFoldSet
<1>2. \A s \in SUBSET T : s # {} => C(s) \in s /\ C(s) \in {x, y}
  OBVIOUS
<1> HIDE DEF C
<1>3. Sums(G)
  <2>1. ASSUME NEW s \in SUBSET T, s # {}
        PROVE  Sum(s) = v[C(s)][f] + G[s \ {C(s)}]
    <3>1. s \ {C(s)} \in SUBSET T
      OBVIOUS
    <3>2. G[s \ {C(s)}] = Sum(s \ {C(s)})
      BY <3>1
    <3>3. CASE C(s) = x
      BY <1>2, <2>1, <3>2, <3>3
    <3>4. CASE C(s) = y
      BY <1>2, <2>1, <3>2, <3>4
    <3>5. QED
      BY <1>2, <2>1, <3>3, <3>4
  <2>2. Sum({}) = 0
    OBVIOUS
  <2>3. QED
    BY <2>1, <2>2
<1>4. Sums(F)
  <2>1. \E g : Sums(g)
    BY <1>3
  <2> HIDE DEF Sums
  <2>2. QED
    BY <2>1
<1> HIDE DEF F
<1>5. \A s \in SUBSET T : F[s] = IF s = {} THEN 0 ELSE v[C(s)][f] + F[s \ {C(s)}]
  BY <1>4
<1>6. F[{}] = 0
  BY <1>5
<1>7. ASSUME NEW e \in T
      PROVE  F[{e}] = v[e][f]
  <2>1. C({e}) = e /\ {e} \ {e} = {} /\ {e} # {}
    BY <1>2
  <2>2. F[{e}] = v[e][f] + F[{}]
    BY <1>5, <2>1
  <2>3. QED
    BY <1>6, <2>2
<1>8. CASE T = {}
  BY <1>1, <1>6, <1>8
<1>9. CASE T = {x} \/ T = {y}
  BY <1>1, <1>7, <1>9
<1>10. CASE T = {x, y}
  <2>1. F[T] = v[C(T)][f] + F[T \ {C(T)}]
    BY <1>5, <1>10
  <2>2. CASE C(T) = x
    <3>1. T \ {C(T)} = {y}
      BY <1>10, <2>2
    <3>2. QED
      BY <1>1, <1>7, <1>10, <2>1, <2>2, <3>1
  <2>3. CASE C(T) = y
    <3>1. T \ {C(T)} = {x}
      BY <1>10, <2>3
    <3>2. F[T] = v[y][f] + v[x][f]
      BY <1>7, <1>10, <2>1, <2>3, <3>1
    <3>3. v[x][f] \in Nat /\ v[y][f] \in Nat
      BY <1>10
    <3>4. F[T] = v[x][f] + v[y][f]
      BY <3>2, <3>3
    <3>5. QED
      BY <1>1, <1>10, <3>4
  <2>4. QED
    BY <1>2, <1>10, <2>2, <2>3
<1>11. QED
  BY <1>8, <1>9, <1>10

OfType(S, t) == {u \in S : equipment[u].equipment_type = t}

\* The units of a set are those of the one type and those of the other.
LEMMA TypesSplit ==
  ASSUME equipment \in [UnitIds -> Unit], NEW S \in SUBSET UnitIds
  PROVE  /\ IsFiniteSet(S) /\ Cardinality(S) \in Nat
         /\ \A t \in EquipmentType : IsFiniteSet(OfType(S, t))
                                     /\ Cardinality(OfType(S, t)) \in Nat
         /\ Cardinality(S) = Cardinality(OfType(S, "gpu"))
                               + Cardinality(OfType(S, "fuel_truck"))
<1>1. IsFiniteSet(S)
  BY PagesAssumption, FS_Subset
<1>2. \A t \in EquipmentType : IsFiniteSet(OfType(S, t))
                               /\ Cardinality(OfType(S, t)) \in Nat
  BY <1>1, FS_Subset, FS_CardinalityType DEF OfType
<1>3. /\ OfType(S, "gpu") \cup OfType(S, "fuel_truck") = S
      /\ OfType(S, "gpu") \cap OfType(S, "fuel_truck") = {}
  <2>1. \A u \in S : equipment[u].equipment_type \in {"gpu", "fuel_truck"}
    BY DEF Unit, EquipmentType
  <2>2. QED
    BY <2>1 DEF OfType
<1>4. Cardinality(S) = Cardinality(OfType(S, "gpu")) + Cardinality(OfType(S, "fuel_truck"))
  <2>1. IsFiniteSet(OfType(S, "gpu")) /\ IsFiniteSet(OfType(S, "fuel_truck"))
    BY <1>2 DEF EquipmentType
  <2>2. Cardinality(OfType(S, "gpu") \cup OfType(S, "fuel_truck")) =
          Cardinality(OfType(S, "gpu")) + Cardinality(OfType(S, "fuel_truck"))
          - Cardinality({})
    BY <1>3, <2>1, FS_Union
  <2>3. QED
    BY <1>2, <1>3, <2>2, FS_EmptySet DEF EquipmentType
<1>5. QED
  BY <1>1, <1>2, <1>4, FS_CardinalityType

\* The units that a field of counts and of typeGroups is about.
Counting(f) == IF f = "total" THEN UnitIds
               ELSE {u \in UnitIds : equipment[u].status = f}

LEMMA GroupsAddUp ==
  ASSUME equipment \in [UnitIds -> Unit], NEW f \in {"total", "available", "in_use"}
  PROVE  counts[f] = SumOf(typeGroups, f, DOMAIN typeGroups)
<1> DEFINE T == {equipment[u].equipment_type : u \in UnitIds}
<1>1. counts[f] = Cardinality(Counting(f)) /\ Counting(f) \in SUBSET UnitIds
  <2>1. /\ counts["total"] = Cardinality(UnitIds)
        /\ counts["available"] = Cardinality({u \in UnitIds : equipment[u].status = "available"})
        /\ counts["in_use"] = Cardinality({u \in UnitIds : equipment[u].status = "in_use"})
    BY DEF counts
  <2>2. /\ Counting("total") = UnitIds
        /\ Counting("available") = {u \in UnitIds : equipment[u].status = "available"}
        /\ Counting("in_use") = {u \in UnitIds : equipment[u].status = "in_use"}
    BY DEF Counting
  <2>3. counts[f] = Cardinality(Counting(f))
    BY <2>1, <2>2
  <2>4. Counting(f) \in SUBSET UnitIds
    BY DEF Counting
  <2>5. QED
    BY <2>3, <2>4
<1>2. DOMAIN typeGroups = T /\ T \in SUBSET {"gpu", "fuel_truck"}
  BY DEF typeGroups, Unit, EquipmentType
<1>3. ASSUME NEW t \in T
      PROVE  typeGroups[t][f] = Cardinality(OfType(Counting(f), t))
  <2>1. /\ OfType(Counting("total"), t) = {u \in UnitIds : equipment[u].equipment_type = t}
        /\ OfType(Counting("available"), t)
             = {u \in {w \in UnitIds : equipment[w].equipment_type = t} :
                  equipment[u].status = "available"}
        /\ OfType(Counting("in_use"), t)
             = {u \in {w \in UnitIds : equipment[w].equipment_type = t} :
                  equipment[u].status = "in_use"}
    BY DEF OfType, Counting
  <2>2. /\ typeGroups[t]["total"]
             = Cardinality({u \in UnitIds : equipment[u].equipment_type = t})
        /\ typeGroups[t]["available"]
             = Cardinality({u \in {w \in UnitIds : equipment[w].equipment_type = t} :
                              equipment[u].status = "available"})
        /\ typeGroups[t]["in_use"]
             = Cardinality({u \in {w \in UnitIds : equipment[w].equipment_type = t} :
                              equipment[u].status = "in_use"})
    BY DEF typeGroups
  <2>3. /\ typeGroups[t]["total"] = Cardinality(OfType(Counting("total"), t))
        /\ typeGroups[t]["available"] = Cardinality(OfType(Counting("available"), t))
        /\ typeGroups[t]["in_use"] = Cardinality(OfType(Counting("in_use"), t))
    BY <2>1, <2>2
  <2>4. QED
    BY <2>3
<1>4. ASSUME NEW t \in EquipmentType, t \notin T
      PROVE  Cardinality(OfType(Counting(f), t)) = 0
  <2>1. OfType(Counting(f), t) = {}
    BY <1>1, <1>4 DEF OfType
  <2>2. QED
    BY <2>1, FS_EmptySet
<1>5. /\ \A t \in EquipmentType : Cardinality(OfType(Counting(f), t)) \in Nat
      /\ Cardinality(Counting(f)) = Cardinality(OfType(Counting(f), "gpu"))
                                      + Cardinality(OfType(Counting(f), "fuel_truck"))
  BY <1>1, TypesSplit
<1>6. \A t \in T : typeGroups[t][f] \in Nat
  BY <1>2, <1>3, <1>5 DEF EquipmentType
<1> HIDE DEF T
<1>7. SumOf(typeGroups, f, T) = (IF "gpu" \in T THEN typeGroups["gpu"][f] ELSE 0)
        + (IF "fuel_truck" \in T THEN typeGroups["fuel_truck"][f] ELSE 0)
  <2>1. PICK v, k, x, y, U :
          v = typeGroups /\ k = f /\ x = "gpu" /\ y = "fuel_truck" /\ U = T
    OBVIOUS
  <2>2. x # y /\ U \in SUBSET {x, y} /\ (\A t \in U : v[t][k] \in Nat)
    BY <1>2, <1>6, <2>1
  <2>3. SumOf(v, k, U) = (IF x \in U THEN v[x][k] ELSE 0)
                           + (IF y \in U THEN v[y][k] ELSE 0)
    BY <2>2, SumOfTwo
  <2>4. QED
    BY <2>1, <2>3
<1>8. /\ (IF "gpu" \in T THEN typeGroups["gpu"][f] ELSE 0)
           = Cardinality(OfType(Counting(f), "gpu"))
      /\ (IF "fuel_truck" \in T THEN typeGroups["fuel_truck"][f] ELSE 0)
           = Cardinality(OfType(Counting(f), "fuel_truck"))
  BY <1>3, <1>4 DEF EquipmentType
<1>9. QED
  BY <1>1, <1>2, <1>5, <1>7, <1>8

LEMMA CardsAgree == AnswersTyped => EquipmentAgrees
<1> SUFFICES ASSUME equipment \in [UnitIds -> Unit]
             PROVE  EquipmentAgrees
  BY DEF AnswersTyped, EquipmentAgrees
<1>1. ASSUME NEW u \in UnitIds
      PROVE  Cardinality({f \in StatusFilter \ {"all"} : u \in filtered(f)}) = 1
  <2>1. equipment[u].status \in StatusFilter \ {"all"}
    BY DEF Unit, EquipmentStatus, StatusFilter
  <2>2. {f \in StatusFilter \ {"all"} : u \in filtered(f)} = {equipment[u].status}
    BY <2>1 DEF filtered
  <2>3. QED
    BY <2>2, FS_Singleton
<1>2. counts.total = Cardinality(filtered("all"))
  <2>1. filtered("all") = UnitIds
    BY DEF filtered
  <2>2. QED
    BY <2>1 DEF counts
<1>3. \A f \in {"available", "in_use", "maintenance"} :
        counts[f] = Cardinality(filtered(f))
  <2>1. \A f \in {"available", "in_use", "maintenance"} :
          filtered(f) = {u \in UnitIds : equipment[u].status = f}
    BY DEF filtered
  <2>2. /\ counts["available"] = Cardinality({u \in UnitIds : equipment[u].status = "available"})
        /\ counts["in_use"] = Cardinality({u \in UnitIds : equipment[u].status = "in_use"})
        /\ counts["maintenance"]
             = Cardinality({u \in UnitIds : equipment[u].status = "maintenance"})
    BY DEF counts
  <2>3. QED
    BY <2>1, <2>2
<1>4. \A f \in {"total", "available", "in_use"} :
        counts[f] = MapThenSumSet(LAMBDA t : typeGroups[t][f], DOMAIN typeGroups)
  BY GroupsAddUp DEF SumOf
<1>5. QED
  BY <1>1, <1>2, <1>3, <1>4 DEF EquipmentAgrees

----------------------------------------------------------------------------

\* A run of a job is a record, and alerts are counted by cause.
AlertsTyped ==
  /\ jobs = [j \in Jobs |-> jobs[j]]
  /\ \A j \in Jobs : jobs[j] = [pc |-> jobs[j].pc, todo |-> jobs[j].todo]
  /\ alerts \in [Causes -> [open : Nat, closed : Nat]]
  /\ handled \subseteq Causes

\* A run that is about to insert does so for a cause without an open alert, and is the
\* only one, unless the count is in doubt.
Inserting ==
  /\ \A j \in Jobs, c \in Causes :
       At(j, "insert", c) /\ alerts[c].open > 0 => c \in doubted
  /\ \A j, k \in Jobs, c \in Causes :
       At(j, "insert", c) /\ At(k, "insert", c) /\ j # k => c \in doubted

Hiding(c, what) == [c EXCEPT !.what = what]

Explained(c) ==
  \/ Raised(c)
  \/ c \in unraised
  \/ /\ c.what = "boarding"
     /\ Hiding(c, "deboarding") \in Causes /\ Raised(Hiding(c, "deboarding"))
  \/ /\ c.kind # "turnaround_delayed"
     /\ Hiding(c, AnyText) \in Causes /\ Raised(Hiding(c, AnyText))

AlertsInv ==
  /\ AlertsTyped
  /\ OneOpenAlertPerCause
  /\ Inserting
  /\ \A c \in handled : Explained(c)

LEMMA InitAlerts == SchedulerInit => AlertsInv
<1> SUFFICES ASSUME SchedulerInit PROVE AlertsInv
  OBVIOUS
<1>1. AlertsTyped
  BY DEF SchedulerInit, AlertsTyped
<1>2. \A c \in Causes : alerts[c].open = 0
  BY DEF SchedulerInit
<1>3. \A j \in Jobs, c \in Causes : ~At(j, "insert", c)
  BY DEF SchedulerInit, At
<1>4. QED
  BY <1>1, <1>2, <1>3 DEF AlertsInv, OneOpenAlertPerCause, Inserting, SchedulerInit

\* What has been explained stays so: an alert may be closed, but not taken back.
LEMMA ExplainedKept ==
  ASSUME AlertsInv, AlertsTyped', unraised \subseteq unraised',
         \A c \in Causes : Raised(c) => Raised(c)',
         \A c \in handled' : c \in handled \/ Explained(c)'
  PROVE  \A c \in handled' : Explained(c)'
<1> SUFFICES ASSUME NEW c \in handled', c \in handled
             PROVE  Explained(c)'
  OBVIOUS
<1>1. Explained(c) /\ c \in Causes
  BY DEF AlertsInv, AlertsTyped
<1>2. QED
  BY <1>1 DEF Explained

\* A step that opens no alert, after which no run is about to insert that was not.
LEMMA NothingOpened ==
  ASSUME AlertsInv, AlertsTyped', doubted \subseteq doubted',
         \A c \in Causes : alerts'[c].open <= alerts[c].open,
         \A j \in Jobs, c \in Causes : At(j, "insert", c)' => At(j, "insert", c)
  PROVE  OneOpenAlertPerCause' /\ Inserting'
<1>1. \A c \in Causes : alerts[c].open \in Nat /\ alerts'[c].open \in Nat
  BY DEF AlertsInv, AlertsTyped
<1>2. OneOpenAlertPerCause'
  BY <1>1 DEF AlertsInv, OneOpenAlertPerCause
<1>3. Inserting'
  BY <1>1 DEF AlertsInv, Inserting
<1>4. QED
  BY <1>2, <1>3

\* Run j of a job moves to H.
LEMMA JobMoves ==
  ASSUME AlertsTyped, NEW j \in Jobs, NEW p, NEW q,
         jobs' = [jobs EXCEPT ![j] = [pc |-> p, todo |-> q]]
  PROVE  /\ jobs' = [k \in Jobs |-> jobs'[k]]
         /\ \A k \in Jobs : jobs'[k] = [pc |-> jobs'[k].pc, todo |-> jobs'[k].todo]
         /\ jobs'[j].pc = p /\ jobs'[j].todo = q
         /\ \A k \in Jobs \ {j} : jobs'[k] = jobs[k]
<1>1. DOMAIN jobs = Jobs
  BY DEF AlertsTyped
<1>2. \A k \in Jobs : jobs'[k] = IF k = j THEN [pc |-> p, todo |-> q] ELSE jobs[k]
  BY <1>1
<1>3. jobs' = [k \in Jobs |-> jobs'[k]]
  BY <1>1
<1>4. QED
  BY <1>2, <1>3 DEF AlertsTyped

\* Run j of a job keeps its causes and moves to another place.
LEMMA JobGoes ==
  ASSUME AlertsTyped, NEW j \in Jobs, NEW p, jobs' = [jobs EXCEPT ![j].pc = p]
  PROVE  jobs' = [jobs EXCEPT ![j] = [pc |-> p, todo |-> jobs[j].todo]]
<1>1. jobs[j] = [pc |-> jobs[j].pc, todo |-> jobs[j].todo]
  BY DEF AlertsTyped
<1>2. [jobs[j] EXCEPT !.pc = p] = [pc |-> p, todo |-> jobs[j].todo]
  BY <1>1
<1>3. QED
  BY <1>2

\* Run j of a job is not about to insert.
LEMMA JobElsewhere ==
  ASSUME AlertsInv, NEW j \in Jobs, NEW p, NEW q, p # "insert",
         jobs' = [jobs EXCEPT ![j] = [pc |-> p, todo |-> q]]
  PROVE  /\ jobs' = [k \in Jobs |-> jobs'[k]]
         /\ \A k \in Jobs : jobs'[k] = [pc |-> jobs'[k].pc, todo |-> jobs'[k].todo]
         /\ \A k \in Jobs, c \in Causes : At(k, "insert", c)' => At(k, "insert", c) /\ k # j
BY JobMoves DEF AlertsInv, At

LEMMA WithIsElsewhere ==
  ASSUME NEW q
  PROVE  \E p : p # "insert" /\ With(q) = [pc |-> p, todo |-> q]
<1> DEFINE p == IF q = <<>> THEN "idle"
                ELSE IF Head(q).kind = "crew_shortage" THEN "query" ELSE "count"
<1>1. p # "insert" /\ With(q) = [pc |-> p, todo |-> q]
  BY DEF With
<1>2. QED
  BY <1>1

\* A step of a run by which no alert is opened or closed and no cause is counted.
LEMMA JobStep ==
  ASSUME AlertsInv, NEW j \in Jobs, NEW p, NEW q, p # "insert",
         jobs' = [jobs EXCEPT ![j] = [pc |-> p, todo |-> q]],
         alerts' = alerts, doubted \subseteq doubted', unraised \subseteq unraised',
         handled' \subseteq Causes,
         \A c \in handled' : c \in handled \/ Explained(c)'
  PROVE  AlertsInv'
<1>1. /\ AlertsTyped'
      /\ \A k \in Jobs, c \in Causes : At(k, "insert", c)' => At(k, "insert", c)
  BY JobElsewhere DEF AlertsInv, AlertsTyped
<1>2. \A c \in Causes : Raised(c) => Raised(c)'
  BY DEF Raised
<1>3. \A c \in Causes : alerts'[c].open <= alerts[c].open
  BY DEF AlertsInv, AlertsTyped
<1>4. QED
  BY <1>1, <1>2, <1>3, ExplainedKept, NothingOpened DEF AlertsInv

LEMMA StartJobAlerts ==
  ASSUME AlertsInv, NEW j \in Jobs, NEW q, StartJob(j, q)
  PROVE  AlertsInv'
<1>1. PICK p : p # "insert" /\ With(q) = [pc |-> p, todo |-> q]
  BY WithIsElsewhere
<1>2. /\ jobs' = [jobs EXCEPT ![j] = [pc |-> p, todo |-> q]]
      /\ alerts' = alerts /\ doubted' = doubted /\ unraised' = unraised
      /\ handled' = handled
  BY <1>1 DEF StartJob
<1>3. QED
  BY <1>1, <1>2, JobStep DEF AlertsInv, AlertsTyped

\* The run goes on with the next cause.
LEMMA AdvanceAlerts ==
  ASSUME AlertsInv, NEW j \in Jobs, jobs' = Advance(j),
         alerts' = alerts, doubted \subseteq doubted', unraised \subseteq unraised',
         handled' \subseteq Causes,
         \A c \in handled' : c \in handled \/ Explained(c)'
  PROVE  AlertsInv'
<1>1. PICK q : q = Tail(jobs[j].todo)
  OBVIOUS
<1>2. PICK p : p # "insert" /\ With(q) = [pc |-> p, todo |-> q]
  BY WithIsElsewhere
<1>3. jobs' = [jobs EXCEPT ![j] = [pc |-> p, todo |-> q]]
  BY <1>1, <1>2 DEF Advance
<1>4. QED
  BY <1>2, <1>3, JobStep

LEMMA QueryAlerts ==
  ASSUME AlertsInv, NEW j \in Jobs, NEW c \in Causes,
         CrewAvailable(j, c) \/ NoCrewAvailable(j, c) \/ CrewUnknown(j, c)
  PROVE  AlertsInv'
<1>1. /\ alerts' = alerts /\ doubted' = doubted /\ unraised' = unraised
      /\ handled' = handled /\ handled \subseteq Causes
  BY DEF CrewAvailable, NoCrewAvailable, CrewUnknown, AlertsInv, AlertsTyped
<1>2. CASE CrewAvailable(j, c)
  BY <1>1, <1>2, AdvanceAlerts DEF CrewAvailable
<1>3. CASE NoCrewAvailable(j, c) \/ CrewUnknown(j, c)
  <2>1. PICK p : p = "count"
    OBVIOUS
  <2>2. PICK q : q = jobs[j].todo
    OBVIOUS
  <2>3. jobs' = [jobs EXCEPT ![j].pc = p]
    BY <1>3, <2>1 DEF NoCrewAvailable, CrewUnknown
  <2>4. jobs' = [jobs EXCEPT ![j] = [pc |-> p, todo |-> q]]
    BY <2>2, <2>3, JobGoes DEF AlertsInv
  <2>5. p # "insert"
    BY <2>1
  <2>6. QED
    BY <1>1, <2>4, <2>5, JobStep
<1>4. QED
  BY <1>2, <1>3

\* The open alert by which a count finds that cause c exists is one of c itself, one of a
\* deboarding task, if c is of boarding, or one of an operator.
LEMMA ExistsExplains ==
  ASSUME AlertsTyped, NEW c \in Causes, Exists(c)
  PROVE  Explained(c)
<1>1. PICK d \in Causes : Alike(c, d) /\ alerts[d].open > 0
  BY DEF Exists
<1>2. Raised(d)
  BY <1>1 DEF AlertsTyped, Raised
<1>3. /\ c = Cause(c.kind, c.of, c.what) /\ d = Cause(d.kind, d.of, d.what)
      /\ c.kind = "turnaround_delayed" => c.what = None
      /\ d.kind = "turnaround_delayed" => d.what = None
      /\ c.kind # "turnaround_delayed" => c.what # None
  <2>1. None \notin TaskNames /\ None \notin ToSet(Certs) /\ None # AnyText
    BY SchedulerAssumption DEF TaskNames
  <2>2. ASSUME NEW e \in Causes
        PROVE  /\ e = Cause(e.kind, e.of, e.what)
               /\ e.kind = "turnaround_delayed" => e.what = None
               /\ e.kind # "turnaround_delayed" => e.what # None
    BY <2>1 DEF Causes, Cause
  <2>3. QED
    BY <2>2
<1>4. d.kind = c.kind /\ d.of = c.of /\ (c.what # None => Names(d, c.what))
  BY <1>1 DEF Alike
<1>5. ASSUME NEW w, d.what = w PROVE d = Hiding(c, w)
  <2>1. Hiding(c, w) = Cause(c.kind, c.of, w)
    BY <1>3 DEF Hiding, Cause
  <2>2. QED
    BY <1>3, <1>4, <1>5, <2>1
<1>6. CASE d.what = c.what
  <2>1. d = c
    BY <1>3, <1>4, <1>6
  <2>2. QED
    BY <1>2, <2>1 DEF Explained
<1>7. CASE c.kind # "turnaround_delayed" /\ d.what = AnyText
  BY <1>2, <1>5, <1>7 DEF Explained
<1>8. CASE d.what = "deboarding" /\ c.what = "boarding"
  BY <1>2, <1>5, <1>8 DEF Explained
<1>9. QED
  BY <1>3, <1>4, <1>6, <1>7, <1>8 DEF Names

\* A count after which an alert is to be inserted: no other run is, or c is in doubt.
LEMMA ToInsert ==
  ASSUME AlertsInv, NEW j \in Jobs, NEW c \in Causes,
         At(j, "count", c), jobs' = [jobs EXCEPT ![j].pc = "insert"],
         alerts' = alerts, unraised' = unraised, handled' = handled,
         doubted \subseteq doubted',
         \/ c \in doubted'
         \/ alerts[c].open = 0 /\ \A k \in Jobs \ {j} : ~At(k, "insert", c)
  PROVE  AlertsInv'
<1>1. DOMAIN jobs = Jobs /\ jobs[j] = [pc |-> jobs[j].pc, todo |-> jobs[j].todo]
  BY DEF AlertsInv, AlertsTyped
<1>2. \A k \in Jobs :
        jobs'[k] = IF k = j THEN [pc |-> "insert", todo |-> jobs[j].todo] ELSE jobs[k]
  BY <1>1
<1>3. /\ jobs' = [k \in Jobs |-> jobs'[k]]
      /\ \A k \in Jobs : jobs'[k] = [pc |-> jobs'[k].pc, todo |-> jobs'[k].todo]
      /\ jobs'[j].pc = "insert" /\ jobs'[j].todo = jobs[j].todo
      /\ \A k \in Jobs \ {j} : jobs'[k] = jobs[k]
  <2>1. jobs' = [k \in Jobs |-> jobs'[k]]
    BY <1>1
  <2>2. QED
    BY <1>2, <2>1 DEF AlertsInv, AlertsTyped
<1>4. AlertsTyped'
  BY <1>3 DEF AlertsInv, AlertsTyped
<1>5. \A k \in Jobs, d \in Causes :
        At(k, "insert", d)' => (k # j /\ At(k, "insert", d)) \/ (k = j /\ d = c)
  BY <1>1, <1>3 DEF At
<1>6. Inserting'
  BY <1>5 DEF AlertsInv, AlertsTyped, Inserting
<1>7. OneOpenAlertPerCause'
  BY DEF AlertsInv, OneOpenAlertPerCause
<1>8. \A d \in Causes : Raised(d) => Raised(d)'
  BY DEF Raised
<1>9. \A d \in handled' : Explained(d)'
  BY <1>4, <1>8, ExplainedKept
<1>10. QED
  BY <1>4, <1>6, <1>7, <1>9 DEF AlertsInv

LEMMA CountAlerts ==
  ASSUME AlertsInv, NEW j \in Jobs, NEW c \in Causes, Count(j, c)
  PROVE  AlertsInv'
<1>1. /\ At(j, "count", c) /\ alerts' = alerts /\ unraised' = unraised
      /\ doubted' = IF Overtaken(j, c) THEN doubted \cup {c} ELSE doubted
      /\ jobs' = (IF Exists(c) THEN Advance(j) ELSE [jobs EXCEPT ![j].pc = "insert"])
      /\ handled' = IF Exists(c) THEN handled \cup {c} ELSE handled
  BY DEF Count, Counted
<1>2. doubted \subseteq doubted'
  BY <1>1
<1>3. CASE Exists(c)
  <2>1. Explained(c)
    BY <1>3, ExistsExplains DEF AlertsInv
  <2>2. Explained(c)'
    BY <1>1, <2>1 DEF Explained, Raised
  <2>3. handled' \subseteq Causes
    BY <1>1, <1>3 DEF AlertsInv, AlertsTyped
  <2>4. \A d \in handled' : d \in handled \/ Explained(d)'
    BY <1>1, <1>3, <2>2
  <2>5. QED
    BY <1>1, <1>2, <1>3, <2>3, <2>4, AdvanceAlerts
<1>4. CASE ~Exists(c)
  <2>1. alerts[c].open = 0
    <3>1. Alike(c, c)
      BY DEF Alike, Names
    <3>2. ~(alerts[c].open > 0)
      BY <1>4, <3>1 DEF Exists
    <3>3. QED
      BY <3>2 DEF AlertsInv, AlertsTyped
  <2>2. c \in doubted' \/ \A k \in Jobs \ {j} : ~At(k, "insert", c)
    BY <1>1 DEF Overtaken, At
  <2>3. QED
    BY <1>1, <1>2, <1>4, <2>1, <2>2, ToInsert
<1>5. QED
  BY <1>3, <1>4

LEMMA CountFailsAlerts ==
  ASSUME AlertsInv, NEW j \in Jobs, NEW c \in Causes, CountFails(j, c)
  PROVE  AlertsInv'
<1>1. /\ At(j, "count", c) /\ alerts' = alerts /\ unraised' = unraised
      /\ doubted' = doubted \cup {c} /\ handled' = handled
      /\ jobs' = [jobs EXCEPT ![j].pc = "insert"]
  BY DEF CountFails, Counted
<1>2. QED
  BY <1>1, ToInsert

LEMMA InsertFailsAlerts ==
  ASSUME AlertsInv, NEW j \in Jobs, NEW c \in Causes, InsertFails(j, c)
  PROVE  AlertsInv'
<1>1. /\ jobs' = Advance(j) /\ alerts' = alerts /\ doubted' = doubted
      /\ unraised' = unraised \cup {c} /\ handled' = handled \cup {c}
  BY DEF InsertFails
<1>2. Explained(c)'
  BY <1>1 DEF Explained
<1>3. handled' \subseteq Causes
  BY <1>1 DEF AlertsInv, AlertsTyped
<1>4. QED
  BY <1>1, <1>2, <1>3, AdvanceAlerts

\* One more alert of cause c, by a run or by an operator.
LEMMA OneMore ==
  ASSUME AlertsInv, NEW c \in Causes, alerts' = [alerts EXCEPT ![c].open = @ + 1]
  PROVE  /\ alerts' \in [Causes -> [open : Nat, closed : Nat]]
         /\ \A d \in Causes \ {c} : alerts'[d] = alerts[d]
         /\ alerts'[c].open = alerts[c].open + 1 /\ Raised(c)'
         /\ \A d \in Causes : Raised(d) => Raised(d)'
<1>1. PICK a : a = alerts[c]
  OBVIOUS
<1>2. a \in [open : Nat, closed : Nat] /\ alerts \in [Causes -> [open : Nat, closed : Nat]]
  BY <1>1 DEF AlertsInv, AlertsTyped
<1>3. alerts' = [alerts EXCEPT ![c] = [open |-> a.open + 1, closed |-> a.closed]]
  <2>1. [a EXCEPT !.open = a.open + 1] = [open |-> a.open + 1, closed |-> a.closed]
    BY <1>2
  <2>2. QED
    BY <1>1, <2>1
<1>4. /\ alerts' \in [Causes -> [open : Nat, closed : Nat]]
      /\ \A d \in Causes \ {c} : alerts'[d] = alerts[d]
      /\ alerts'[c].open = a.open + 1 /\ alerts'[c].closed = a.closed
  BY <1>2, <1>3
<1>5. Raised(c)'
  BY <1>2, <1>4 DEF Raised
<1>6. QED
  BY <1>1, <1>4, <1>5 DEF Raised

LEMMA InsertAlerts ==
  ASSUME AlertsInv, NEW j \in Jobs, NEW c \in Causes, Insert(j, c)
  PROVE  AlertsInv'
<1>1. /\ At(j, "insert", c) /\ alerts' = [alerts EXCEPT ![c].open = @ + 1]
      /\ jobs' = Advance(j) /\ handled' = handled \cup {c}
      /\ doubted' = doubted /\ unraised' = unraised
  BY DEF Insert
<1>2. PICK q : q = Tail(jobs[j].todo)
  OBVIOUS
<1>3. PICK p : p # "insert" /\ With(q) = [pc |-> p, todo |-> q]
  BY WithIsElsewhere
<1>4. jobs' = [jobs EXCEPT ![j] = [pc |-> p, todo |-> q]]
  BY <1>1, <1>2, <1>3 DEF Advance
<1>5. /\ jobs' = [k \in Jobs |-> jobs'[k]]
      /\ \A k \in Jobs : jobs'[k] = [pc |-> jobs'[k].pc, todo |-> jobs'[k].todo]
      /\ \A k \in Jobs, d \in Causes : At(k, "insert", d)' => At(k, "insert", d) /\ k # j
  BY <1>3, <1>4, JobElsewhere
<1>6. /\ alerts' \in [Causes -> [open : Nat, closed : Nat]]
      /\ \A d \in Causes \ {c} : alerts'[d] = alerts[d]
      /\ alerts'[c].open = alerts[c].open + 1 /\ Raised(c)'
      /\ \A d \in Causes : Raised(d) => Raised(d)'
  BY <1>1, OneMore
<1>7. AlertsTyped'
  BY <1>1, <1>5, <1>6 DEF AlertsInv, AlertsTyped
<1>8. alerts[c].open > 0 => c \in doubted
  BY <1>1 DEF AlertsInv, Inserting
<1>9. alerts[c].open \in Nat
  BY DEF AlertsInv, AlertsTyped
<1>10. OneOpenAlertPerCause'
  <2>1. SUFFICES ASSUME NEW d \in Causes, alerts'[d].open > 1
                 PROVE  d \in doubted
    BY <1>1 DEF OneOpenAlertPerCause
  <2>2. CASE d = c
    BY <1>6, <1>8, <1>9, <2>1, <2>2
  <2>3. CASE d # c
    BY <1>6, <2>1, <2>3 DEF AlertsInv, OneOpenAlertPerCause
  <2>4. QED
    BY <2>2, <2>3
<1>11. Inserting'
  <2>1. ASSUME NEW k \in Jobs, NEW d \in Causes, At(k, "insert", d)', alerts'[d].open > 0
        PROVE  d \in doubted
    <3>1. At(k, "insert", d) /\ k # j
      BY <1>5, <2>1
    <3>2. CASE d = c
      BY <1>1, <3>1, <3>2 DEF AlertsInv, Inserting
    <3>3. CASE d # c
      BY <1>6, <2>1, <3>1, <3>3 DEF AlertsInv, Inserting
    <3>4. QED
      BY <3>2, <3>3
  <2>2. ASSUME NEW k \in Jobs, NEW l \in Jobs, NEW d \in Causes,
               At(k, "insert", d)', At(l, "insert", d)', k # l
        PROVE  d \in doubted
    BY <1>5, <2>2 DEF AlertsInv, Inserting
  <2>3. QED
    BY <1>1, <2>1, <2>2 DEF Inserting
<1>12. \A d \in handled' : d \in handled \/ Explained(d)'
  BY <1>1, <1>6 DEF Explained
<1>13. \A d \in handled' : Explained(d)'
  BY <1>1, <1>6, <1>7, <1>12, ExplainedKept
<1>14. QED
  BY <1>7, <1>10, <1>11, <1>13 DEF AlertsInv

\* What an operator does to the alerts of one cause, with its count in doubt if alerts
\* are opened.
LEMMA OperatorAlerts ==
  ASSUME AlertsInv, NEW c \in Causes, Close(c) \/ Reopen(c) \/ CreateAlert(c)
  PROVE  AlertsInv'
<1>1. /\ jobs' = jobs /\ unraised' = unraised /\ handled' = handled
      /\ doubted \subseteq doubted'
  BY DEF Close, Reopen, CreateAlert
<1>2. PICK a : a = alerts[c]
  OBVIOUS
<1>3. a \in [open : Nat, closed : Nat] /\ alerts \in [Causes -> [open : Nat, closed : Nat]]
  BY <1>2 DEF AlertsInv, AlertsTyped
<1>4. /\ alerts' \in [Causes -> [open : Nat, closed : Nat]]
      /\ \A d \in Causes \ {c} : alerts'[d] = alerts[d]
      /\ \A d \in Causes : Raised(d) => Raised(d)'
      /\ c \in doubted' \/ alerts'[c].open <= alerts[c].open
  <2>1. CASE CreateAlert(c)
    <3>1. alerts' = [alerts EXCEPT ![c].open = @ + 1] /\ c \in doubted'
      BY <2>1 DEF CreateAlert
    <3>2. QED
      BY <3>1, OneMore
  <2>2. CASE Close(c)
    <3>1. /\ a.open > 0
          /\ alerts' = [alerts EXCEPT ![c] = [open |-> a.open - 1, closed |-> a.closed + 1]]
      BY <1>2, <2>2 DEF Close
    <3>2. /\ alerts'[c] = [open |-> a.open - 1, closed |-> a.closed + 1]
          /\ [open |-> a.open - 1, closed |-> a.closed + 1] \in [open : Nat, closed : Nat]
          /\ \A d \in Causes \ {c} : alerts'[d] = alerts[d]
      BY <1>3, <3>1
    <3>3. alerts' \in [Causes -> [open : Nat, closed : Nat]]
      BY <1>3, <3>1, <3>2
    <3>4. alerts'[c].open <= alerts[c].open /\ Raised(c)'
      BY <1>2, <1>3, <3>2 DEF Raised
    <3>5. QED
      BY <3>2, <3>3, <3>4 DEF Raised
  <2>3. CASE Reopen(c)
    <3>1. /\ a.closed > 0 /\ c \in doubted'
          /\ alerts' = [alerts EXCEPT ![c] = [open |-> a.open + 1, closed |-> a.closed - 1]]
      BY <1>2, <2>3 DEF Reopen
    <3>2. /\ alerts'[c] = [open |-> a.open + 1, closed |-> a.closed - 1]
          /\ [open |-> a.open + 1, closed |-> a.closed - 1] \in [open : Nat, closed : Nat]
          /\ \A d \in Causes \ {c} : alerts'[d] = alerts[d]
      BY <1>3, <3>1
    <3>3. alerts' \in [Causes -> [open : Nat, closed : Nat]]
      BY <1>3, <3>1, <3>2
    <3>4. Raised(c)'
      BY <1>2, <1>3, <3>2 DEF Raised
    <3>5. QED
      BY <3>1, <3>2, <3>3, <3>4 DEF Raised
  <2>4. QED
    BY <2>1, <2>2, <2>3
<1>5. AlertsTyped'
  BY <1>1, <1>4 DEF AlertsInv, AlertsTyped
<1>6. \A d \in Causes : alerts'[d].open \in Nat /\ alerts[d].open \in Nat
  BY <1>3, <1>4
<1>7. \A d \in Causes : d \in doubted' \/ alerts'[d].open <= alerts[d].open
  BY <1>4, <1>6
<1>8. \A j \in Jobs, d \in Causes : At(j, "insert", d)' => At(j, "insert", d)
  BY <1>1 DEF At
<1>9. OneOpenAlertPerCause'
  BY <1>1, <1>6, <1>7 DEF AlertsInv, OneOpenAlertPerCause
<1>10. Inserting'
  BY <1>1, <1>6, <1>7, <1>8 DEF AlertsInv, Inserting
<1>11. \A d \in handled' : Explained(d)'
  BY <1>1, <1>4, <1>5, ExplainedKept
<1>12. QED
  BY <1>5, <1>9, <1>10, <1>11 DEF AlertsInv

LEMMA SchedulerAlerts ==
  ASSUME AlertsInv, SchedulerNext
  PROVE  AlertsInv'
<1>1. CASE \E j \in Jobs :
             CheckTurnaroundDelays(j) \/ CheckStuckTasks(j) \/ CheckCrewShortage(j)
  <2>1. PICK j \in Jobs :
               CheckTurnaroundDelays(j) \/ CheckStuckTasks(j) \/ CheckCrewShortage(j)
    BY <1>1
  <2>2. \E q : StartJob(j, q)
    BY <2>1 DEF CheckTurnaroundDelays, CheckStuckTasks, CheckCrewShortage
  <2>3. QED
    BY <2>2, StartJobAlerts
<1>2. CASE \E j \in Jobs, c \in Causes :
             \/ CrewAvailable(j, c)
             \/ NoCrewAvailable(j, c)
             \/ CrewUnknown(j, c)
             \/ Count(j, c)
             \/ CountFails(j, c)
             \/ Insert(j, c)
             \/ InsertFails(j, c)
  BY <1>2, QueryAlerts, CountAlerts, CountFailsAlerts, InsertAlerts, InsertFailsAlerts
<1>3. CASE \E c \in Causes : Close(c) \/ Reopen(c) \/ CreateAlert(c)
  BY <1>3, OperatorAlerts
<1>4. CASE (\E t \in Turnarounds, s \in Situations \cup {None} : TurnaroundChanges(t, s))
           \/ CrewChanges
  BY <1>4 DEF TurnaroundChanges, CrewChanges, AlertsInv, AlertsTyped,
     OneOpenAlertPerCause, Inserting, Explained, Raised, At
<1>5. CASE SchedulerRestarts
  <2>1. PICK q : q = <<>>
    OBVIOUS
  <2>2. PICK p : p # "insert" /\ With(q) = [pc |-> p, todo |-> q]
    BY WithIsElsewhere
  <2>3. jobs' = [j \in Jobs |-> [pc |-> p, todo |-> q]]
    BY <1>5, <2>1, <2>2 DEF SchedulerRestarts
  <2>4. /\ alerts' = alerts /\ doubted' = doubted /\ unraised' = unraised
        /\ handled' = handled
    BY <1>5 DEF SchedulerRestarts
  <2>5. AlertsTyped'
    BY <2>3, <2>4 DEF AlertsInv, AlertsTyped
  <2>6. \A j \in Jobs, c \in Causes : ~At(j, "insert", c)'
    BY <2>2, <2>3 DEF At
  <2>7. \A c \in Causes : Raised(c) => Raised(c)'
    BY <2>4 DEF Raised
  <2>8. \A c \in handled' : Explained(c)'
    BY <2>4, <2>5, <2>7, ExplainedKept
  <2>9. OneOpenAlertPerCause' /\ Inserting'
    BY <2>4, <2>6 DEF AlertsInv, OneOpenAlertPerCause, Inserting
  <2>10. QED
    BY <2>5, <2>8, <2>9 DEF AlertsInv
<1>6. QED
  BY <1>1, <1>2, <1>3, <1>4, <1>5 DEF SchedulerNext

LEMMA FoundIsAlerted == AlertsInv => FoundMeansAlerted
BY DEF AlertsInv, Explained, Hiding, FoundMeansAlerted

----------------------------------------------------------------------------

\* What the stand plan, the settings and the other pages show depends on the pages only,
\* and what the scheduler has done on the scheduler only.
ShownInv == BlocksKnown /\ LightsKept /\ AnswersTyped

LEMMA InitShown == Init => ShownInv
<1> SUFFICES ASSUME Init PROVE ShownInv
  OBVIOUS
<1>1. BlocksKnown
  BY DEF Init, PlanInit, BlocksKnown
<1>2. LightsKept
  BY DEF Init, PagesInit, Unchecked, LightsKept, LightsAreAnswers
<1>3. AnswersTyped
  BY DEF Init, PagesInit, AnswersTyped
<1>4. QED
  BY <1>1, <1>2, <1>3 DEF ShownInv

LEMMA NextShown == ShownInv /\ [Next]_vars => ShownInv'
<1> SUFFICES ASSUME ShownInv, [Next]_vars PROVE ShownInv'
  OBVIOUS
<1>1. ASSUME UNCHANGED plan PROVE BlocksKnown'
  BY <1>1 DEF plan, ShownInv, BlocksKnown
<1>2. ASSUME UNCHANGED pages PROVE LightsKept' /\ AnswersTyped'
  BY <1>2 DEF pages, ShownInv, LightsKept, LightsAreAnswers, AnswersTyped
<1>3. CASE UNCHANGED <<plan, pages>>
  BY <1>1, <1>2, <1>3 DEF ShownInv
<1>4. CASE OccupancyArrives /\ UNCHANGED <<ingestion, alerting, pages>>
  BY <1>2, <1>4 DEF OccupancyArrives, BlocksKnown, ShownInv
<1>5. CASE PagesNext /\ UNCHANGED <<ingestion, alerting, plan>>
  BY <1>1, <1>5, PagesLights, PagesTyped DEF ShownInv
<1>6. QED
  BY <1>3, <1>4, <1>5 DEF Next, vars

LEMMA NextAlerts == AlertsInv /\ [Next]_vars => AlertsInv'
<1> SUFFICES ASSUME AlertsInv, [Next]_vars PROVE AlertsInv'
  OBVIOUS
<1>1. CASE UNCHANGED alerting
  BY <1>1 DEF alerting, AlertsInv, AlertsTyped, OneOpenAlertPerCause, Inserting,
     Explained, Raised, At
<1>2. CASE SchedulerNext
  BY <1>2, SchedulerAlerts
<1>3. QED
  BY <1>1, <1>2 DEF Next, vars

\* A flight that the stand plan marks has a bar that overlaps another one of its row, and
\* where the bars of a row are as drawn one that overlaps is marked, for any occupancy.
THEOREM BlocksAreDrawn == Spec => []BarsTellConflicts
<1>1. Init => ShownInv
  BY InitShown
<1>2. ShownInv /\ [Next]_vars => ShownInv'
  BY NextShown
<1>3. ShownInv => BarsTellConflicts
  BY BarsAreBlocks DEF ShownInv
<1>4. QED
  BY <1>1, <1>2, <1>3, PTL DEF Spec

\* The settings page shows of each service the last answer to its health check.
THEOREM LightsAreTrue == Spec => []LightsAreAnswers
<1>1. Init => ShownInv
  BY InitShown
<1>2. ShownInv /\ [Next]_vars => ShownInv'
  BY NextShown
<1>3. ShownInv => LightsAreAnswers
  BY DEF ShownInv, LightsKept
<1>4. QED
  BY <1>1, <1>2, <1>3, PTL DEF Spec

\* The filters of the crew page find whom the cards show as such, and each unit is found
\* by one filter of the equipment page, whose cards add up, whatever the services answer.
THEOREM PagesAgree == Spec => []RostersAgree
<1>1. Init => ShownInv
  BY InitShown
<1>2. ShownInv /\ [Next]_vars => ShownInv'
  BY NextShown
<1>3. ShownInv => RostersAgree
  BY FiltersAgree, CardsAgree DEF ShownInv, RostersAgree
<1>4. QED
  BY <1>1, <1>2, <1>3, PTL DEF Spec

\* The jobs and the operators keep one open alert of a cause at most, however many runs
\* go on at a time, except where a count was lost or overtaken.
THEOREM AlertsAreOnce == Spec => []OneOpenAlertPerCause
<1>1. Init => AlertsInv
  BY InitAlerts DEF Init
<1>2. AlertsInv /\ [Next]_vars => AlertsInv'
  BY NextAlerts
<1>3. AlertsInv => OneOpenAlertPerCause
  BY DEF AlertsInv
<1>4. QED
  BY <1>1, <1>2, <1>3, PTL DEF Spec

\* What a job has found and dealt with has had an alert, unless the insert failed, or it
\* is boarding, which an alert of deboarding hides.
THEOREM FoundIsKnown == Spec => []FoundMeansAlerted
<1>1. Init => AlertsInv
  BY InitAlerts DEF Init
<1>2. AlertsInv /\ [Next]_vars => AlertsInv'
  BY NextAlerts
<1>3. AlertsInv => FoundMeansAlerted
  BY FoundIsAlerted
<1>4. QED
  BY <1>1, <1>2, <1>3, PTL DEF Spec

----------------------------------------------------------------------------

\* What run h reports of the flights before the one it is at, when the table is R.
Reports(h, R) ==
  /\ \A i \in DOMAIN h.results : \/ R[h.listing[i]] > 0
                                 \/ h.listing[i] \notin Complete
                                 \/ h.results[i] = "error"
  /\ h.pc = "sent" /\ h.code = 201 => R[Head(h.left)] > 0

\* A run has a result for each flight that it has taken off the listing.
Progress(h) ==
  /\ h.pc \in {"idle", "fetch"} => h.results = <<>>
  /\ h.pc \in {"idle", "fetch", "post"} => h.code = 0
  /\ h.pc \in {"post", "sent"} =>
       /\ Len(h.results) + Len(h.left) = Len(h.listing)
       /\ \A i \in 1..Len(h.left) : h.left[i] = h.listing[Len(h.results) + i]
  /\ h.pc = "sent" => h.left # <<>>
  /\ Len(h.results) <= Len(h.listing)
  /\ h.pc = "done" /\ ~h.failed => Len(h.results) = Len(h.listing)

\* Place i of the listing of run h is flight f, and a row was made for it there.
Counts(h, f, i) ==
  \/ i \in DOMAIN h.results /\ h.results[i] = "ingested" /\ h.listing[i] = f
  \/ /\ h.pc = "sent" /\ h.code = 201
     /\ i = Len(h.results) + 1 /\ Head(h.left) = f

CountedIn(q, f) == {x \in Runs \X (Nat \ {0}) : Counts(q[x[1]], f, x[2])}

RunsInv ==
  /\ rows \in [Flights -> Nat]
  /\ IngestionTypeOK
  /\ \A r \in Runs : Progress(runs[r]) /\ Reports(runs[r], rows)
  /\ \A f \in Flights : /\ IsFiniteSet(CountedIn(runs, f))
                        /\ Cardinality(CountedIn(runs, f)) <= rows[f]

\* is_running tells whether a run is going on, until two have overlapped.
Busy ==
  /\ running => \E r \in Runs : Active(r)
  /\ ~overlapped =>
       /\ \A r \in Runs : Active(r) => running
       /\ \A r, q \in Runs : Active(r) /\ Active(q) => r = q

CountedInv == RunsInv /\ Busy

----------------------------------------------------------------------------
\* The run by itself, and what it counts, from a place to the next.

LEMMA FetchedRun ==
  ASSUME NEW h \in Run, NEW R, Progress(h), h.pc = "fetch", NEW list \in Seq(Flights),
         NEW H, H = [h EXCEPT !.pc = "post", !.listing = list, !.left = list]
  PROVE  /\ H \in Run /\ Progress(H) /\ Reports(H, R)
         /\ \A f, i : ~Counts(H, f, i)
<1>1. /\ H \in Run
      /\ H.pc = "post" /\ H.listing = list /\ H.left = list /\ H.code = h.code
      /\ H.results = h.results
  BY DEF Run
<1>2. H.results = <<>> /\ H.code = 0 /\ Len(H.results) = 0 /\ DOMAIN H.results = {}
  BY <1>1 DEF Progress
<1>3. Len(list) \in Nat
  OBVIOUS
<1>4. QED
  BY <1>1, <1>2, <1>3 DEF Progress, Reports, Counts

\* A run that is at the flight after those it has a result for.
LEMMA AtFlight ==
  ASSUME NEW H, NEW n \in Nat, NEW m \in Nat, (H.pc = "post" /\ H.code = 0) \/ H.pc = "sent",
         H.pc = "sent" => H.left # <<>>,
         Len(H.results) = n, Len(H.left) = m, Len(H.listing) = n + m,
         \A i \in 1..m : H.left[i] = H.listing[n + i]
  PROVE  Progress(H)
BY DEF Progress

\* Run h is at a flight, and result may be what it finds out about it.
MayReport(h, result) ==
  /\ h.pc \in {"post", "sent"} /\ h.left # <<>>
  /\ result = "ingested" => h.pc = "sent" /\ h.code = 201
  /\ result = "skipped" => Head(h.left) \notin Complete

\* Run H is what run h becomes by it.
HasReported(h, result, H) ==
  /\ H.pc = "post" /\ H.listing = h.listing /\ H.code = 0 /\ H.failed = h.failed
  /\ H.left = Tail(h.left) /\ H.results = Append(h.results, result)
  /\ H = [pc |-> H.pc, listing |-> H.listing, left |-> H.left, code |-> H.code,
          results |-> H.results, failed |-> H.failed]

LEMMA ReportedRun ==
  ASSUME NEW h \in Run, NEW R, Progress(h), Reports(h, R),
         NEW result \in Result, MayReport(h, result),
         NEW H, HasReported(h, result, H)
  PROVE  /\ H \in Run /\ Progress(H) /\ Reports(H, R)
         /\ \A f, i : Counts(H, f, i) => Counts(h, f, i)
<1> DEFINE n == Len(h.results)
           m == Len(h.left)
<1>1. /\ h.results \in Seq(Result) /\ h.left \in Seq(Flights) /\ h.listing \in Seq(Flights)
      /\ n \in Nat /\ m \in Nat \ {0} /\ DOMAIN h.results = 1..n
      /\ Len(h.listing) \in Nat
  BY DEF Run, MayReport
<1>2. /\ Tail(h.left) \in Seq(Flights) /\ Len(Tail(h.left)) = m - 1
      /\ \A i \in 1..(m - 1) : Tail(h.left)[i] = h.left[i + 1]
      /\ Head(h.left) = h.left[1]
  BY <1>1
<1>3. /\ Append(h.results, result) \in Seq(Result)
      /\ Len(Append(h.results, result)) = n + 1
      /\ \A i \in 1..n : Append(h.results, result)[i] = h.results[i]
      /\ Append(h.results, result)[n + 1] = result
  BY <1>1, AppendProperties
<1>4. /\ H \in Run
      /\ H.pc = "post" /\ H.listing = h.listing /\ H.left = Tail(h.left) /\ H.code = 0
      /\ H.results = Append(h.results, result)
  <2>1. /\ H.pc = "post" /\ H.listing = h.listing /\ H.left = Tail(h.left)
        /\ H.code = 0 /\ H.results = Append(h.results, result) /\ H.failed = h.failed
    BY DEF HasReported
  <2>2. /\ H.listing \in Seq(Flights) /\ H.left \in Seq(Flights)
        /\ H.results \in Seq(Result) /\ H.failed \in BOOLEAN
    BY <1>2, <1>3, <2>1 DEF Run
  <2>3. H = [pc |-> H.pc, listing |-> H.listing, left |-> H.left, code |-> H.code,
             results |-> H.results, failed |-> H.failed]
    BY DEF HasReported
  <2>4. PICK a, b, c, d, e, f : /\ a = H.pc /\ b = H.listing /\ c = H.left
                                /\ d = H.code /\ e = H.results /\ f = H.failed
    OBVIOUS
  <2>5. [pc |-> a, listing |-> b, left |-> c, code |-> d, results |-> e, failed |-> f] \in Run
    BY <2>1, <2>2, <2>4 DEF Run
  <2>6. H \in Run
    BY <2>3, <2>4, <2>5
  <2>7. QED
    BY <2>1, <2>6
<1>5. DOMAIN H.results = 1..(n + 1)
  BY <1>3, <1>4
<1>6. /\ n + m = Len(h.listing)
      /\ \A i \in 1..m : h.left[i] = h.listing[n + i]
  BY DEF Progress, MayReport
<1>7. Head(h.left) = h.listing[n + 1]
  BY <1>1, <1>2, <1>6
<1> HIDE DEF n, m
<1>8. \A i \in 1..(m - 1) : Tail(h.left)[i] = h.listing[n + 1 + i]
  <2>1. SUFFICES ASSUME NEW i \in 1..(m - 1)
                 PROVE  Tail(h.left)[i] = h.listing[n + 1 + i]
    OBVIOUS
  <2>2. i + 1 \in 1..m /\ n + (i + 1) = n + 1 + i
    BY <1>1
  <2>3. QED
    BY <1>2, <1>6, <2>2
<1>9. Progress(H)
  <2>1. Len(H.results) = n + 1 /\ Len(H.left) = m - 1
    BY <1>2, <1>3, <1>4
  <2>2. /\ (n + 1) + (m - 1) = Len(h.listing)
        /\ n + 1 <= Len(h.listing)
    BY <1>1, <1>6
  <2>3. \A i \in 1..(m - 1) : H.left[i] = H.listing[(n + 1) + i]
    BY <1>4, <1>8
  <2>4. H.pc = "post" /\ H.code = 0 /\ n + 1 \in Nat /\ m - 1 \in Nat
        /\ Len(H.listing) = (n + 1) + (m - 1)
    BY <1>1, <1>4, <2>2
  <2>5. PICK G, k, l : G = H /\ k = n + 1 /\ l = m - 1
    OBVIOUS
  <2>6. /\ k \in Nat /\ l \in Nat /\ G.pc = "post" /\ G.code = 0
        /\ Len(G.results) = k /\ Len(G.left) = l /\ Len(G.listing) = k + l
        /\ \A i \in 1..l : G.left[i] = G.listing[k + i]
    BY <2>1, <2>3, <2>4, <2>5
  <2>7. Progress(G)
    BY <2>6, AtFlight
  <2>8. QED
    BY <2>5, <2>7
<1>10. Reports(H, R)
  <2>1. SUFFICES ASSUME NEW i \in 1..(n + 1)
                 PROVE  \/ R[h.listing[i]] > 0
                        \/ h.listing[i] \notin Complete
                        \/ H.results[i] = "error"
    BY <1>4, <1>5 DEF Reports
  <2>2. CASE i \in 1..n
    BY <1>1, <1>3, <1>4, <2>2 DEF Reports
  <2>3. CASE i = n + 1
    BY <1>3, <1>4, <1>7, <2>3 DEF Reports, Result, MayReport
  <2>4. QED
    BY <1>1, <2>2, <2>3
<1>11. ASSUME NEW f, NEW i, Counts(H, f, i)
       PROVE  Counts(h, f, i)
  <2>1. i \in 1..(n + 1) /\ H.results[i] = "ingested" /\ h.listing[i] = f
    BY <1>4, <1>5, <1>11 DEF Counts
  <2>2. CASE i \in 1..n
    BY <1>1, <1>3, <1>4, <2>1, <2>2 DEF Counts
  <2>3. CASE i = n + 1
    BY <1>3, <1>4, <1>7, <2>1, <2>3 DEF Counts, MayReport, n
  <2>4. QED
    BY <1>1, <2>1, <2>2, <2>3
<1>12. QED
  BY <1>4, <1>9, <1>10, <1>11

\* A run goes from place to place without a report.
LEMMA RunGoes ==
  ASSUME NEW h \in Run, NEW R, Progress(h), Reports(h, R),
         NEW p \in {"fetch", "sent", "done", "killed"},
         p = "fetch" => h.pc = "idle",
         p = "sent" => h.pc = "post" /\ h.left # <<>>,
         p = "done" => h.pc = "post" /\ h.left = <<>>,
         NEW H, H = [h EXCEPT !.pc = p]
  PROVE  /\ H \in Run /\ Progress(H) /\ Reports(H, R)
         /\ \A f, i : Counts(H, f, i) => Counts(h, f, i)
<1>1. /\ H \in Run
      /\ H.pc = p /\ H.listing = h.listing /\ H.left = h.left /\ H.code = h.code
      /\ H.results = h.results /\ H.failed = h.failed
  BY DEF Run
<1>2. Len(h.results) \in Nat /\ Len(h.listing) \in Nat /\ Len(h.left) \in Nat
  BY DEF Run
<1>3. Progress(H)
  <2>1. CASE p = "fetch"
    BY <1>1, <2>1 DEF Progress
  <2>2. CASE p = "sent"
    BY <1>1, <2>2 DEF Progress
  <2>3. CASE p = "done"
    <3>1. Len(h.results) + Len(h.left) = Len(h.listing) /\ Len(h.left) = 0
      BY <2>3 DEF Progress
    <3>2. Len(h.results) = Len(h.listing)
      BY <1>2, <3>1
    <3>3. QED
      BY <1>1, <1>2, <2>3, <3>2 DEF Progress
  <2>4. CASE p = "killed"
    BY <1>1, <2>4 DEF Progress
  <2>5. QED
    BY <2>1, <2>2, <2>3, <2>4
<1>4. p = "sent" => h.code = 0
  BY DEF Progress
<1>5. QED
  BY <1>1, <1>3, <1>4 DEF Reports, Counts

LEMMA FailedRun ==
  ASSUME NEW h \in Run, NEW R, Progress(h), h.pc = "fetch",
         NEW H, H = [h EXCEPT !.pc = "done", !.failed = TRUE]
  PROVE  /\ H \in Run /\ Progress(H) /\ Reports(H, R)
         /\ \A f, i : Counts(H, f, i) => Counts(h, f, i)
<1>1. /\ H \in Run
      /\ H.pc = "done" /\ H.listing = h.listing /\ H.results = h.results /\ H.failed
  BY DEF Run
<1>2. H.results = <<>> /\ Len(H.results) = 0 /\ DOMAIN H.results = {}
      /\ Len(H.listing) \in Nat
  BY <1>1 DEF Progress, Run
<1>3. QED
  BY <1>1, <1>2 DEF Progress, Reports, Counts

LEMMA HandledRun ==
  ASSUME NEW h \in Run, NEW R, Progress(h), Reports(h, R), h.pc = "sent", h.code = 0,
         NEW code \in {201, 422}, code = 201 => R[Head(h.left)] > 0,
         NEW H, H = [h EXCEPT !.code = code]
  PROVE  /\ H \in Run /\ Progress(H) /\ Reports(H, R)
         /\ \A f, i : Counts(H, f, i) =>
              \/ Counts(h, f, i)
              \/ code = 201 /\ f = Head(h.left) /\ i = Len(h.results) + 1
<1>1. /\ H.pc = "sent" /\ H.listing = h.listing /\ H.left = h.left /\ H.code = code
      /\ H.results = h.results /\ H.failed = h.failed
  BY DEF Run
<1>2. H \in Run
  <2>1. h = [pc |-> h.pc, listing |-> h.listing, left |-> h.left, code |-> h.code,
             results |-> h.results, failed |-> h.failed]
    BY DEF Run
  <2>2. H = [pc |-> h.pc, listing |-> h.listing, left |-> h.left, code |-> code,
             results |-> h.results, failed |-> h.failed]
    BY <2>1
  <2>3. QED
    BY <2>2 DEF Run
<1>3. Progress(H)
  <2>1. /\ Len(h.results) + Len(h.left) = Len(h.listing) /\ h.left # <<>>
        /\ \A i \in 1..Len(h.left) : h.left[i] = h.listing[Len(h.results) + i]
    BY DEF Progress
  <2>2. Len(h.results) \in Nat /\ Len(h.left) \in Nat
    BY DEF Run
  <2>3. PICK G, k, l : G = H /\ k = Len(h.results) /\ l = Len(h.left)
    OBVIOUS
  <2>4. /\ k \in Nat /\ l \in Nat /\ G.pc = "sent" /\ G.left # <<>>
        /\ Len(G.results) = k /\ Len(G.left) = l /\ Len(G.listing) = k + l
        /\ \A i \in 1..l : G.left[i] = G.listing[k + i]
    BY <1>1, <2>1, <2>2, <2>3
  <2>5. Progress(G)
    BY <2>4, AtFlight
  <2>6. QED
    BY <2>3, <2>5
<1>4. Reports(H, R)
  BY <1>1 DEF Reports
<1>5. ASSUME NEW f, NEW i, Counts(H, f, i), ~Counts(h, f, i)
      PROVE  code = 201 /\ f = Head(h.left) /\ i = Len(h.results) + 1
  BY <1>1, <1>5 DEF Counts
<1>6. QED
  BY <1>2, <1>3, <1>4, <1>5

----------------------------------------------------------------------------

LEMMA FewerCounted ==
  ASSUME NEW q, NEW Q, NEW f, NEW n \in Nat,
         \A r \in Runs, i \in Nat \ {0} : Counts(Q[r], f, i) => Counts(q[r], f, i),
         IsFiniteSet(CountedIn(q, f)), Cardinality(CountedIn(q, f)) <= n
  PROVE  IsFiniteSet(CountedIn(Q, f)) /\ Cardinality(CountedIn(Q, f)) <= n
<1>1. CountedIn(Q, f) \subseteq CountedIn(q, f)
  BY DEF CountedIn
<1>2. /\ IsFiniteSet(CountedIn(Q, f)) /\ Cardinality(CountedIn(Q, f)) \in Nat
      /\ Cardinality(CountedIn(q, f)) \in Nat
      /\ Cardinality(CountedIn(Q, f)) <= Cardinality(CountedIn(q, f))
  BY <1>1, FS_Subset, FS_CardinalityType
<1>3. QED
  BY <1>2

LEMMA OneMoreCounted ==
  ASSUME NEW q, NEW Q, NEW f, NEW n \in Nat, NEW x,
         \A r \in Runs, i \in Nat \ {0} :
           Counts(Q[r], f, i) => Counts(q[r], f, i) \/ <<r, i>> = x,
         IsFiniteSet(CountedIn(q, f)), Cardinality(CountedIn(q, f)) <= n
  PROVE  IsFiniteSet(CountedIn(Q, f)) /\ Cardinality(CountedIn(Q, f)) <= n + 1
<1> DEFINE S == CountedIn(q, f) \cup {x}
<1>1. CountedIn(Q, f) \subseteq S
  BY DEF CountedIn
<1>2. /\ IsFiniteSet(S) /\ Cardinality(CountedIn(q, f)) \in Nat
      /\ Cardinality(S) = Cardinality(CountedIn(q, f))
           \/ Cardinality(S) = Cardinality(CountedIn(q, f)) + 1
  BY FS_AddElement, FS_CardinalityType
<1> HIDE DEF S
<1>3. /\ IsFiniteSet(CountedIn(Q, f)) /\ Cardinality(CountedIn(Q, f)) \in Nat
      /\ Cardinality(S) \in Nat
      /\ Cardinality(CountedIn(Q, f)) <= Cardinality(S)
  BY <1>1, <1>2, FS_Subset, FS_CardinalityType
<1>4. QED
  BY <1>2, <1>3

\* A report counts a flight in the table once the table has it, and never less.
LEMMA ReportsLast ==
  ASSUME NEW h \in Run, NEW R, NEW Q, Reports(h, R), Progress(h),
         \A f \in Flights : R[f] \in Nat /\ Q[f] \in Nat /\ R[f] <= Q[f]
  PROVE  Reports(h, Q)
<1>1. \A i \in DOMAIN h.results : h.listing[i] \in Flights
  BY DEF Run, Progress
<1>2. h.pc = "sent" => Head(h.left) \in Flights
  BY DEF Run, Progress
<1>3. QED
  BY <1>1, <1>2 DEF Reports

Becomes(r, H) == runs' = [runs EXCEPT ![r] = H]

\* Run r becomes H, which counts no flight that it did not.
LEMMA RunMoves ==
  ASSUME RunsInv, NEW r \in Runs, NEW H \in Run, Progress(H), Reports(H, rows),
         \A f, i : Counts(H, f, i) => Counts(runs[r], f, i),
         Becomes(r, H), rows' = rows,
         running' \in BOOLEAN, overlapped' \in BOOLEAN, late' \subseteq Flights
  PROVE  RunsInv'
<1>1. DOMAIN runs = Runs
  BY DEF RunsInv, IngestionTypeOK
<1>2. \A q \in Runs : runs'[q] = IF q = r THEN H ELSE runs[q]
  BY <1>1 DEF Becomes
<1>3. IngestionTypeOK'
  BY DEF Becomes, RunsInv, IngestionTypeOK
<1>4. \A q \in Runs : Progress(runs'[q]) /\ Reports(runs'[q], rows')
  BY <1>2 DEF RunsInv
<1>5. ASSUME NEW f \in Flights
      PROVE  IsFiniteSet(CountedIn(runs', f)) /\ Cardinality(CountedIn(runs', f)) <= rows'[f]
  <2>1. \A q \in Runs, i \in Nat \ {0} : Counts(runs'[q], f, i) => Counts(runs[q], f, i)
    BY <1>2
  <2>2. PICK a, b, n : a = runs /\ b = runs' /\ n = rows[f]
    OBVIOUS
  <2>3. /\ n \in Nat
        /\ \A q \in Runs, i \in Nat \ {0} : Counts(b[q], f, i) => Counts(a[q], f, i)
        /\ IsFiniteSet(CountedIn(a, f)) /\ Cardinality(CountedIn(a, f)) <= n
    BY <2>1, <2>2 DEF RunsInv
  <2>4. IsFiniteSet(CountedIn(b, f)) /\ Cardinality(CountedIn(b, f)) <= n
    BY <2>3, FewerCounted
  <2>5. QED
    BY <2>2, <2>4
<1>6. QED
  BY <1>3, <1>4, <1>5 DEF RunsInv

LEMMA CreatedRows ==
  ASSUME rows \in [Flights -> Nat], NEW f \in Flights, CreateFlight(f)
  PROVE  /\ rows' \in [Flights -> Nat]
         /\ \A g \in Flights : rows[g] <= rows'[g]
         /\ ~Duplicate(f) => rows'[f] = rows[f] + 1
         /\ Duplicate(f) => rows' = rows
         /\ rows'[f] > 0
<1>1. CASE Duplicate(f)
  BY <1>1 DEF CreateFlight, Duplicate
<1>2. CASE ~Duplicate(f)
  BY <1>2 DEF CreateFlight
<1>3. QED
  BY <1>1, <1>2

LEMMA LateRuns ==
  ASSUME RunsInv, NEW f \in late, HandledLate(f)
  PROVE  RunsInv'
<1>1. f \in Flights /\ rows \in [Flights -> Nat]
  BY DEF RunsInv, IngestionTypeOK
<1>2. /\ rows' \in [Flights -> Nat]
      /\ \A g \in Flights : rows[g] <= rows'[g]
      /\ runs' = runs
  BY <1>1, CreatedRows DEF HandledLate
<1>3. IngestionTypeOK'
  BY DEF HandledLate, RunsInv, IngestionTypeOK
<1>4. ASSUME NEW q \in Runs
      PROVE  Progress(runs'[q]) /\ Reports(runs'[q], rows')
  <2>1. PICK h, R, Q : h = runs[q] /\ R = rows /\ Q = rows'
    OBVIOUS
  <2>2. /\ h \in Run /\ Progress(h) /\ Reports(h, R)
        /\ \A g \in Flights : R[g] \in Nat /\ Q[g] \in Nat /\ R[g] <= Q[g]
    BY <1>1, <1>2, <2>1 DEF RunsInv, IngestionTypeOK
  <2>3. Reports(h, Q)
    BY <2>2, ReportsLast
  <2>4. QED
    BY <1>2, <2>1, <2>2, <2>3
<1>5. ASSUME NEW g \in Flights
      PROVE  IsFiniteSet(CountedIn(runs', g)) /\ Cardinality(CountedIn(runs', g)) <= rows'[g]
  <2>1. /\ IsFiniteSet(CountedIn(runs, g)) /\ Cardinality(CountedIn(runs, g)) <= rows[g]
        /\ Cardinality(CountedIn(runs, g)) \in Nat
    BY FS_CardinalityType DEF RunsInv
  <2>2. QED
    BY <1>1, <1>2, <2>1
<1>6. QED
  BY <1>2, <1>3, <1>4, <1>5 DEF RunsInv

LEMMA HandledRuns ==
  ASSUME RunsInv, NEW r \in Runs, Handled(r)
  PROVE  RunsInv'
<1>1. PICK h, R, Q, f, code, H :
        /\ h = runs[r] /\ R = rows /\ Q = rows' /\ f = Head(h.left) /\ code = StatusCode(f)
        /\ H = [h EXCEPT !.code = code]
  OBVIOUS
<1>2. /\ h \in Run /\ Progress(h) /\ Reports(h, R) /\ h.pc = "sent" /\ h.code = 0
      /\ h.left \in Seq(Flights) /\ h.left # <<>>
  <2>1. h \in Run /\ Progress(h) /\ Reports(h, R) /\ h.pc = "sent" /\ h.code = 0
    BY <1>1 DEF Handled, RunsInv, IngestionTypeOK
  <2>2. QED
    BY <2>1 DEF Run, Progress
<1>3. f \in Flights /\ rows \in [Flights -> Nat]
  BY <1>1, <1>2 DEF RunsInv
<1>4. CreateFlight(f)
  BY <1>1 DEF Handled
<1>5. /\ Q \in [Flights -> Nat]
      /\ \A g \in Flights : R[g] <= Q[g]
      /\ ~Duplicate(f) => Q[f] = R[f] + 1
      /\ Duplicate(f) => Q = R
      /\ Q[f] > 0
  BY <1>1, <1>3, <1>4, CreatedRows
<1>6. code \in {201, 422} /\ (code = 201 <=> ~Duplicate(f))
  BY <1>1 DEF StatusCode
<1>7. \A q \in Runs : /\ runs[q] \in Run /\ Progress(runs[q]) /\ Reports(runs[q], Q)
  <2>1. SUFFICES ASSUME NEW q \in Runs
                 PROVE  runs[q] \in Run /\ Progress(runs[q]) /\ Reports(runs[q], Q)
    OBVIOUS
  <2>2. PICK g : g = runs[q]
    OBVIOUS
  <2>3. /\ g \in Run /\ Progress(g) /\ Reports(g, R)
        /\ \A e \in Flights : R[e] \in Nat /\ Q[e] \in Nat /\ R[e] <= Q[e]
    BY <1>1, <1>3, <1>5, <2>2 DEF RunsInv, IngestionTypeOK
  <2>4. Reports(g, Q)
    BY <2>3, ReportsLast
  <2>5. QED
    BY <2>2, <2>3, <2>4
<1>8. /\ H \in Run /\ Progress(H) /\ Reports(H, Q)
      /\ \A e, i : Counts(H, e, i) =>
           Counts(h, e, i) \/ (code = 201 /\ e = f /\ i = Len(h.results) + 1)
  <2>1. H = [h EXCEPT !.code = code] /\ f = Head(h.left) /\ Reports(h, Q)
    BY <1>1, <1>7
  <2>2. Q[Head(h.left)] > 0
    BY <1>1, <1>5
  <2>3. /\ H \in Run /\ Progress(H) /\ Reports(H, Q)
        /\ \A e, i : Counts(H, e, i) =>
             Counts(h, e, i) \/ (code = 201 /\ e = Head(h.left) /\ i = Len(h.results) + 1)
    BY <1>2, <1>6, <2>1, <2>2, HandledRun
  <2>4. QED
    BY <2>1, <2>3
<1>9. runs' = [runs EXCEPT ![r] = H] /\ DOMAIN runs = Runs
  BY <1>1 DEF Handled, RunsInv, IngestionTypeOK
<1>10. \A q \in Runs : runs'[q] = IF q = r THEN H ELSE runs[q]
  BY <1>9
<1>11. IngestionTypeOK'
  BY <1>8, <1>9 DEF Handled, RunsInv, IngestionTypeOK
<1>12. \A q \in Runs : Progress(runs'[q]) /\ Reports(runs'[q], rows')
  BY <1>1, <1>7, <1>8, <1>10
<1>13. ASSUME NEW e \in Flights
       PROVE  IsFiniteSet(CountedIn(runs', e)) /\ Cardinality(CountedIn(runs', e)) <= rows'[e]
  <2>1. PICK a, b, n, x :
          a = runs /\ b = runs' /\ n = R[e] /\ x = <<r, Len(h.results) + 1>>
    OBVIOUS
  <2>2. /\ n \in Nat /\ Q[e] \in Nat /\ n <= Q[e]
        /\ IsFiniteSet(CountedIn(a, e)) /\ Cardinality(CountedIn(a, e)) <= n
    BY <1>1, <1>3, <1>5, <2>1 DEF RunsInv
  <2>3. CASE code = 201 /\ e = f
    <3>1. \A q \in Runs, i \in Nat \ {0} :
            Counts(b[q], e, i) => Counts(a[q], e, i) \/ <<q, i>> = x
      BY <1>1, <1>8, <1>10, <2>1
    <3>2. IsFiniteSet(CountedIn(b, e)) /\ Cardinality(CountedIn(b, e)) <= n + 1
      BY <2>2, <3>1, OneMoreCounted
    <3>3. Q[e] = n + 1
      BY <1>5, <1>6, <2>1, <2>3
    <3>4. QED
      BY <1>1, <2>1, <3>2, <3>3
  <2>4. CASE ~(code = 201 /\ e = f)
    <3>1. \A q \in Runs, i \in Nat \ {0} : Counts(b[q], e, i) => Counts(a[q], e, i)
      BY <1>1, <1>8, <1>10, <2>1, <2>4
    <3>2. IsFiniteSet(CountedIn(b, e)) /\ Cardinality(CountedIn(b, e)) <= n
      BY <2>2, <3>1, FewerCounted
    <3>3. Cardinality(CountedIn(b, e)) \in Nat
      BY <3>2, FS_CardinalityType
    <3>4. Cardinality(CountedIn(b, e)) <= Q[e]
      BY <2>2, <3>2, <3>3
    <3>5. QED
      BY <1>1, <2>1, <3>2, <3>4
  <2>5. QED
    BY <2>3, <2>4
<1>14. rows' \in [Flights -> Nat]
  BY <1>1, <1>5
<1>15. QED
  BY <1>11, <1>12, <1>13, <1>14 DEF RunsInv

Reported(r, result) == runs' = Report(r, result)

\* The run takes its result for the flight that it is at.
LEMMA ReportRuns ==
  ASSUME RunsInv, NEW r \in Runs, NEW result \in Result, MayReport(runs[r], result),
         Reported(r, result), rows' = rows,
         running' \in BOOLEAN, overlapped' \in BOOLEAN, late' \subseteq Flights
  PROVE  RunsInv'
<1>1. PICK h, R, H : h = runs[r] /\ R = rows /\ H = runs'[r]
  OBVIOUS
<1>2. h \in Run /\ Progress(h) /\ Reports(h, R) /\ MayReport(h, result)
  BY <1>1 DEF RunsInv, IngestionTypeOK
<1>3. DOMAIN runs = Runs /\ h = [pc |-> h.pc, listing |-> h.listing, left |-> h.left,
        code |-> h.code, results |-> h.results, failed |-> h.failed]
  BY <1>2 DEF RunsInv, IngestionTypeOK, Run
<1>4. /\ H.pc = "post" /\ H.listing = h.listing /\ H.code = 0 /\ H.failed = h.failed
      /\ H.left = Tail(h.left) /\ H.results = Append(h.results, result)
  BY <1>1, <1>3 DEF Reported, Report
<1>5. HasReported(h, result, H)
  <2>1. H = [pc |-> H.pc, listing |-> H.listing, left |-> H.left, code |-> H.code,
             results |-> H.results, failed |-> H.failed]
    BY <1>1, <1>3 DEF Reported, Report
  <2>2. QED
    BY <1>4, <2>1 DEF HasReported
<1>6. Becomes(r, H)
  BY <1>1, <1>3 DEF Reported, Report, Becomes
<1>7. /\ H \in Run /\ Progress(H) /\ Reports(H, R)
      /\ \A f, i : Counts(H, f, i) => Counts(h, f, i)
  BY <1>2, <1>5, ReportedRun
<1>8. QED
  BY <1>1, <1>6, <1>7, RunMoves

\* A run goes to place p, without a report.
LEMMA GoRuns ==
  ASSUME RunsInv, NEW r \in Runs, NEW p \in {"fetch", "sent", "done"},
         p = "fetch" => runs[r].pc = "idle",
         p = "sent" => runs[r].pc = "post" /\ runs[r].left # <<>>,
         p = "done" => runs[r].pc = "post" /\ runs[r].left = <<>>,
         runs' = [runs EXCEPT ![r].pc = p], rows' = rows,
         running' \in BOOLEAN, overlapped' \in BOOLEAN, late' \subseteq Flights
  PROVE  RunsInv'
<1>1. PICK h, R, H : h = runs[r] /\ R = rows /\ H = [h EXCEPT !.pc = p]
  OBVIOUS
<1>2. h \in Run /\ Progress(h) /\ Reports(h, R)
  BY <1>1 DEF RunsInv, IngestionTypeOK
<1>3. /\ H \in Run /\ Progress(H) /\ Reports(H, R)
      /\ \A f, i : Counts(H, f, i) => Counts(h, f, i)
  BY <1>1, <1>2, RunGoes
<1>4. Becomes(r, H)
  BY <1>1 DEF Becomes, RunsInv, IngestionTypeOK
<1>5. QED
  BY <1>1, <1>3, <1>4, RunMoves

LEMMA FetchRuns ==
  ASSUME RunsInv, NEW r \in Runs,
         (\E list \in Listings : FetchArrivals(r, list)) \/ FetchFails(r)
  PROVE  RunsInv'
<1>1. running' \in BOOLEAN /\ overlapped' \in BOOLEAN /\ late' \subseteq Flights
      /\ rows' = rows
  BY DEF FetchArrivals, FetchFails, RunsInv, IngestionTypeOK
<1>2. PICK h, R : h = runs[r] /\ R = rows
  OBVIOUS
<1>3. h \in Run /\ Progress(h) /\ h.pc = "fetch"
  BY <1>2 DEF FetchArrivals, FetchFails, RunsInv, IngestionTypeOK
<1>4. CASE \E list \in Listings : FetchArrivals(r, list)
  <2>1. PICK list \in Listings : FetchArrivals(r, list)
    BY <1>4
  <2>2. PICK H : H = [h EXCEPT !.pc = "post", !.listing = list, !.left = list]
    OBVIOUS
  <2>3. list \in Seq(Flights)
    BY IngestionAssumption
  <2>4. /\ H \in Run /\ Progress(H) /\ Reports(H, R)
        /\ \A f, i : ~Counts(H, f, i)
    BY <1>3, <2>2, <2>3, FetchedRun
  <2>5. Becomes(r, H)
    BY <1>2, <2>1, <2>2 DEF Becomes, FetchArrivals, RunsInv, IngestionTypeOK
  <2>6. QED
    BY <1>1, <1>2, <2>4, <2>5, RunMoves
<1>5. CASE FetchFails(r)
  <2>1. PICK H : H = [h EXCEPT !.pc = "done", !.failed = TRUE]
    OBVIOUS
  <2>2. /\ H \in Run /\ Progress(H) /\ Reports(H, R)
        /\ \A f, i : Counts(H, f, i) => Counts(h, f, i)
    BY <1>3, <2>1, FailedRun
  <2>3. Becomes(r, H)
    BY <1>2, <1>5, <2>1 DEF Becomes, FetchFails, RunsInv, IngestionTypeOK
  <2>4. QED
    BY <1>1, <1>2, <2>2, <2>3, RunMoves
<1>6. QED
  BY <1>4, <1>5

LEMMA RestartRuns ==
  ASSUME RunsInv, IngestionRestarts
  PROVE  RunsInv'
<1>1. /\ rows' = rows /\ running' = FALSE /\ overlapped' = overlapped
      /\ runs' = [r \in Runs |-> IF Active(r) THEN [runs[r] EXCEPT !.pc = "killed"]
                                 ELSE runs[r]]
      /\ late' \subseteq late
           \cup {Head(runs[r].left) : r \in {q \in Runs : runs[q].pc = "sent"}}
  BY DEF IngestionRestarts
<1>2. \A r \in Runs : runs[r].pc = "sent" => Head(runs[r].left) \in Flights
  <2>1. SUFFICES ASSUME NEW r \in Runs, runs[r].pc = "sent"
                 PROVE  Head(runs[r].left) \in Flights
    OBVIOUS
  <2>2. runs[r].left \in Seq(Flights) /\ runs[r].left # <<>>
    BY <2>1 DEF RunsInv, IngestionTypeOK, Run, Progress
  <2>3. QED
    BY <2>2
<1>3. \A q \in Runs :
        /\ runs'[q] \in Run /\ Progress(runs'[q]) /\ Reports(runs'[q], rows)
        /\ \A f, i : Counts(runs'[q], f, i) => Counts(runs[q], f, i)
  <2>1. SUFFICES ASSUME NEW q \in Runs
                 PROVE  /\ runs'[q] \in Run /\ Progress(runs'[q]) /\ Reports(runs'[q], rows)
                        /\ \A f, i : Counts(runs'[q], f, i) => Counts(runs[q], f, i)
    OBVIOUS
  <2>2. PICK h, R, H : h = runs[q] /\ R = rows /\ H = [h EXCEPT !.pc = "killed"]
    OBVIOUS
  <2>3. h \in Run /\ Progress(h) /\ Reports(h, R)
    BY <2>2 DEF RunsInv, IngestionTypeOK
  <2>4. PICK p : p = "killed"
    OBVIOUS
  <2>5. /\ H \in Run /\ Progress(H) /\ Reports(H, R)
        /\ \A f, i : Counts(H, f, i) => Counts(h, f, i)
    BY <2>2, <2>3, <2>4, RunGoes
  <2>6. runs'[q] = H \/ runs'[q] = h
    BY <1>1, <2>2
  <2>7. QED
    BY <2>2, <2>3, <2>5, <2>6
<1>4. IngestionTypeOK'
  <2>1. late' \subseteq Flights
    BY <1>1, <1>2 DEF RunsInv, IngestionTypeOK
  <2>2. runs' \in [Runs -> Run]
    BY <1>1, <1>3
  <2>3. QED
    BY <1>1, <2>1, <2>2 DEF RunsInv, IngestionTypeOK
<1>5. ASSUME NEW f \in Flights
      PROVE  IsFiniteSet(CountedIn(runs', f)) /\ Cardinality(CountedIn(runs', f)) <= rows'[f]
  <2>1. PICK a, b, n : a = runs /\ b = runs' /\ n = rows[f]
    OBVIOUS
  <2>2. /\ n \in Nat
        /\ \A q \in Runs, i \in Nat \ {0} : Counts(b[q], f, i) => Counts(a[q], f, i)
        /\ IsFiniteSet(CountedIn(a, f)) /\ Cardinality(CountedIn(a, f)) <= n
    BY <1>3, <2>1 DEF RunsInv
  <2>3. IsFiniteSet(CountedIn(b, f)) /\ Cardinality(CountedIn(b, f)) <= n
    BY <2>2, FewerCounted
  <2>4. QED
    BY <1>1, <2>1, <2>3
<1>6. QED
  BY <1>1, <1>3, <1>4, <1>5 DEF RunsInv

LEMMA IngestionRuns ==
  ASSUME RunsInv, IngestionNext
  PROVE  RunsInv'
<1>1. CASE \E r \in Runs : Start(r)
  <2>1. PICK r \in Runs : Start(r)
    BY <1>1
  <2>2. PICK p : p = "fetch"
    OBVIOUS
  <2>3. /\ runs[r].pc = "idle" /\ runs' = [runs EXCEPT ![r].pc = p] /\ rows' = rows
        /\ running' \in BOOLEAN /\ late' \subseteq Flights
    BY <2>1, <2>2 DEF Start, RunsInv, IngestionTypeOK
  <2>4. overlapped' \in BOOLEAN
    BY <2>1 DEF Start, RunsInv, IngestionTypeOK
  <2>5. QED
    BY <2>2, <2>3, <2>4, GoRuns
<1>2. CASE \E r \in Runs : (\E list \in Listings : FetchArrivals(r, list)) \/ FetchFails(r)
  BY <1>2, FetchRuns
<1>3. ASSUME NEW r \in Runs, Post(r) \/ Finish(r)
      PROVE  RunsInv'
  <2>1. /\ rows' = rows
        /\ running' \in BOOLEAN /\ overlapped' \in BOOLEAN /\ late' \subseteq Flights
    BY <1>3 DEF Post, Finish, RunsInv, IngestionTypeOK
  <2>2. CASE Post(r)
    <3>1. PICK p : p = "sent"
      OBVIOUS
    <3>2. /\ runs[r].pc = "post" /\ runs[r].left # <<>>
          /\ runs' = [runs EXCEPT ![r].pc = p]
      BY <2>2, <3>1 DEF Post
    <3>3. QED
      BY <2>1, <3>1, <3>2, GoRuns
  <2>3. CASE Finish(r)
    <3>1. PICK p : p = "done"
      OBVIOUS
    <3>2. /\ runs[r].pc = "post" /\ runs[r].left = <<>>
          /\ runs' = [runs EXCEPT ![r].pc = p]
      BY <2>3, <3>1 DEF Finish
    <3>3. QED
      BY <2>1, <3>1, <3>2, GoRuns
  <2>4. QED
    BY <1>3, <2>2, <2>3
<1>4. ASSUME NEW r \in Runs, SkipIncomplete(r) \/ Answered(r) \/ Unanswered(r)
      PROVE  RunsInv'
  <2>1. runs[r] \in Run /\ Progress(runs[r])
    BY DEF RunsInv, IngestionTypeOK
  <2>2. runs[r].pc \in {"post", "sent"} /\ runs[r].left # <<>>
    BY <1>4, <2>1 DEF SkipIncomplete, Answered, Unanswered, Progress
  <2>3. Head(runs[r].left) \in Flights
    <3>1. runs[r].left \in Seq(Flights)
      BY <2>1 DEF Run
    <3>2. QED
      BY <2>2, <3>1
  <2>4. /\ rows' = rows
        /\ running' \in BOOLEAN /\ overlapped' \in BOOLEAN /\ late' \subseteq Flights
    BY <1>4, <2>3 DEF SkipIncomplete, Answered, Unanswered, RunsInv, IngestionTypeOK
  <2>5. PICK result :
          /\ result \in Result /\ runs' = Report(r, result)
          /\ result = "ingested" => runs[r].pc = "sent" /\ runs[r].code = 201
          /\ result = "skipped" => Head(runs[r].left) \notin Complete
    <3>1. CASE SkipIncomplete(r)
      BY <3>1 DEF SkipIncomplete, Result
    <3>2. CASE Answered(r)
      <4>1. /\ runs' = Report(r, Classify(runs[r].code)) /\ runs[r].pc = "sent"
            /\ runs[r].code \in {201, 422}
        BY <2>1, <3>2 DEF Answered, Run
      <4>2. /\ Classify(runs[r].code) \in Result
            /\ Classify(runs[r].code) = "ingested" => runs[r].code = 201
            /\ Classify(runs[r].code) # "skipped"
        BY <4>1 DEF Classify, Result
      <4>3. QED
        BY <4>1, <4>2
    <3>3. CASE Unanswered(r)
      BY <3>3 DEF Unanswered, Result
    <3>4. QED
      BY <1>4, <3>1, <3>2, <3>3
  <2>6. QED
    BY <2>2, <2>4, <2>5, ReportRuns DEF Reported, MayReport
<1>5. CASE \E r \in Runs : Handled(r)
  BY <1>5, HandledRuns
<1>6. CASE \E f \in late : HandledLate(f)
  BY <1>6, LateRuns
<1>7. CASE IngestionRestarts
  BY <1>7, RestartRuns
<1>8. QED
  BY <1>1, <1>2, <1>3, <1>4, <1>5, <1>6, <1>7 DEF IngestionNext, Trigger, Tick, Runs

----------------------------------------------------------------------------

LEMMA IngestionBusy ==
  ASSUME RunsInv, Busy, IngestionNext
  PROVE  Busy'
<1> USE DEF Active
<1>1. runs \in [Runs -> Run] /\ overlapped \in BOOLEAN
  BY DEF RunsInv, IngestionTypeOK
<1>2. ASSUME NEW r \in Runs, Start(r)
      PROVE  Busy'
  <2>1. /\ running' /\ (overlapped' <=> overlapped \/ \E q \in Runs : Active(q))
        /\ runs'[r].pc = "fetch" /\ \A q \in Runs \ {r} : runs'[q] = runs[q]
    <3>1. running' = TRUE /\ overlapped' = (overlapped \/ \E q \in Runs : Active(q))
      BY <1>2 DEF Start
    <3>2. runs'[r].pc = "fetch" /\ \A q \in Runs \ {r} : runs'[q] = runs[q]
      BY <1>1, <1>2 DEF Start, Run
    <3>3. QED
      BY <1>1, <3>1, <3>2
  <2>2. QED
    BY <2>1 DEF Busy
<1>3. ASSUME NEW r \in Runs, Finish(r) \/ FetchFails(r)
      PROVE  Busy'
  <2>1. /\ ~running' /\ overlapped' = overlapped /\ Active(r)
        /\ runs'[r].pc = "done" /\ \A q \in Runs \ {r} : runs'[q] = runs[q]
    BY <1>1, <1>3 DEF Finish, FetchFails, Run
  <2>2. QED
    BY <2>1 DEF Busy
<1>4. ASSUME NEW r \in Runs,
             \/ \E list \in Listings : FetchArrivals(r, list)
             \/ SkipIncomplete(r)
             \/ Post(r)
             \/ Handled(r)
             \/ Answered(r)
             \/ Unanswered(r)
      PROVE  Busy'
  <2>1. running' = running /\ overlapped' = overlapped
    BY <1>4 DEF FetchArrivals, SkipIncomplete, Post, Handled, Answered, Unanswered
  <2>2. /\ Active(r) /\ runs'[r].pc \in {"post", "sent"}
        /\ \A q \in Runs \ {r} : runs'[q] = runs[q]
    <3>1. CASE (\E list \in Listings : FetchArrivals(r, list)) \/ Post(r) \/ Handled(r)
      <4>1. CASE \E list \in Listings : FetchArrivals(r, list)
        BY <1>1, <4>1 DEF FetchArrivals, Run
      <4>2. CASE Post(r)
        BY <1>1, <4>2 DEF Post, Run
      <4>3. CASE Handled(r)
        <5>1. PICK code : runs' = [runs EXCEPT ![r].code = code] /\ runs[r].pc = "sent"
          BY <4>3 DEF Handled
        <5>2. QED
          BY <1>1, <5>1 DEF Run
      <4>4. QED
        BY <3>1, <4>1, <4>2, <4>3
    <3>2. CASE SkipIncomplete(r) \/ Answered(r) \/ Unanswered(r)
      <4>1. (\E result : runs' = Report(r, result)) /\ Active(r)
        BY <3>2 DEF SkipIncomplete, Answered, Unanswered
      <4>2. QED
        BY <1>1, <4>1 DEF Report, Run
    <3>3. QED
      BY <1>4, <3>1, <3>2
  <2>3. QED
    BY <2>1, <2>2 DEF Busy
<1>5. CASE \E f \in late : HandledLate(f)
  BY <1>5 DEF HandledLate, Busy
<1>6. CASE IngestionRestarts
  <2>1. ~running' /\ \A q \in Runs : ~Active(q)'
    BY <1>1, <1>6 DEF IngestionRestarts, Run
  <2>2. QED
    BY <2>1 DEF Busy
<1>7. QED
  BY <1>2, <1>3, <1>4, <1>5, <1>6 DEF IngestionNext, Trigger, Tick, Runs

LEMMA InitCounted == StoreInit /\ IngestionInit => CountedInv
<1> SUFFICES ASSUME StoreInit, IngestionInit PROVE CountedInv
  OBVIOUS
<1>1. rows \in [Flights -> Nat] /\ IngestionTypeOK
  <2>1. <<>> \in Seq(Flights) /\ <<>> \in Seq(Result)
    OBVIOUS
  <2>2. QED
    BY <2>1 DEF StoreInit, IngestionInit, IngestionTypeOK, Run
<1>2. \A r \in Runs : /\ Progress(runs[r]) /\ Reports(runs[r], rows)
                      /\ runs[r].pc = "idle" /\ runs[r].results = <<>>
  BY DEF IngestionInit, Progress, Reports
<1>3. ASSUME NEW f \in Flights
      PROVE  IsFiniteSet(CountedIn(runs, f)) /\ Cardinality(CountedIn(runs, f)) <= rows[f]
  <2>1. \A r \in Runs, i \in Nat \ {0} : ~Counts(runs[r], f, i)
    BY <1>2 DEF Counts
  <2>2. CountedIn(runs, f) = {}
    BY <2>1 DEF CountedIn
  <2>3. QED
    BY <1>1, <2>2, FS_EmptySet
<1>4. Busy
  BY <1>2 DEF Busy, Active, IngestionInit
<1>5. QED
  BY <1>1, <1>2, <1>3, <1>4 DEF CountedInv, RunsInv

LEMMA NextCounted == CountedInv /\ [Next]_vars => CountedInv'
<1> SUFFICES ASSUME CountedInv, [Next]_vars PROVE CountedInv'
  OBVIOUS
<1>1. CASE UNCHANGED <<rows, ingestion>>
  BY <1>1 DEF ingestion, CountedInv, RunsInv, IngestionTypeOK, CountedIn, Busy, Active
<1>2. CASE IngestionNext
  BY <1>2, IngestionRuns, IngestionBusy DEF CountedInv
<1>3. QED
  BY <1>1, <1>2, OnlyIngestionWrites DEF Next, vars

LEMMA CountedIsTrue == CountedInv => StatusIsTrue
<1> SUFFICES ASSUME CountedInv PROVE StatusIsTrue
  OBVIOUS
<1>1. ASSUME NEW f \in Flights
      PROVE  Cardinality(Ingested(f)) <= rows[f]
  <2>1. Ingested(f) \subseteq CountedIn(runs, f)
    <3>1. SUFFICES ASSUME NEW r \in Runs, NEW i \in DOMAIN runs[r].results,
                          runs[r].results[i] = "ingested", runs[r].listing[i] = f
                   PROVE  <<r, i>> \in CountedIn(runs, f)
      BY DEF Ingested
    <3>2. i \in Nat \ {0}
      BY DEF CountedInv, RunsInv, IngestionTypeOK, Run
    <3>3. QED
      BY <3>1, <3>2 DEF CountedIn, Counts
  <2>2. /\ IsFiniteSet(CountedIn(runs, f)) /\ Cardinality(CountedIn(runs, f)) <= rows[f]
        /\ rows[f] \in Nat
    BY DEF CountedInv, RunsInv
  <2>3. /\ Cardinality(Ingested(f)) \in Nat /\ Cardinality(CountedIn(runs, f)) \in Nat
        /\ Cardinality(Ingested(f)) <= Cardinality(CountedIn(runs, f))
    BY <2>1, <2>2, FS_Subset, FS_CardinalityType
  <2>4. QED
    BY <2>2, <2>3
<1>2. ASSUME NEW r \in Runs, runs[r].pc = "done", ~runs[r].failed
      PROVE  /\ Len(runs[r].results) = Len(runs[r].listing)
             /\ \A i \in DOMAIN runs[r].listing :
                  \/ rows[runs[r].listing[i]] > 0
                  \/ runs[r].listing[i] \notin Complete
                  \/ runs[r].results[i] = "error"
  <2>1. /\ runs[r].results \in Seq(Result) /\ runs[r].listing \in Seq(Flights)
        /\ Progress(runs[r]) /\ Reports(runs[r], rows)
    BY DEF CountedInv, RunsInv, IngestionTypeOK, Run
  <2>2. Len(runs[r].results) = Len(runs[r].listing)
    BY <1>2, <2>1 DEF Progress
  <2>3. DOMAIN runs[r].results = DOMAIN runs[r].listing
    BY <2>1, <2>2
  <2>4. QED
    BY <2>1, <2>2, <2>3 DEF Reports
<1>3. QED
  BY <1>1, <1>2 DEF CountedInv, Busy, StatusIsTrue

\* is_running is set during a run only, and unset during one only after two runs were
\* going on; no two reports count the same row of a flight as theirs, and a run that has
\* ended without an error has left each flight that it could map in the table.
THEOREM ReportsAreTrue == Spec => []StatusIsTrue
<1>1. Init => CountedInv
  BY InitCounted DEF Init
<1>2. CountedInv /\ [Next]_vars => CountedInv'
  BY NextCounted
<1>3. CountedInv => StatusIsTrue
  BY CountedIsTrue
<1>4. QED
  BY <1>1, <1>2, <1>3, PTL DEF Spec

----------------------------------------------------------------------------

LEMMA Spending ==
  ASSUME [Next]_vars
  PROVE  budget' = budget \/ \E kind \in Kinds : Spend(kind)
<1>1. CASE IngestionNext
  BY <1>1 DEF IngestionNext, Trigger, Tick, Start, FetchArrivals, SkipIncomplete, Post,
     Handled, Answered, Unanswered, HandledLate, Finish, FetchFails, IngestionRestarts, Kinds
<1>2. CASE SchedulerNext
  BY <1>2 DEF SchedulerNext, CheckTurnaroundDelays, CheckStuckTasks, CheckCrewShortage,
     StartJob, CrewAvailable, NoCrewAvailable, CrewUnknown, Count, CountFails, Insert,
     InsertFails, Close, Reopen, CreateAlert, TurnaroundChanges, CrewChanges,
     SchedulerRestarts, Kinds
<1>3. CASE OccupancyArrives \/ PagesNext
  BY <1>3 DEF OccupancyArrives, PagesNext, CrewArrives, AssignmentsArrive,
     EquipmentArrives, OpenSettings, HealthAnswered, Kinds
<1>4. QED
  BY <1>1, <1>2, <1>3 DEF Next, vars

\* SchedulerTypeOK, but for the causes that a job has yet to deal with.
SchedulerTypes ==
  /\ turnarounds \in [Turnarounds -> Situations \cup {None}]
  /\ crewed \subseteq ToSet(Certs)
  /\ \A j \in Jobs : jobs[j].pc \in {"idle", "query", "count", "insert"}
  /\ alerts \in [Causes -> [open : Nat, closed : Nat]]
  /\ {doubted, unraised, handled} \subseteq SUBSET Causes

LEMMA WithTyped ==
  ASSUME NEW q
  PROVE  With(q).pc \in {"idle", "query", "count", "insert"}
BY DEF With

LEMMA SchedulerTyped ==
  ASSUME AlertsInv, SchedulerTypes, SchedulerNext
  PROVE  SchedulerTypes'
<1>1. AlertsInv'
  BY SchedulerAlerts
<1>2. alerts' \in [Causes -> [open : Nat, closed : Nat]] /\ handled' \subseteq Causes
  BY <1>1 DEF AlertsInv, AlertsTyped
<1>3. doubted' \subseteq Causes /\ unraised' \subseteq Causes
  BY DEF SchedulerTypes, SchedulerNext, CheckTurnaroundDelays, CheckStuckTasks,
     CheckCrewShortage, StartJob, CrewAvailable, NoCrewAvailable, CrewUnknown, Count,
     CountFails, Counted, Insert, InsertFails, Close, Reopen, CreateAlert,
     TurnaroundChanges, CrewChanges, SchedulerRestarts
<1>4. turnarounds' \in [Turnarounds -> Situations \cup {None}] /\ crewed' \subseteq ToSet(Certs)
  BY DEF SchedulerTypes, SchedulerNext, CheckTurnaroundDelays, CheckStuckTasks,
     CheckCrewShortage, StartJob, CrewAvailable, NoCrewAvailable, CrewUnknown, Count,
     CountFails, Counted, Insert, InsertFails, Close, Reopen, CreateAlert,
     TurnaroundChanges, CrewChanges, SchedulerRestarts
<1>5. \A j \in Jobs : jobs'[j].pc \in {"idle", "query", "count", "insert"}
  <2>1. \/ jobs' = jobs
        \/ \E j \in Jobs : \E q : jobs' = [jobs EXCEPT ![j] = With(q)]
        \/ \E j \in Jobs, p \in {"count", "insert"} : jobs' = [jobs EXCEPT ![j].pc = p]
        \/ jobs' = [j \in Jobs |-> With(<<>>)]
    BY DEF SchedulerNext, CheckTurnaroundDelays, CheckStuckTasks, CheckCrewShortage,
       StartJob, CrewAvailable, NoCrewAvailable, CrewUnknown, Count, CountFails, Counted,
       Insert, InsertFails, Close, Reopen, CreateAlert, TurnaroundChanges, CrewChanges,
       SchedulerRestarts, Advance
  <2>2. DOMAIN jobs = Jobs
    BY DEF AlertsInv, AlertsTyped
  <2>3. CASE \E j \in Jobs : \E q : jobs' = [jobs EXCEPT ![j] = With(q)]
    BY <2>2, <2>3, WithTyped DEF SchedulerTypes
  <2>4. CASE \E j \in Jobs, p \in {"count", "insert"} : jobs' = [jobs EXCEPT ![j].pc = p]
    <3>1. PICK j \in Jobs, p \in {"count", "insert"} : jobs' = [jobs EXCEPT ![j].pc = p]
      BY <2>4
    <3>2. jobs' = [jobs EXCEPT ![j] = [pc |-> p, todo |-> jobs[j].todo]]
      BY <3>1, JobGoes DEF AlertsInv
    <3>3. QED
      BY <2>2, <3>2 DEF SchedulerTypes
  <2>5. CASE jobs' = [j \in Jobs |-> With(<<>>)]
    BY <2>5, WithTyped
  <2>6. QED
    BY <2>1, <2>3, <2>4, <2>5 DEF SchedulerTypes
<1>6. QED
  BY <1>2, <1>3, <1>4, <1>5 DEF SchedulerTypes

TypesInv == CountedInv /\ AlertsInv /\ StoreTypeOK /\ SchedulerTypes

\* The table, the runs of the ingestion, the jobs and the alerts are well-typed.
THEOREM TypesAreKept == Spec => [](StoreTypeOK /\ IngestionTypeOK /\ SchedulerTypes)
<1>1. Init => TypesInv
  BY InitCounted, InitAlerts, StoreAssumption
     DEF Init, TypesInv, StoreInit, StoreTypeOK, SchedulerInit, SchedulerTypes
<1>2. TypesInv /\ [Next]_vars => TypesInv'
  <2> SUFFICES ASSUME TypesInv, [Next]_vars PROVE TypesInv'
    OBVIOUS
  <2>1. CountedInv' /\ AlertsInv'
    BY NextCounted, NextAlerts DEF TypesInv
  <2>2. budget' \in [Kinds -> Nat]
    BY Spending DEF Spend, TypesInv, StoreTypeOK
  <2>3. rows' \in [Flights -> Nat]
    BY <2>1 DEF CountedInv, RunsInv
  <2>4. SchedulerTypes'
    <3>1. CASE UNCHANGED alerting
      BY <3>1 DEF alerting, TypesInv, SchedulerTypes
    <3>2. QED
      BY <3>1, SchedulerTyped DEF TypesInv, Next, vars
  <2>5. QED
    BY <2>1, <2>2, <2>3, <2>4 DEF TypesInv, StoreTypeOK
<1>3. TypesInv => StoreTypeOK /\ IngestionTypeOK /\ SchedulerTypes
  BY DEF TypesInv, CountedInv, RunsInv
<1>4. QED
  BY <1>1, <1>2, <1>3, PTL DEF Spec
=============================================================================
