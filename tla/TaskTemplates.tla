--------------------------- MODULE TaskTemplates ---------------------------
(***************************************************************************)
(* The task list of a new turnaround: the template of the aircraft type,   *)
(* durations scaled for low visibility, and de-icing put before boarding.  *)
(*                                                                         *)
(* Certifications and equipment are copied from the template unchanged and *)
(* left out.  The factors 0.85, 0.8 and 1.2 are percentages: for these     *)
(* durations floating point and integers round alike.                      *)
(***************************************************************************)
EXTENDS Integers, Sequences, FiniteSets, SequencesExt

Task(name, minutes, order) == [name |-> name, minutes |-> minutes, order |-> order]

WideBodyTasks ==
  << Task("deboarding", 45, 1), Task("fueling", 60, 2), Task("catering", 40, 3),
     Task("cabin_cleaning", 50, 4), Task("cargo_unload", 55, 5),
     Task("cargo_load", 55, 6), Task("boarding", 50, 7) >>

NarrowBodyTasks ==
  << Task("deboarding", 20, 1), Task("fueling", 30, 2), Task("catering", 20, 3),
     Task("cabin_cleaning", 25, 4), Task("boarding", 25, 5) >>

\* Math.round, which takes halves up.
Rounded(minutes, percent) == (minutes * percent + 50) \div 100

ScaleTasks(tasks, percent) ==
  [i \in DOMAIN tasks |->
     [tasks[i] EXCEPT !.minutes = Rounded(@, percent)]]

\* An unknown type falls back to the narrow-body tasks, as B737 has.
TasksForAircraft(type) ==
  CASE type = "A380" -> WideBodyTasks
    [] type = "A350" -> ScaleTasks(WideBodyTasks, 85)
    [] type = "B787" -> ScaleTasks(WideBodyTasks, 80)
    [] OTHER         -> NarrowBodyTasks

IndexOf(tasks, name) == CHOOSE i \in DOMAIN tasks : tasks[i].name = name

\* Array.prototype.sort by order keeps the places of tasks of one order: before a task
\* come those of smaller orders and those of its own that were before it.
Preceding(tasks, i) ==
  {j \in DOMAIN tasks : \/ tasks[j].order < tasks[i].order
                        \/ tasks[j].order = tasks[i].order /\ j < i}

ByOrder(tasks) ==
  [k \in DOMAIN tasks |->
     tasks[CHOOSE i \in DOMAIN tasks : Cardinality(Preceding(tasks, i)) = k - 1]]

\* De-icing takes the order of boarding, boarding the next one.
InjectWithoutShift(tasks, minutes) ==
  ByOrder(Append(tasks, Task("de_icing", minutes,
                             tasks[IndexOf(tasks, "boarding")].order)))

InjectDeIcing(tasks, minutes) ==
  LET boarding == IndexOf(tasks, "boarding")
      shifted == [tasks EXCEPT ![boarding].order = @ + 1]
  IN  ByOrder(Append(shifted, Task("de_icing", minutes, tasks[boarding].order)))

TaskList(type, percent, deIcing, holdover) ==
  LET scaled == ScaleTasks(TasksForAircraft(type), percent)
  IN  IF deIcing THEN InjectDeIcing(scaled, holdover) ELSE scaled

----------------------------------------------------------------------------

Names(tasks) == [i \in DOMAIN tasks |-> tasks[i].name]

\* What a task list must look like, whatever built it: orders number the list, every
\* task takes time, and the names are those of the template, in its order and ending
\* with boarding, with de-icing put before boarding exactly when it is wanted.
SoundTaskList(tasks, type, deIcing) ==
  LET template == Names(TasksForAircraft(type))
  IN  /\ \A i \in DOMAIN tasks : tasks[i].order = i /\ tasks[i].minutes > 0
      /\ Names(tasks) = IF deIcing THEN Front(template) \o <<"de_icing", "boarding">>
                        ELSE Front(template) \o <<"boarding">>

\* The lists of all types, factors and holdovers.
EveryTaskListIsSound ==
  \A type \in {"A380", "A350", "B787", "B737", "unknown"},
     percent \in {100, 120}, deIcing \in BOOLEAN, holdover \in {20, 30, 45} :
    SoundTaskList(TaskList(type, percent, deIcing, holdover), type, deIcing)
=============================================================================
