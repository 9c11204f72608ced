---------------------------- MODULE MCTurnaround ----------------------------
(***************************************************************************)
(* Instances of Turnaround for TLC.                                        *)
(***************************************************************************)
EXTENDS Turnaround, TLC

CONSTANTS t1, t2, r1, r2, r3, c1

\* Clients that start, complete, skip or reopen a task.
ClientDtos ==
  [task : Tasks, status : {"in_progress", "completed", "skipped"}, crew : {None}]

\* The crew.assigned consumer, and a call with a task id of another turnaround.
OtherDtos ==
  {[task |-> t, status |-> None, crew |-> c1] : t \in Tasks}
    \cup {[task |-> Unknown, status |-> "completed", crew |-> None]}

AllDtos == ClientDtos \cup OtherDtos

\* Clients that only complete tasks, beside the consumer.
ForwardDtos == {d \in AllDtos : d.status \in {"completed", None}}

Symmetry == Permutations(Requests) \cup Permutations(Tasks)
=============================================================================
