----------------------------- MODULE Milestones -----------------------------
(***************************************************************************)
(* updateMilestones of the Turnaround Service: the A-CDM milestones of one *)
(* turnaround, set by any number of concurrent PATCH requests.             *)
(*                                                                         *)
(* The order of TOBT, TSAT and AOBT is checked against the document as it  *)
(* was read; the fields of the request are then written alone, in one      *)
(* atomic command, and the document that command returns is published.     *)
(* The other milestones are written alike and checked against nothing.     *)
(***************************************************************************)
EXTENDS Integers

CONSTANTS
  Calls,  \* PATCH requests
  Times   \* the times clients send

ASSUME MilestonesAssumption == Times \subseteq Nat \ {0}

VARIABLES
  milestones,  \* the turnaround's milestones
  calls,       \* the local state of each call
  published,   \* the turnaround.milestone.updated events
  overlapped   \* history: two calls have run at the same time

vars == <<milestones, calls, published, overlapped>>

Field == {"tobt", "tsat", "aobt"}

\* Stands for an absent field, of the document and of a request.
Unset == 0

Values == [Field -> Times \cup {Unset}]

Nothing == [f \in Field |-> Unset]

Pc == {"idle", "write", "publish", "done"}

\* seen is the document the call read last.
Call == [pc : Pc, dto : Values, seen : Values]

Event == [milestones : Values, updated : SUBSET Field]

Fields(values) == {f \in Field : values[f] # Unset}

\* The request's fields over those of a document.
Over(dto, values) == [f \in Field |-> IF dto[f] # Unset THEN dto[f] ELSE values[f]]

InOrder(values, f, g) ==
  values[f] # Unset /\ values[g] # Unset => values[f] <= values[g]

Ordered(values) == InOrder(values, "tobt", "tsat") /\ InOrder(values, "tsat", "aobt")

\* What the checks let through.
AcceptsRequest(dto, values) == Ordered(dto)

Accepts(dto, values) == Ordered(Over(dto, values))

Running(c) == calls[c].pc \in {"write", "publish"}

----------------------------------------------------------------------------

Init ==
  /\ milestones = Nothing
  /\ calls = [c \in Calls |-> [pc |-> "idle", dto |-> Nothing, seen |-> Nothing]]
  /\ published = {}
  /\ overlapped = FALSE

\* PATCH /api/turnarounds/{id}/milestones: findById and the checks.
Find(c, dto) ==
  /\ calls[c].pc = "idle"
  /\ calls' = [calls EXCEPT ![c] =
                 [pc |-> IF Accepts(dto, milestones) THEN "write" ELSE "done",
                  dto |-> dto, seen |-> milestones]]
  /\ overlapped' = (overlapped \/ \E d \in Calls : Running(d))
  /\ UNCHANGED <<milestones, published>>

\* repo.updateMilestones
WriteAll(c) ==
  /\ calls[c].pc = "write"
  /\ milestones' = Over(calls[c].dto, calls[c].seen)
  /\ calls' = [calls EXCEPT ![c].pc = "publish", ![c].seen = milestones']
  /\ UNCHANGED <<published, overlapped>>

Write(c) ==
  /\ calls[c].pc = "write"
  /\ milestones' = Over(calls[c].dto, milestones)
  /\ calls' = [calls EXCEPT ![c].pc = "publish", ![c].seen = milestones']
  /\ UNCHANGED <<published, overlapped>>

\* publishMilestoneUpdated; a failure is logged.
Publish(c) ==
  /\ calls[c].pc = "publish"
  /\ \/ published' = published \cup {[milestones |-> calls[c].seen,
                                      updated |-> Fields(calls[c].dto)]}
     \/ UNCHANGED published
  /\ calls' = [calls EXCEPT ![c].pc = "done"]
  /\ UNCHANGED <<milestones, overlapped>>

\* The database fails or the process dies: the call ends.
Fail(c) ==
  /\ Running(c)
  /\ calls' = [calls EXCEPT ![c].pc = "done"]
  /\ UNCHANGED <<milestones, published, overlapped>>

Next ==
  \E c \in Calls :
    \/ \E dto \in Values : Find(c, dto)
    \/ Write(c)
    \/ Publish(c)
    \/ Fail(c)

Spec == Init /\ [][Next]_vars

----------------------------------------------------------------------------

\* Types of the document, the calls and the events; no event is about nothing it
\* says it updated.
TypeOK ==
  /\ milestones \in Values
  /\ calls \in [Calls -> Call]
  /\ published \subseteq {e \in Event : e.updated \subseteq Fields(e.milestones)}
  /\ overlapped \in BOOLEAN

\* The checks are complete for one call at a time: whatever subsets of fields
\* successive requests set, no TSAT is before TOBT and no AOBT before TSAT.
OrderedWhenSerial == ~overlapped => Ordered(milestones)

\* A milestone changes only to what the call that writes it was sent: racing calls
\* do not bring back a value that another one has overwritten.
ChangedByOwnerOnly ==
  [][\A f \in Field :
       milestones'[f] # milestones[f] =>
         \E c \in Calls : /\ calls[c].pc = "write" /\ calls'[c].pc # "write"
                          /\ milestones'[f] = calls[c].dto[f]]_vars
=============================================================================
