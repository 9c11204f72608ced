--------------------------- MODULE EventDelivery ---------------------------
(***************************************************************************)
(* What publishing an event promises: the broker keeps it until it has     *)
(* been logged, once or several times, or logging it has failed; an event  *)
(* that is not kept is never logged.  A publish may also lose its event,   *)
(* and then the event never arrives.                                       *)
(***************************************************************************)
EXTENDS Naturals

CONSTANT Events

VARIABLES
  published,  \* events whose publish returned no error
  kept,       \* those the broker has to deliver, or to deliver again
  rows,       \* rows of each event in the log
  lost        \* events that were lost by their publish, or failed to be logged

vars == <<published, kept, rows, lost>>

Init ==
  /\ published = {}
  /\ kept = {}
  /\ rows = [e \in Events |-> 0]
  /\ lost = {}

Publish(e) ==
  /\ e \notin published
  /\ published' = published \cup {e}
  /\ kept' = kept \cup {e}
  /\ UNCHANGED <<rows, lost>>

PublishToNobody(e) ==
  /\ e \notin published
  /\ published' = published \cup {e}
  /\ lost' = lost \cup {e}
  /\ UNCHANGED <<kept, rows>>

Log(e) ==
  /\ e \in kept
  /\ rows' = [rows EXCEPT ![e] = @ + 1]
  /\ UNCHANGED <<published, kept, lost>>

FailToLog(e) ==
  /\ e \in kept
  /\ lost' = lost \cup {e}
  /\ UNCHANGED <<published, kept, rows>>

Release(e) ==
  /\ e \in kept
  /\ rows[e] > 0 \/ e \in lost
  /\ kept' = kept \ {e}
  /\ UNCHANGED <<published, rows, lost>>

Next ==
  \E e \in Events :
    \/ Publish(e) \/ PublishToNobody(e)
    \/ Log(e) \/ FailToLog(e) \/ Release(e)

Spec == Init /\ [][Next]_vars
=============================================================================
