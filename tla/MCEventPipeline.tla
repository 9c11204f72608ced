-------------------------- MODULE MCEventPipeline --------------------------
(***************************************************************************)
(* An instance of EventPipeline for TLC.  A behaviour has trouble on the   *)
(* way to the audit log, or users and trouble at the dashboard.            *)
(***************************************************************************)
EXTENDS EventPipeline

CONSTANTS e1, e2, a1

Budget(s, o, f, h, l, r, k, c) ==
  [start |-> s, outage |-> o, flight |-> f, hub |-> h, login |-> l, request |-> r, click |-> k, change |-> c]

MCAccounts == {"admin", "ground_crew"}

MCFollowed == {useEvents("10"), useAlerts("any"), useAssignments}

\* The way to the audit log; the streams of a tab; who is logged in; alerts that are
\* resolved; changes without events; events that a page is left for, and two at once.
MCBudgets ==
  { Budget(1, 2, 1, 1, 0, 1, 0, 0),
    Budget(1, 1, 0, 1, 0, 2, 0, 0),
    Budget(1, 0, 0, 3, 0, 2, 0, 0),
    Budget(0, 0, 0, 1, 2, 0, 0, 0),
    Budget(0, 0, 0, 0, 3, 0, 0, 0),
    Budget(0, 0, 0, 0, 1, 0, 3, 0),
    Budget(0, 0, 0, 0, 1, 0, 1, 1),
    Budget(0, 0, 0, 0, 1, 1, 1, 0),
    Budget(0, 0, 0, 0, 1, 2, 0, 0) }
=============================================================================
