----------------------------- MODULE Monitoring -----------------------------
(***************************************************************************)
(* The flights that the Data Ingestion Service brings into the Flight      *)
(* Service, the Ops Hub that watches them and their turnarounds, and the   *)
(* pages of the dashboard that show what such services answer.             *)
(***************************************************************************)
EXTENDS FlightIngestion, AlertScheduler, StandPlan, Pages

vars == <<rows, budget, ingestion, alerting, plan, pages>>

TypeOK ==
  /\ StoreTypeOK
  /\ IngestionTypeOK
  /\ SchedulerTypeOK

Init ==
  /\ StoreInit
  /\ IngestionInit
  /\ SchedulerInit
  /\ PlanInit
  /\ PagesInit

Next ==
  \/ IngestionNext /\ UNCHANGED <<alerting, plan, pages>>
  \/ SchedulerNext /\ UNCHANGED <<ingestion, plan, pages>>
  \/ OccupancyArrives /\ UNCHANGED <<ingestion, alerting, pages>>
  \/ PagesNext /\ UNCHANGED <<ingestion, alerting, plan>>

Spec == Init /\ [][Next]_vars
=============================================================================
