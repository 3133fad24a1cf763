------------------------------ MODULE Reports ------------------------------
(* The reports over one store: a risk review, an export and the coverage      *)
(* report, while both lanes write, sessions are purged and rules are judged.  *)
EXTENDS RiskRules, Coverage, Export

reportvars == <<recordvars, riskvars, export>>

ReportsInit == RecordsInit /\ RiskInit /\ export = NoExport

\* One report runs at a time; others read the store and leave no trace in it.
ReportsNext ==
  \/ RecordsNext /\ UNCHANGED <<riskvars, export>>
  \/ export.step = "idle" /\ RiskNext /\ UNCHANGED export
  \/ review.step = "idle" /\ ExportNext /\ UNCHANGED riskvars

ReportsSpec == ReportsInit /\ [][ReportsNext]_reportvars
=============================================================================
