-------------------------- MODULE MCReportSchedules --------------------------
(* Up to three requests about schedules with a cron time and an active flag. *)
EXTENDS ReportSchedules, TLC

CONSTANTS r1, r2, r3, t, u

MCDefaults == "active" :> t
Symmetry == Permutations(Requests)
=============================================================================
