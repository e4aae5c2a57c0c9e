---------------------------- MODULE MCReportRuns ----------------------------
(* Instances of ReportRuns for TLC. *)
EXTENDS ReportRuns
=============================================================================
