-------------------------- MODULE MCReportRouting --------------------------
(* ReportRouting on small instances.                                       *)
EXTENDS ReportRouting, TLC

CONSTANTS kbd, a, b, up

=============================================================================
