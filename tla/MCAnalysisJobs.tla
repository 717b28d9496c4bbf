--------------------------- MODULE MCAnalysisJobs ---------------------------
(* AnalysisJobs for TLC. *)
EXTENDS AnalysisJobs

CONSTANTS w1, w2

=============================================================================
