--------------------------- MODULE MCProcedureRuns ---------------------------
(* Model values for checking ProcedureRuns.                                *)
EXTENDS ProcedureRuns
CONSTANTS a1, a2, w1, w2, l1, l2, l3, l4, l5
=============================================================================
