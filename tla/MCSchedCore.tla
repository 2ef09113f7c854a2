----------------------------- MODULE MCSchedCore -----------------------------
(* Model values and symmetry for checking SchedCore.                       *)
EXTENDS SchedCore
CONSTANTS c1, c2, c3, c4, m1, m2, s1, s2

Symmetry == Permutations(Callers) \cup Permutations(Models) \cup Permutations(Slots)
=============================================================================
