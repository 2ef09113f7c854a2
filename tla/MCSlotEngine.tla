---------------------------- MODULE MCSlotEngine ----------------------------
(* A daemon with two slots: an empty mode, two modes that live on the first *)
(* slot and a mode that runs on both.                                       *)
EXTENDS SlotEngine
CONSTANTS a1, a2, unloaded, solo, other, duo

MCHome == [m \in Modes |-> CASE m = unloaded -> {}
                             [] m \in {solo, other} -> {a1}
                             [] m = duo      -> {a1, a2}]
=============================================================================
