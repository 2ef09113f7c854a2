----------------------------- MODULE MCPlacement -----------------------------
(* A small, a middling and a large model on two slots: the large one needs *)
(* both slots, and ComfyUI gone if it runs.                                *)
EXTENDS Placement, TLC
CONSTANTS small, middle, large, first, second
MCNeed == small :> 1 @@ middle :> 2 @@ large :> 5
MCFootprint == small :> 1 @@ middle :> 2 @@ large :> 4
R(m, scope, start, end) ==
  [model |-> m, scope |-> scope, start |-> start, end |-> end]
MCOffers == first :> {R(small, "comfyui", 2, 3), R(large, "whole_box", 0, 2)} @@
            second :> {R(small, "bay", 2, 3)}
=============================================================================
