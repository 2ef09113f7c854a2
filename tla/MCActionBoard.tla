--------------------------- MODULE MCActionBoard ---------------------------
(* Instances of ActionBoard. *)
EXTENDS ActionBoard
CONSTANTS o1, loop, hook, review, k1, k2, storm

=============================================================================
