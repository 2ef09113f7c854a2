----------------------------- MODULE LoadService -----------------------------
(***************************************************************************)
(* What Core.EnsureLoaded promises its callers, with neither queue nor     *)
(* token nor placement: requests are served one at a time, only a served   *)
(* request moves models, a model is put into an empty slot the caller      *)
(* accepts, and nobody is told "loaded" unless the model is there at that  *)
(* moment.  SchedCore implements it.                                       *)
(***************************************************************************)
CONSTANTS Callers, Slots, Requests, NoRequest, None

VARIABLES
  phase,   \* none, waiting, serving, loaded or failed
  want,    \* the request of each caller
  occ      \* the model each slot serves

vars == <<phase, want, occ>>

Serves(s, r) == occ[s] = r.model /\ r.target \in {s, None}
Satisfied(r) == \E s \in Slots : Serves(s, r)

Init ==
  /\ phase = [c \in Callers |-> "none"]
  /\ want = [c \in Callers |-> NoRequest]
  /\ occ = [s \in Slots |-> None]

Become(c, from, to) == phase[c] \in from /\ phase' = [phase EXCEPT ![c] = to]

Ask(c, r) ==
  /\ \/ Become(c, {"none"}, "waiting") /\ ~Satisfied(r)
     \/ Become(c, {"none"}, "loaded") /\ Satisfied(r)
  /\ want' = [want EXCEPT ![c] = r]
  /\ UNCHANGED occ

Serve(c) ==
  /\ \A d \in Callers : phase[d] # "serving"
  /\ Become(c, {"waiting"}, "serving")
  /\ UNCHANGED <<want, occ>>

Found(c) ==
  /\ Become(c, {"waiting", "serving"}, "loaded")
  /\ Satisfied(want[c])
  /\ UNCHANGED <<want, occ>>

(* A served request makes room, fills an empty slot, or gives up.          *)
Vacate(c, s) ==
  /\ phase[c] = "serving"
  /\ occ' = [occ EXCEPT ![s] = None]
  /\ UNCHANGED <<phase, want>>

Fill(c, s) ==
  /\ Become(c, {"serving"}, "loaded")
  /\ occ[s] = None /\ want[c].target \in {s, None}
  /\ \A t \in Slots : occ[t] # want[c].model
  /\ occ' = [occ EXCEPT ![s] = want[c].model]
  /\ UNCHANGED want

GiveUp(c) ==
  /\ \/ Become(c, {"serving"}, "waiting")
     \/ Become(c, {"waiting", "serving"}, "failed")
  /\ UNCHANGED <<want, occ>>

Return(c) ==
  /\ Become(c, {"loaded", "failed"}, "none")
  /\ want' = [want EXCEPT ![c] = NoRequest]
  /\ UNCHANGED occ

(* Operators unload when they like; a restart drops every caller.          *)
Unload(S) ==
  /\ occ' = [s \in Slots |-> IF s \in S THEN None ELSE occ[s]]
  /\ UNCHANGED <<phase, want>>

Restart ==
  /\ phase' = [c \in Callers |-> "none"]
  /\ want' = [c \in Callers |-> NoRequest]
  /\ UNCHANGED occ

Next ==
  \/ \E c \in Callers : Serve(c) \/ Found(c) \/ GiveUp(c) \/ Return(c)
  \/ \E c \in Callers, r \in Requests : Ask(c, r)
  \/ \E c \in Callers, s \in Slots : Vacate(c, s) \/ Fill(c, s)
  \/ \E S \in SUBSET Slots : Unload(S)
  \/ Restart

Spec == Init /\ [][Next]_vars
=============================================================================
