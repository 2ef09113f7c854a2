------------------------------- MODULE FitPlan -------------------------------
(***************************************************************************)
(* The memory arithmetic of go/internal/engine/memory.go: the budget of    *)
(* the host and Manager.FitPlan, which tells whether a model fits now and, *)
(* if not, which loaded slots, and whether ComfyUI, would have to go.      *)
(*                                                                         *)
(* A host h is a record of what the probes return: the model in each slot, *)
(* the load in flight (or NoLoad) and how much of it is already resident,  *)
(* and what ComfyUI holds.  Sizes are small numbers instead of bytes.      *)
(***************************************************************************)
EXTENDS Integers, FiniteSets, FiniteSetsExt

CONSTANTS
  Slots,       \* the slots as numbers, in the engine's order
  Models,
  None,        \* no model, no pinned slot
  Need,        \* modeNeedEstimate; more than Total where it cannot be derived
  Footprint,   \* what a loaded model occupies and its eviction gives back
  Total,       \* the memory of the host
  Reserve,     \* the part of it kept for the kernel
  ComfyBytes   \* what ComfyUI holds while it runs

ASSUME SlotsAssumption == Slots \subseteq Nat /\ IsFiniteSet(Slots)
ASSUME NoneAssumption == None \notin Models /\ None \notin Slots
ASSUME SizesAssumption ==
  /\ Need \in [Models -> Nat] /\ Footprint \in [Models -> Nat]
  /\ Total \in Nat /\ Reserve \in Nat /\ ComfyBytes \in Nat

NoLoad == [slot |-> None, model |-> None]
Loads == [slot: Slots, model: Models] \cup {NoLoad}

Loaded(h) == {s \in Slots : h.mode[s] # None}
(* Neither a model nor a load: what FitPlan and place() call free.         *)
FreeBays(h) == {s \in Slots : h.mode[s] = None /\ h.load.slot # s}

Frees(h, S) == MapThenSumSet(LAMBDA s : Footprint[h.mode[s]], S)

(* What is physically taken, and what MemoryBudget calls free: nothing     *)
(* below the reserve, and never a negative number.                         *)
Used(h) == Frees(h, Loaded(h)) + h.resident + h.comfy
FreeBytes(h) ==
  IF Used(h) + Reserve > Total THEN 0 ELSE Total - Reserve - Used(h)

(* A load in flight has its whole estimate set aside.                      *)
InFlight(h, m) == IF h.load.model \in Models \ {m} THEN Need[h.load.model] ELSE 0
EffectiveFreeBlind(h, m) == FreeBytes(h)                            \* mutant
EffectiveFree(h, m) == FreeBytes(h) - InFlight(h, m)

(* The order of eviction: the smallest footprint first, then slot order.   *)
Before(h, s, u) ==
  LET f == Footprint[h.mode[s]]
      g == Footprint[h.mode[u]]
  IN  f < g \/ (f = g /\ s < u)
Smaller(h, s) == {u \in Loaded(h) : Before(h, u, s)}

(* The loop over the candidates: a slot goes while those before it have    *)
(* not given back enough.                                                  *)
EvictionsInclusive(h, m) ==                                        \* mutant
  {s \in Loaded(h) : EffectiveFree(h, m) + Frees(h, Smaller(h, s)) <= Need[m]}
Evictions(h, m) ==
  {s \in Loaded(h) : EffectiveFree(h, m) + Frees(h, Smaller(h, s)) < Need[m]}

FitPlan(h, m) ==
  LET free == EffectiveFree(h, m)
      evict == Evictions(h, m)
      enough == free + Frees(h, evict) >= Need[m]
      withComfy == /\ ~enough /\ h.comfy > 0
                   /\ free + Frees(h, evict) + h.comfy >= Need[m]
  IN  IF Need[m] <= free
        THEN [fits |-> TRUE, evict |-> {}, comfy |-> FALSE]
      ELSE IF enough \/ withComfy
        THEN [fits |-> evict = {} /\ FreeBays(h) # {},
              evict |-> evict, comfy |-> withComfy]
      ELSE [fits |-> FALSE, evict |-> {}, comfy |-> FALSE]
=============================================================================
