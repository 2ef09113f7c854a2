-------------------------- MODULE PlacementProofs ---------------------------
(***************************************************************************)
(* Proofs about Placement for any slots, models, sizes, reservations and   *)
(* spans: its types, and that no model is evicted in a reserved window     *)
(* that could have been known.  What place() computes matters only through *)
(* PlaceIsSound: it names a slot, and every eviction it asks for has the   *)
(* verdict "ok".                                                           *)
(***************************************************************************)
EXTENDS Placement, FitPlanProofs

USE SlotsAssumption, NoneAssumption, SizesAssumption, TimesAssumption,
    OffersAssumption

-----------------------------------------------------------------------------
(* Choices.                                                                *)

(* The lowest of some slots is one of them.                                *)
LEMMA LowestIsIn ==
  ASSUME NEW S \in SUBSET Slots, S # {}
  PROVE  Lowest(S) \in S
<1>1. \E x \in S : \A y \in S : x <= y
  BY LeastNatural
<1> QED
  BY <1>1 DEF Lowest

(* The first of some loaded slots in the order of eviction is one of them. *)
LEMMA FirstIsIn ==
  ASSUME NEW h, h.mode \in [Slots -> Models \cup {None}],
         NEW S \in SUBSET Loaded(h), S # {}
  PROVE  /\ First(h, S) \in S
         /\ \A u \in S \ {First(h, S)} : Before(h, First(h, S), u)
<1>1. \E s \in S : \A u \in S \ {s} : Before(h, s, u)
  BY FirstExists
<1> QED
  BY <1>1 DEF First

-----------------------------------------------------------------------------
(* place().                                                                *)

(* A fit plan only evicts loaded slots.                                    *)
LEMMA FitPlanShape ==
  ASSUME NEW h, NEW m
  PROVE  /\ FitPlan(h, m).evict \subseteq Loaded(h)
         /\ FitPlan(h, m).comfy \in BOOLEAN
<1>1. Evictions(h, m) \subseteq Loaded(h)
  BY DEF Evictions
<1> QED
  BY <1>1 DEF FitPlan

(* A slot is only open to eviction when its model is not reserved now, nor *)
(* soon unless the request is itself for a reserved model.                 *)
LEMMA OpenSlot ==
  ASSUME NEW v, NEW forced, NEW horizon, NEW s,
         SlotVerdict(v, forced, horizon, s) = "ok"
  PROVE  /\ ActiveOf(Of(v, s), v) = {}
         /\ forced \/ SoonOf(Of(v, s), v) = {}
<1>1. \A c : StructuralRefusal(v, horizon, c) # "ok"
  BY DEF StructuralRefusal
<1> QED
  BY <1>1 DEF SlotVerdict

(* What a successful placement p promises.                                 *)
Sound(p, v, forced, horizon) ==
  p.verdict = "ok" =>
    /\ p.slot \in Slots
    /\ p.evict \in SUBSET Slots
    /\ p.comfy \in BOOLEAN
    /\ \A s \in p.evict : SlotVerdict(v, forced, horizon, s) = "ok"

(* A refusal claims nothing.                                               *)
LEMMA RefusalIsSound ==
  ASSUME NEW v, NEW forced, NEW horizon, NEW w, w # "ok"
  PROVE  Sound(Refusal(w), v, forced, horizon)
BY DEF Sound, Refusal

(* A placement is sound if its evictions are open and its slot is a slot.  *)
LEMMA PlacedIsSound ==
  ASSUME NEW v, NEW forced, NEW horizon, NEW slot \in Slots,
         NEW evict \in SUBSET Slots, NEW withComfy \in BOOLEAN,
         \A s \in evict : SlotVerdict(v, forced, horizon, s) = "ok"
  PROVE  Sound(Placed(slot, evict, withComfy), v, forced, horizon)
BY DEF Sound, Placed

(* The one slot evicted to make a bay is open to eviction.                 *)
LEMMA EvictingOneIsSound ==
  ASSUME NEW v, NEW forced, NEW horizon, NEW withComfy \in BOOLEAN
  PROVE  Sound(PlaceByEvictingOne(v, forced, horizon, withComfy), v, forced, horizon)
<1> DEFINE open == {s \in Loaded(v.host) : SlotVerdict(v, forced, horizon, s) = "ok"}
           eligible == {s \in open : IdleEligible(v, s)}
           choice == IF eligible # {} THEN Lowest(eligible) ELSE Lowest(open)
<1>1. open \in SUBSET Slots /\ eligible \in SUBSET open
  BY DEF Loaded
<1>2. CASE open = {}
  BY <1>2, RefusalIsSound DEF PlaceByEvictingOne
<1>3. CASE open # {}
  <2>1. choice \in open
    <3> HIDE DEF open
    <3>1. CASE eligible # {}
      BY <1>1, <3>1, LowestIsIn
    <3>2. CASE eligible = {}
      BY <1>1, <1>3, <3>2, LowestIsIn
    <3> QED
      BY <3>1, <3>2
  <2>2. choice \in Slots /\ SlotVerdict(v, forced, horizon, choice) = "ok"
    BY <2>1, <1>1
  <2>3. PlaceByEvictingOne(v, forced, horizon, withComfy) = Placed(choice, {choice}, withComfy)
    BY <1>3 DEF PlaceByEvictingOne
  <2> HIDE DEF choice
  <2> QED
    BY <2>2, <2>3, PlacedIsSound
<1> QED
  BY <1>2, <1>3

(* Every way to choose a bay adds at most an open slot to the evictions.   *)
LEMMA InBayIsSound ==
  ASSUME NEW v, v.host.mode \in [Slots -> Models \cup {None}],
         NEW target \in Slots \cup {None}, NEW forced, NEW horizon,
         NEW memEvict \in SUBSET Loaded(v.host), NEW withComfy \in BOOLEAN,
         \A s \in memEvict : SlotVerdict(v, forced, horizon, s) = "ok"
  PROVE  Sound(PlaceInBay(v, target, forced, horizon, memEvict, withComfy),
               v, forced, horizon)
<1> DEFINE P == PlaceInBay(v, target, forced, horizon, memEvict, withComfy)
           V == SlotVerdict(v, forced, horizon, target)
<1>1. memEvict \in SUBSET Slots /\ FreeBays(v.host) \in SUBSET Slots
  BY DEF Loaded, FreeBays
<1>2. CASE target # None /\ target \in FreeBays(v.host)
  <2>1. P = Placed(target, memEvict, withComfy)
    BY <1>2 DEF PlaceInBay
  <2> QED
    BY <1>1, <1>2, <2>1, PlacedIsSound
<1>3. CASE target # None /\ target \notin FreeBays(v.host) /\ V # "ok"
  <2>1. P = Refusal(V)
    BY <1>3 DEF PlaceInBay
  <2> QED
    BY <1>3, <2>1, RefusalIsSound
<1>4. CASE target # None /\ target \notin FreeBays(v.host) /\ V = "ok"
  <2>1. P = Placed(target, memEvict \cup {target}, withComfy)
    BY <1>4 DEF PlaceInBay
  <2>2. target \in Slots /\ memEvict \cup {target} \in SUBSET Slots
    BY <1>1, <1>4
  <2>3. \A s \in memEvict \cup {target} : SlotVerdict(v, forced, horizon, s) = "ok"
    BY <1>4
  <2> QED
    BY <2>1, <2>2, <2>3, PlacedIsSound
<1>5. CASE target = None /\ FreeBays(v.host) # {}
  <2>1. P = Placed(Lowest(FreeBays(v.host)), memEvict, withComfy)
    BY <1>5 DEF PlaceInBay
  <2>2. Lowest(FreeBays(v.host)) \in Slots
    BY <1>1, <1>5, LowestIsIn
  <2> QED
    BY <1>1, <2>1, <2>2, PlacedIsSound
<1>6. CASE target = None /\ FreeBays(v.host) = {} /\ memEvict # {}
  <2> DEFINE bay == First(v.host, memEvict)
  <2>1. P = Placed(bay, memEvict, withComfy)
    BY <1>6 DEF PlaceInBay
  <2>2. bay \in Slots
    BY <1>1, <1>6, FirstIsIn
  <2> HIDE DEF bay, P
  <2>3. Sound(P, v, forced, horizon)
    BY <1>1, <2>1, <2>2, PlacedIsSound
  <2> QED
    BY <2>3 DEF P
<1>7. CASE target = None /\ FreeBays(v.host) = {} /\ memEvict = {}
  <2>1. P = PlaceByEvictingOne(v, forced, horizon, withComfy)
    BY <1>7 DEF PlaceInBay
  <2> QED
    BY <2>1, EvictingOneIsSound
<1> QED
  BY <1>2, <1>3, <1>4, <1>5, <1>6, <1>7

(* place() names a slot and only evicts slots that are open to eviction.   *)
LEMMA PlaceIsSound ==
  ASSUME NEW v, v.host.mode \in [Slots -> Models \cup {None}],
         NEW m, NEW target \in Slots \cup {None}, NEW horizon
  PROVE  Sound(Place(v, m, target, horizon), v, Forced(v, m), horizon)
<1> DEFINE fit == FitPlan(v.host, m)
           forced == Forced(v, m)
           memEvict == IF fit.fits THEN {} ELSE fit.evict \ {target}
           blocked == {s \in memEvict : SlotVerdict(v, forced, horizon, s) # "ok"}
           P == Place(v, m, target, horizon)
<1>1. memEvict \in SUBSET Loaded(v.host) /\ fit.comfy \in BOOLEAN
  BY FitPlanShape
<1>2. CASE ~fit.fits /\ fit.evict = {} /\ ~fit.comfy
  BY <1>2, RefusalIsSound DEF Place
<1>3. CASE ~(~fit.fits /\ fit.evict = {} /\ ~fit.comfy) /\ blocked # {}
  <2> DEFINE w == SlotVerdict(v, forced, horizon, First(v.host, blocked))
  <2>1. blocked \in SUBSET Loaded(v.host)
    BY <1>1
  <2>2. First(v.host, blocked) \in blocked
    BY <2>1, <1>3, FirstIsIn
  <2>3. w # "ok"
    BY <2>2
  <2>4. P = Refusal(w)
    BY <1>3 DEF Place
  <2> HIDE DEF w, forced, P
  <2>5. Sound(P, v, forced, horizon)
    BY <2>3, <2>4, RefusalIsSound
  <2> QED
    BY <2>5 DEF P, forced
<1>4. CASE /\ ~(~fit.fits /\ fit.evict = {} /\ ~fit.comfy) /\ blocked = {}
           /\ fit.comfy /\ ComfyVerdict(v, horizon) # "ok"
  <2>1. P = Refusal(ComfyVerdict(v, horizon))
    BY <1>4 DEF Place
  <2> QED
    BY <1>4, <2>1, RefusalIsSound
<1>5. CASE /\ ~(~fit.fits /\ fit.evict = {} /\ ~fit.comfy) /\ blocked = {}
           /\ ~(fit.comfy /\ ComfyVerdict(v, horizon) # "ok")
  <2>1. P = PlaceInBay(v, target, forced, horizon, memEvict, fit.comfy)
    BY <1>5 DEF Place
  <2>2. \A s \in memEvict : SlotVerdict(v, forced, horizon, s) = "ok"
    BY <1>5
  <2> HIDE DEF memEvict, forced, fit, P
  <2>3. Sound(P, v, forced, horizon)
    BY <1>1, <2>1, <2>2, InBayIsSound
  <2> QED
    BY <2>3 DEF P, forced
<1> QED
  BY <1>2, <1>3, <1>4, <1>5

-----------------------------------------------------------------------------
(* What a successful placement consists of.                                *)

(* It carries out a fit plan that does not give up.  Only a pinned target, *)
(* or one slot when memory asks for none, goes beside what memory asks for.*)
Follows(p, h, m, target) ==
  LET fit == FitPlan(h, m)
      memEvict == fit.evict \ {target}
  IN  /\ ~GivesUp(fit)
      /\ p.comfy = fit.comfy
      /\ fit.evict \subseteq p.evict
      /\ p.slot \in FreeBays(h) \cup p.evict
      /\ target # None => p.slot = target
      /\ \/ p.evict = memEvict
         \/ target \in Slots \ FreeBays(h) /\ p.evict = memEvict \cup {target}
         \/ /\ target = None /\ FreeBays(h) = {} /\ fit.evict = {}
            /\ \E s \in Loaded(h) : p.evict = {s}

(* A plan that fits evicts nothing, and has a bay to offer unless memory   *)
(* is free as it is.                                                       *)
LEMMA FitsEvictsNothing ==
  ASSUME NEW h, NEW m
  PROVE  FitPlan(h, m).fits => FitPlan(h, m).evict = {}
BY DEF FitPlan

(* What a placement says.                                                  *)
LEMMA PlacedFields ==
  ASSUME NEW slot, NEW evict, NEW withComfy
  PROVE  /\ Placed(slot, evict, withComfy).slot = slot
         /\ Placed(slot, evict, withComfy).evict = evict
         /\ Placed(slot, evict, withComfy).comfy = withComfy
         /\ Placed(slot, evict, withComfy).verdict = "ok"
BY DEF Placed

(* The choice of a bay.                                                    *)
LEMMA InBayFollows ==
  ASSUME NEW v, v.host.mode \in [Slots -> Models \cup {None}],
         NEW m, NEW target \in Slots \cup {None}, NEW forced, NEW horizon,
         NEW fit, fit = FitPlan(v.host, m), ~GivesUp(fit),
         NEW memEvict, memEvict = fit.evict \ {target},
         NEW P, P = PlaceInBay(v, target, forced, horizon, memEvict, fit.comfy),
         P.verdict = "ok"
  PROVE  Follows(P, v.host, m, target)
<1> DEFINE bays == FreeBays(v.host)
<1>1. /\ bays \in SUBSET Slots /\ memEvict \in SUBSET Loaded(v.host)
      /\ fit.evict \subseteq Loaded(v.host) /\ Loaded(v.host) \subseteq Slots
      /\ bays \cap Loaded(v.host) = {}
  BY FitPlanShape DEF FreeBays, Loaded
<1>2. CASE target # None /\ target \in bays
  <2>1. P = Placed(target, memEvict, fit.comfy)
    BY <1>2 DEF PlaceInBay
  <2>2. fit.evict \subseteq memEvict
    BY <1>1, <1>2
  <2>3. P.slot = target /\ P.evict = memEvict /\ P.comfy = fit.comfy
    BY ONLY <2>1, PlacedFields
  <2> QED
    BY <1>2, <2>2, <2>3 DEF Follows
<1>3. CASE target # None /\ target \notin bays
  <2>1. SlotVerdict(v, forced, horizon, target) = "ok"
    <3>1. \A w : Refusal(w).verdict = w
      BY DEF Refusal
    <3> QED
      BY <1>3, <3>1 DEF PlaceInBay
  <2>2. P = Placed(target, memEvict \cup {target}, fit.comfy)
    BY <1>3, <2>1 DEF PlaceInBay
  <2>3. P.slot = target /\ P.evict = memEvict \cup {target} /\ P.comfy = fit.comfy
    BY ONLY <2>2, PlacedFields
  <2>4. fit.evict \subseteq memEvict \cup {target}
    OBVIOUS
  <2> QED
    BY <1>3, <2>3, <2>4 DEF Follows
<1>4. CASE target = None
  <2>1. memEvict = fit.evict
    BY <1>1, <1>4
  <2>2. CASE bays # {}
    <3>1. P = Placed(Lowest(bays), memEvict, fit.comfy)
      BY <1>4, <2>2 DEF PlaceInBay
    <3>2. Lowest(bays) \in bays
      BY <1>1, <2>2, LowestIsIn
    <3>3. P.slot = Lowest(bays) /\ P.evict = memEvict /\ P.comfy = fit.comfy
      BY ONLY <3>1, PlacedFields
    <3>4. P.slot \in bays \cup P.evict /\ fit.evict \subseteq P.evict
      BY <2>1, <3>2, <3>3
    <3> QED
      BY <1>4, <3>3, <3>4 DEF Follows
  <2>3. CASE bays = {} /\ memEvict # {}
    <3>1. P = Placed(First(v.host, memEvict), memEvict, fit.comfy)
      BY <1>4, <2>3 DEF PlaceInBay
    <3>2. First(v.host, memEvict) \in memEvict
      BY <1>1, <2>3, FirstIsIn
    <3>3. P.slot = First(v.host, memEvict) /\ P.evict = memEvict /\ P.comfy = fit.comfy
      BY ONLY <3>1, PlacedFields
    <3>4. P.slot \in bays \cup P.evict /\ fit.evict \subseteq P.evict
      BY <2>1, <3>2, <3>3
    <3> QED
      BY <1>4, <3>3, <3>4 DEF Follows
  <2>4. CASE bays = {} /\ memEvict = {}
    <3> DEFINE open == {s \in Loaded(v.host) : SlotVerdict(v, forced, horizon, s) = "ok"}
               eligible == {s \in open : IdleEligible(v, s)}
               choice == IF eligible # {} THEN Lowest(eligible) ELSE Lowest(open)
    <3>1. P = PlaceByEvictingOne(v, forced, horizon, fit.comfy)
      BY <1>4, <2>4 DEF PlaceInBay
    <3>2. open # {}
      BY <3>1 DEF PlaceByEvictingOne, Refusal
    <3>3. P = Placed(choice, {choice}, fit.comfy)
      BY <3>1, <3>2 DEF PlaceByEvictingOne
    <3>4. choice \in open
      <4>1. open \in SUBSET Slots /\ eligible \in SUBSET open
        BY <1>1
      <4> HIDE DEF open, eligible
      <4> QED
        BY <3>2, <4>1, LowestIsIn
    <3>5. choice \in Loaded(v.host)
      BY <3>4
    <3> HIDE DEF choice
    <3> QED
      BY <1>4, <2>1, <2>4, <3>3, <3>5 DEF Follows, Placed
  <2> QED
    BY <2>2, <2>3, <2>4
<1> QED
  BY <1>2, <1>3, <1>4

(* place() as a whole: the plan it carries out is the one of the host, and *)
(* ComfyUI may be stopped if the plan says so.                             *)
LEMMA PlaceFollows ==
  ASSUME NEW v, v.host.mode \in [Slots -> Models \cup {None}],
         NEW m, NEW target \in Slots \cup {None}, NEW horizon,
         Place(v, m, target, horizon).verdict = "ok"
  PROVE  /\ Follows(Place(v, m, target, horizon), v.host, m, target)
         /\ FitPlan(v.host, m).comfy => ComfyVerdict(v, horizon) = "ok"
<1> DEFINE fit == FitPlan(v.host, m)
           forced == Forced(v, m)
           memEvict == fit.evict \ {target}
           blocked == {s \in memEvict : SlotVerdict(v, forced, horizon, s) # "ok"}
           P == Place(v, m, target, horizon)
<1>1. memEvict = IF fit.fits THEN {} ELSE fit.evict \ {target}
  BY FitsEvictsNothing
<1>2. \A w : Refusal(w).verdict = w
  BY DEF Refusal
<1>3. ~GivesUp(fit)
  BY DEF Place, GivesUp, Refusal
<1>4. blocked = {}
  <2>1. SUFFICES ASSUME blocked # {} PROVE FALSE
    BY <2>1
  <2>2. First(v.host, blocked) \in blocked
    <3>1. blocked \in SUBSET Loaded(v.host)
      BY FitPlanShape
    <3> HIDE DEF blocked
    <3> QED
      BY <2>1, <3>1, FirstIsIn
  <2>3. P = Refusal(SlotVerdict(v, forced, horizon, First(v.host, blocked)))
    BY <1>1, <1>3, <2>1 DEF Place, GivesUp
  <2> QED
    BY <1>2, <2>2, <2>3
<1>5. ~(fit.comfy /\ ComfyVerdict(v, horizon) # "ok")
  BY <1>1, <1>2, <1>3, <1>4 DEF Place, GivesUp
<1>6. P = PlaceInBay(v, target, forced, horizon, memEvict, fit.comfy)
  BY <1>1, <1>3, <1>4, <1>5 DEF Place, GivesUp
<1>7. P.verdict = "ok" /\ fit = FitPlan(v.host, m) /\ memEvict = fit.evict \ {target}
  OBVIOUS
<1> HIDE DEF P, fit, memEvict, forced
<1>8. Follows(P, v.host, m, target)
  BY <1>3, <1>6, <1>7, InBayFollows
<1> QED
  BY <1>5, <1>8 DEF P, fit

-----------------------------------------------------------------------------
(* The inductive invariant: what an attempt has yet to evict was open to   *)
(* eviction when it was placed.                                            *)

ChosenInTheOpen ==
  pc = "evict" =>
    /\ plan.since <= now
    /\ \A s \in DOMAIN plan.evict : \A r \in req.res :
         r.model = plan.evict[s] =>
           /\ ~Active(r, plan.since)
           /\ plan.forced \/ ~Soon(r, plan.since)
PlacementInv == TypeOK /\ ChosenInTheOpen

(* The types hold at first.                                                *)
LEMMA InitTypes == Init => PlacementInv
<1> SUFFICES ASSUME Init PROVE PlacementInv
  OBVIOUS
<1>1. load \in Loads
  BY DEF Init, Loads
<1>2. res \in [Labels -> Reservations \cup {None}]
  BY DEF Init
<1> QED
  BY <1>1, <1>2 DEF Init, PlacementInv, TypeOK, ChosenInTheOpen

(* A successful placement is one of the plans, and was made in the open.   *)
LEMMA PlaceSucceedsKeeps ==
  ASSUME PlacementInv, PlaceSucceeds
  PROVE  PlacementInv'
<1> USE DEF PlacementInv, TypeOK
<1>1. req \in Requests /\ now \in Nat
  BY DEF PlaceSucceeds
<1>2. PICK resident \in Resident, empty \in BOOLEAN :
        LET d == Decision(resident, empty)
        IN  /\ d.verdict = "ok"
            /\ plan' = [slot |-> d.slot, comfy |-> d.comfy,
                        evict |-> [s \in d.evict |-> mode[s]],
                        forced |-> \E r \in req.res :
                                     r.model = req.model /\ Active(r, now),
                        since |-> now]
  BY DEF PlaceSucceeds
<1> DEFINE v == View(resident, req.res, empty)
           d == Decision(resident, empty)
<1>3. /\ v.host.mode = mode /\ v.res = req.res /\ v.now = now
      /\ req.target \in Slots \cup {None}
  BY <1>1 DEF View, Host, Requests
<1>4. Sound(d, v, Forced(v, req.model), 0)
  BY <1>3, PlaceIsSound DEF Decision
<1>5. plan'.forced = Forced(v, req.model)
  BY <1>2, <1>3 DEF Forced
<1> HIDE DEF v, d
<1>6. /\ d.slot \in Slots /\ d.evict \in SUBSET Slots /\ d.comfy \in BOOLEAN
      /\ \A s \in d.evict : SlotVerdict(v, Forced(v, req.model), 0, s) = "ok"
  BY <1>2, <1>4 DEF Sound, d
<1>7. plan' \in Plans
  <2>1. [s \in d.evict |-> mode[s]] \in [d.evict -> Models \cup {None}]
    BY <1>6
  <2>2. [s \in d.evict |-> mode[s]] \in UNION {[S -> Models \cup {None}] : S \in SUBSET Slots}
    BY <1>6, <2>1
  <2> QED
    BY <1>1, <1>2, <1>6, <2>2 DEF Plans, d
<1>8. TypeOK'
  BY <1>1, <1>7 DEF PlaceSucceeds, hostVars
<1>9. ChosenInTheOpen'
  <2>1. /\ plan'.since = now /\ now' = now /\ req' = req
        /\ DOMAIN plan'.evict = d.evict
        /\ \A s \in d.evict : plan'.evict[s] = mode[s]
    BY <1>2, <1>6 DEF PlaceSucceeds, d
  <2>2. ASSUME NEW s \in d.evict, NEW r \in req.res, r.model = mode[s]
        PROVE  /\ ~Active(r, now)
               /\ plan'.forced \/ ~Soon(r, now)
    <3>1. r \in Of(v, s)
      BY <1>3, <2>2 DEF Of
    <3>2. /\ ActiveOf(Of(v, s), v) = {}
          /\ Forced(v, req.model) \/ SoonOf(Of(v, s), v) = {}
      BY <1>6, OpenSlot
    <3> QED
      BY <3>1, <3>2, <1>3, <1>5 DEF ActiveOf, SoonOf
  <2> QED
    BY <1>1, <2>1, <2>2 DEF ChosenInTheOpen
<1> QED
  BY <1>8, <1>9

(* One eviction leaves a part of the plan.                                 *)
LEMMA EvictOneKeeps ==
  ASSUME PlacementInv, NEW s \in Slots, EvictOne(s)
  PROVE  PlacementInv'
<1> USE DEF PlacementInv, TypeOK
<1>1. plan \in Plans
  BY DEF EvictOne
<1> DEFINE rest == [u \in DOMAIN plan.evict \ {s} |-> plan.evict[u]]
<1>2. PICK S \in SUBSET Slots : plan.evict \in [S -> Models \cup {None}]
  BY <1>1 DEF Plans
<1>3. plan' = [plan EXCEPT !.evict = rest]
  BY DEF EvictOne
<1>4. rest \in UNION {[T -> Models \cup {None}] : T \in SUBSET Slots}
  <2>1. rest \in [S \ {s} -> Models \cup {None}] /\ S \ {s} \in SUBSET Slots
    BY <1>2
  <2> QED
    BY <2>1
<1> HIDE DEF rest
<1>5. /\ plan' \in Plans
      /\ plan'.evict = rest /\ plan'.since = plan.since /\ plan'.forced = plan.forced
  BY <1>1, <1>3, <1>4 DEF Plans
<1>6. TypeOK'
  BY <1>5 DEF EvictOne
<1>7. \A u \in DOMAIN rest : u \in DOMAIN plan.evict /\ rest[u] = plan.evict[u]
  BY DEF rest
<1>8. ChosenInTheOpen'
  BY <1>5, <1>7 DEF ChosenInTheOpen, EvictOne
<1> QED
  BY <1>6, <1>8

(* The other steps of an attempt.                                          *)
LEMMA AttemptKeeps ==
  ASSUME PlacementInv, NEW m \in Models, NEW t \in Targets, Attempt(m, t)
  PROVE  PlacementInv'
<1>1. {res[l] : l \in Labels} \ {None} \in SUBSET Reservations
  BY DEF PlacementInv, TypeOK
<1>2. req' \in Requests
  BY <1>1 DEF Attempt, Requests
<1> QED
  BY <1>2 DEF PlacementInv, TypeOK, ChosenInTheOpen, Attempt, hostVars

(* Stopping ComfyUI keeps the evictions, which are done.                   *)
LEMMA StopComfyKeeps ==
  ASSUME PlacementInv, StopComfy
  PROVE  PlacementInv'
<1>1. /\ plan' \in Plans
      /\ plan'.evict = plan.evict /\ plan'.since = plan.since
      /\ plan'.forced = plan.forced
  BY DEF PlacementInv, TypeOK, StopComfy, Plans
<1>2. TypeOK'
  BY <1>1 DEF PlacementInv, TypeOK, StopComfy
<1>3. ChosenInTheOpen'
  BY <1>1 DEF PlacementInv, ChosenInTheOpen, StopComfy
<1> QED
  BY <1>2, <1>3 DEF PlacementInv

(* The load of the model ends the attempt.                                 *)
LEMMA LoadModelKeeps ==
  ASSUME PlacementInv, LoadModel
  PROVE  PlacementInv'
<1>1. plan.slot \in Slots /\ req.model \in Models
  BY DEF PlacementInv, TypeOK, LoadModel, Plans, Requests
<1> QED
  BY <1>1 DEF PlacementInv, TypeOK, ChosenInTheOpen, LoadModel, End

(* An attempt that ends forgets its request and its plan.                  *)
LEMMA EndKeeps ==
  ASSUME PlacementInv, End, UNCHANGED <<hostVars, idle, now, res>>
  PROVE  PlacementInv'
BY DEF PlacementInv, TypeOK, ChosenInTheOpen, End, hostVars

(* The invariant holds.                                                    *)
LEMMA NextKeeps ==
  ASSUME PlacementInv, [Next]_vars
  PROVE  PlacementInv'
<1>1. ASSUME NEW m \in Models, NEW t \in Targets, Attempt(m, t) PROVE PlacementInv'
  BY <1>1, AttemptKeeps
<1>2. CASE PlaceRefuses
  BY <1>2, EndKeeps DEF PlaceRefuses
<1>3. CASE PlaceSucceeds
  BY <1>3, PlaceSucceedsKeeps
<1>4. ASSUME NEW s \in Slots, EvictOne(s) PROVE PlacementInv'
  BY <1>4, EvictOneKeeps
<1>5. CASE EvictFails
  BY <1>5, EndKeeps DEF EvictFails
<1>6. CASE StopComfy
  BY <1>6, StopComfyKeeps
<1>7. CASE StopComfyFails
  BY <1>7, EndKeeps DEF StopComfyFails
<1>8. CASE LoadModel
  BY <1>8, LoadModelKeeps
<1>9. ASSUME NEW s \in Slots, NEW m \in ClientModels, ClientLoads(s, m)
      PROVE PlacementInv'
  <2>1. load' \in Loads
    BY <1>9 DEF ClientLoads, Loads
  <2> QED
    BY <1>9, <2>1 DEF PlacementInv, TypeOK, ChosenInTheOpen, ClientLoads
<1>10. CASE ClientLoadEnds
  <2>1. load.slot \in Slots /\ load.model \in Models
    BY <1>10 DEF PlacementInv, TypeOK, ClientLoadEnds, Loads
  <2>2. NoLoad \in Loads
    BY DEF Loads
  <2> QED
    BY <1>10, <2>1, <2>2 DEF PlacementInv, TypeOK, ChosenInTheOpen, ClientLoadEnds
<1>11. ASSUME NEW s \in Slots, ClientUnloads(s) PROVE PlacementInv'
  BY <1>11 DEF PlacementInv, TypeOK, ChosenInTheOpen, ClientUnloads
<1>12. ASSUME NEW l \in Labels, NEW r \in Offers[l],
              CreateReservation(l, r) \/ UpdateReservation(l, r)
       PROVE  PlacementInv'
  <2>1. r \in Reservations
    OBVIOUS
  <2> QED
    BY <1>12, <2>1 DEF PlacementInv, TypeOK, ChosenInTheOpen, CreateReservation,
      UpdateReservation, hostVars
<1>13. ASSUME NEW l \in Labels, CancelReservation(l) PROVE PlacementInv'
  BY <1>13 DEF PlacementInv, TypeOK, ChosenInTheOpen, CancelReservation, hostVars
<1>14. CASE ComfyChanges
  BY <1>14 DEF PlacementInv, TypeOK, ChosenInTheOpen, ComfyChanges
<1>15. CASE Poll
  BY <1>15 DEF PlacementInv, TypeOK, ChosenInTheOpen, Poll, hostVars
<1>16. CASE Tick
  <2>1. TypeOK'
    BY <1>16 DEF PlacementInv, TypeOK, Tick, hostVars
  <2>2. pc = "evict" => plan.since \in Nat
    BY DEF PlacementInv, TypeOK, Plans
  <2>3. now \in Nat /\ now' = now + 1
    BY <1>16 DEF PlacementInv, TypeOK, Tick
  <2>4. ChosenInTheOpen'
    BY <1>16, <2>2, <2>3 DEF PlacementInv, ChosenInTheOpen, Tick
  <2> QED
    BY <2>1, <2>4 DEF PlacementInv
<1>17. CASE UNCHANGED vars
  BY <1>17 DEF PlacementInv, TypeOK, ChosenInTheOpen, vars
<1> QED
  BY <1>1, <1>2, <1>3, <1>4, <1>5, <1>6, <1>7, <1>8, <1>9, <1>10, <1>11,
     <1>12, <1>13, <1>14, <1>15, <1>16, <1>17
     DEF Next, AttemptSteps, EngineClients, ReservationCalls

(* Types, together with what makes ReservedStays inductive: every eviction *)
(* a plan still holds was open to eviction at the time of the placement.   *)
THEOREM PlacementInvariant == Spec => []PlacementInv
<1>1. Init => PlacementInv
  BY InitTypes
<1>2. PlacementInv /\ [Next]_vars => PlacementInv'
  BY NextKeeps
<1> QED
  BY <1>1, <1>2, PTL DEF Spec

(* The types of Placement, for every host: in particular place() never     *)
(* succeeds without a slot to load into (sched/place.go).                  *)
THEOREM PlacementTypes == Spec => []TypeOK
<1>1. PlacementInv => TypeOK
  BY DEF PlacementInv
<1> QED
  BY <1>1, PlacementInvariant, PTL

(* No model is evicted in a reserved window the attempt could know of, for *)
(* any number of slots, any reservations and any duration of the evictions *)
(* (attemptLoad and the protections of place()).                           *)
THEOREM ReservedModelsStay == Spec => ReservedStays
<1> DEFINE A == \A s \in Slots : EvictOne(s) /\ mode[s] = plan.evict[s] =>
                  \A r \in req.res : r.model = mode[s] /\ Active(r, now) =>
                    /\ plan.since < r.start
                    /\ plan.forced \/ plan.since + SoonSpan < now
<1>1. PlacementInv => A
  <2> SUFFICES ASSUME PlacementInv, NEW s \in Slots, EvictOne(s),
                      mode[s] = plan.evict[s],
                      NEW r \in req.res, r.model = mode[s], Active(r, now)
               PROVE  /\ plan.since < r.start
                      /\ plan.forced \/ plan.since + SoonSpan < now
    OBVIOUS
  <2>1. /\ plan.since \in Nat /\ now \in Nat
        /\ r.start \in Nat /\ r.end \in Nat
    BY DEF PlacementInv, TypeOK, EvictOne, Plans, Requests, Reservations
  <2>2. /\ plan.since <= now
        /\ ~Active(r, plan.since)
        /\ plan.forced \/ ~Soon(r, plan.since)
    BY DEF PlacementInv, ChosenInTheOpen, EvictOne
  <2>3. plan.since < r.start
    BY <2>1, <2>2 DEF Active
  <2> QED
    BY <2>1, <2>2, <2>3 DEF Active, Soon
<1> HIDE DEF A
<1>2. [][A]_vars => ReservedStays
  BY PTL DEF A, ReservedStays
<1> QED
  BY <1>1, <1>2, PlacementInvariant, PTL

-----------------------------------------------------------------------------
(* What the memory plan of an attempt promises.                            *)

(* Only a successful placement leads from "place" to "evict".              *)
LEMMA OnlyPlaceSucceeds ==
  ASSUME [Next]_vars, pc = "place", pc' = "evict"
  PROVE  PlaceSucceeds
BY DEF Next, AttemptSteps, EngineClients, ReservationCalls, vars, hostVars,
  Attempt, PlaceRefuses, EvictOne, EvictFails, StopComfy, StopComfyFails,
  LoadModel, End, ClientLoads, ClientLoadEnds, ClientUnloads, ComfyChanges,
  Poll, Tick, CreateReservation, UpdateReservation, CancelReservation

(* The host is one, however much of a load is resident when it is probed.  *)
LEMMA HostIsHost ==
  ASSUME TypeOK, NEW resident \in Nat
  PROVE  /\ IsHost(Host(resident))
         /\ Host(resident).mode = mode /\ Host(resident).load = load
         /\ Host(resident).comfy = ComfyHolds /\ Host(resident).resident = resident
<1>1. ComfyHolds \in Nat
  BY DEF ComfyHolds
<1> QED
  BY <1>1 DEF TypeOK, Host, IsHost

(* All that depends on what is resident is what is free.                   *)
LEMMA ResidentMatters ==
  ASSUME TypeOK, NEW resident \in Nat
  PROVE  /\ Loaded(Host(resident)) = Loaded(Host(0))
         /\ FreeBays(Host(resident)) = FreeBays(Host(0))
         /\ \A m : InFlight(Host(resident), m) = InFlight(Host(0), m)
         /\ \A S \in SUBSET Loaded(Host(0)) :
              Frees(Host(resident), S) = Frees(Host(0), S)
<1>1. 0 \in Nat
  OBVIOUS
<1>2. /\ Host(resident).mode = mode /\ Host(0).mode = mode
      /\ Host(resident).load = load /\ Host(0).load = load
  BY ONLY <1>1, TypeOK, resident \in Nat, HostIsHost
<1>3. \A S \in SUBSET Loaded(Host(0)) : IsFiniteSet(S)
  BY <1>2, FS_Subset DEF Loaded
<1>4. \A S \in SUBSET Loaded(Host(0)) : Frees(Host(resident), S) = Frees(Host(0), S)
  BY <1>2, <1>3, FreesByMode
<1> QED
  BY <1>2, <1>4 DEF Loaded, FreeBays, InFlight

(* The placement that PlaceSucceeds adopts, and the host it was made for.  *)
LEMMA PlacementAdopted ==
  ASSUME TypeOK, PlaceSucceeds
  PROVE  /\ req \in Requests
         /\ \E resident \in Nat : \E p :
              /\ load = NoLoad => resident = 0
              /\ Used(Host(resident)) <= Total
              /\ Follows(p, Host(resident), req.model, req.target)
              /\ plan'.slot = p.slot /\ plan'.comfy = p.comfy
              /\ DOMAIN plan'.evict = p.evict
<1>1. req \in Requests
  BY DEF TypeOK, PlaceSucceeds
<1>2. PICK resident \in Resident, empty \in BOOLEAN :
        LET d == Decision(resident, empty)
        IN  /\ Used(Host(resident)) <= Total
            /\ d.verdict = "ok"
            /\ plan' = [slot |-> d.slot, comfy |-> d.comfy,
                        evict |-> [s \in d.evict |-> mode[s]],
                        forced |-> \E r \in req.res :
                                     r.model = req.model /\ Active(r, now),
                        since |-> now]
  BY DEF PlaceSucceeds
<1> DEFINE v == View(resident, req.res, empty)
           p == Decision(resident, empty)
<1>3. resident \in Nat /\ (load = NoLoad => resident = 0)
  BY DEF Resident, TypeOK, Loads
<1>4. v.host = Host(resident) /\ v.host.mode = mode
  BY <1>3, HostIsHost DEF View
<1>5. req.target \in Slots \cup {None}
  BY <1>1 DEF Requests
<1>6. p = Place(v, req.model, req.target, 0)
  BY DEF Decision
<1>7. mode \in [Slots -> Models \cup {None}]
  BY DEF TypeOK
<1>8. /\ p.verdict = "ok" /\ Used(Host(resident)) <= Total
      /\ plan'.slot = p.slot /\ plan'.comfy = p.comfy /\ DOMAIN plan'.evict = p.evict
  BY <1>2
<1> HIDE DEF v, p
<1>9. Follows(p, v.host, req.model, req.target)
  BY <1>4, <1>5, <1>6, <1>7, <1>8, PlaceFollows
<1> QED
  BY <1>1, <1>3, <1>4, <1>8, <1>9

(* A placement suffices, whatever is loaded, whatever is in flight and     *)
(* however much of it is resident (place(), Manager.FitPlan and            *)
(* MemoryBudget together).                                                 *)
THEOREM PlacementsSuffice == Spec => PlanSuffices
<1> DEFINE A == pc = "place" /\ pc' = "evict" =>
                  LET h == Host(0)
                      evict == DOMAIN plan'.evict
                      stays == Frees(h, Loaded(h) \ evict)
                      comfyStays == IF plan'.comfy THEN 0 ELSE ComfyHolds
                  IN  /\ plan'.slot \in FreeBays(h) \cup evict \cup {load.slot}
                      /\ Need[req.model] + InFlight(h, req.model) + stays + comfyStays
                           <= Total
<1>1. TypeOK /\ [Next]_vars => A
  <2> SUFFICES ASSUME TypeOK, [Next]_vars, pc = "place", pc' = "evict" PROVE A
    OBVIOUS
  <2>1. PlaceSucceeds
    BY OnlyPlaceSucceeds
  <2>2. req.model \in Models
    BY <2>1, PlacementAdopted DEF Requests
  <2>3. PICK resident \in Nat : \E p :
          /\ Used(Host(resident)) <= Total
          /\ Follows(p, Host(resident), req.model, req.target)
          /\ plan'.slot = p.slot /\ plan'.comfy = p.comfy
          /\ DOMAIN plan'.evict = p.evict
    BY <2>1, PlacementAdopted
  <2>4. PICK p :
          /\ Used(Host(resident)) <= Total
          /\ Follows(p, Host(resident), req.model, req.target)
          /\ plan'.slot = p.slot /\ plan'.comfy = p.comfy
          /\ DOMAIN plan'.evict = p.evict
    BY <2>3
  <2> DEFINE h == Host(resident)
             fit == FitPlan(h, req.model)
  <2>5. /\ ~GivesUp(fit) /\ fit.evict \subseteq p.evict
        /\ p.comfy = fit.comfy /\ p.slot \in FreeBays(h) \cup p.evict
    BY <2>4 DEF Follows
  <2>6. IsHost(h) /\ h.comfy = ComfyHolds
    BY <2>4, HostIsHost
  <2> HIDE DEF h
  <2>7. Need[req.model] + InFlight(h, req.model) + Frees(h, Loaded(h) \ p.evict)
          + (IF fit.comfy THEN 0 ELSE h.comfy) <= Total
    BY <2>2, <2>4, <2>5, <2>6, EvictedPlanLeavesRoom DEF h
  <2>8. /\ Loaded(h) = Loaded(Host(0)) /\ FreeBays(h) = FreeBays(Host(0))
        /\ InFlight(h, req.model) = InFlight(Host(0), req.model)
        /\ Frees(h, Loaded(h) \ p.evict) = Frees(Host(0), Loaded(Host(0)) \ p.evict)
    BY <2>4, ResidentMatters DEF h
  <2> HIDE DEF fit
  <2> QED
    BY <2>4, <2>5, <2>6, <2>7, <2>8
<1> HIDE DEF A
<1>2. [][A]_vars => PlanSuffices
  BY PTL DEF A, PlanSuffices
<1> QED
  BY <1>1, <1>2, PlacementTypes, PTL DEF Spec

(* What SchedCore lets an attempt's placement be, place() makes it: the     *)
(* model is not where it is asked for; the slot is the pinned one, if one  *)
(* is, and it is free or among the evicted; and all of the evicted are     *)
(* loaded, except for a pinned one that another client is just loading.    *)
MeetsContract ==
  /\ ~Found(req.model, req.target)
  /\ req.target \in {plan'.slot, None}
  /\ \A e \in DOMAIN plan'.evict :
       mode[e] # None \/ (e = req.target /\ e = load.slot)
  /\ mode[plan'.slot] # None => plan'.slot \in DOMAIN plan'.evict

(* The scheduler's placement is an attempt that SchedCore describes         *)
(* (attemptLoad and place()).                                              *)
THEOREM PlacementsMeetContract == Spec => [][PlaceSucceeds => MeetsContract]_vars
<1>1. ASSUME TypeOK, PlaceSucceeds
      PROVE  MeetsContract
  <2>0. PICK resident \in Nat : \E p :
          /\ Follows(p, Host(resident), req.model, req.target)
          /\ plan'.slot = p.slot /\ DOMAIN plan'.evict = p.evict
    BY <1>1, PlacementAdopted
  <2>1. PICK p :
          /\ Follows(p, Host(resident), req.model, req.target)
          /\ plan'.slot = p.slot /\ DOMAIN plan'.evict = p.evict
    BY <2>0
  <2> DEFINE h == Host(resident)
             fit == FitPlan(h, req.model)
  <2>2. /\ FreeBays(h) = {s \in Slots : mode[s] = None /\ load.slot # s}
        /\ Loaded(h) = {s \in Slots : mode[s] # None}
    BY DEF Host, FreeBays, Loaded
  <2>3. fit.evict \subseteq Loaded(h)
    BY DEF FitPlan, Evictions
  <2>4. /\ p.slot \in FreeBays(h) \cup p.evict
        /\ req.target # None => p.slot = req.target
        /\ \/ p.evict = fit.evict \ {req.target}
           \/ /\ req.target \in Slots \ FreeBays(h)
              /\ p.evict = (fit.evict \ {req.target}) \cup {req.target}
           \/ \E s \in Loaded(h) : p.evict = {s}
    BY <2>1 DEF Follows
  <2> HIDE DEF h, fit
  <2>5. \A e \in p.evict : mode[e] # None \/ (e = req.target /\ e = load.slot)
    BY <2>2, <2>3, <2>4
  <2>6. mode[p.slot] # None => p.slot \in p.evict
    BY <2>2, <2>4
  <2>7. ~Found(req.model, req.target)
    BY <1>1 DEF PlaceSucceeds
  <2> QED
    BY <2>1, <2>4, <2>5, <2>6, <2>7 DEF MeetsContract
<1>2. TypeOK /\ [Next]_vars => [PlaceSucceeds => MeetsContract]_vars
  BY <1>1
<1> QED
  BY <1>2, PlacementTypes, PTL DEF Spec

(* What it means to spare what one can.                                    *)
Spares(h, m, target, evict, stops) ==
  LET free == EffectiveFree(h, m)
      largest == CHOOSE s \in evict : \A u \in evict \ {s} : Before(h, u, s)
      fits == Need[m] <= free
  IN  /\ fits => /\ ~stops /\ Cardinality(evict) <= 1
                 /\ target = None /\ FreeBays(h) # {} => evict = {}
      /\ ~fits /\ target = None /\ evict # {} =>
           free + Frees(h, evict \ {largest}) < Need[m]
      /\ stops => free + Frees(h, Loaded(h)) < Need[m]

(* What follows a plan does, by the order of eviction.                     *)
LEMMA FollowingSpares ==
  ASSUME NEW h, IsHost(h), NEW m \in Models, NEW target \in Slots \cup {None},
         NEW p, Follows(p, h, m, target)
  PROVE  Spares(h, m, target, p.evict, p.comfy)
<1> DEFINE free == EffectiveFree(h, m)
           fit == FitPlan(h, m)
           evict == Evictions(h, m)
           largest == CHOOSE s \in p.evict :
                        \A u \in p.evict \ {s} : Before(h, u, s)
<1>1. /\ ~GivesUp(fit) /\ p.comfy = fit.comfy
      /\ \/ p.evict = fit.evict \ {target}
         \/ target # None /\ p.evict = (fit.evict \ {target}) \cup {target}
         \/ /\ target = None /\ FreeBays(h) = {} /\ fit.evict = {}
            /\ \E s \in Loaded(h) : p.evict = {s}
  BY DEF Follows
<1>2. evict \in SUBSET Loaded(h) /\ fit.evict \in {{}, evict} /\ None \notin Loaded(h)
  BY DEF FitPlan, Evictions, Loaded
<1>3. free \in Int /\ Need[m] \in Nat
  BY BudgetTypes
<1>4. ASSUME Need[m] <= free
      PROVE  /\ ~p.comfy /\ Cardinality(p.evict) <= 1
             /\ target = None /\ FreeBays(h) # {} => p.evict = {}
  <2>1. fit.evict = {} /\ ~fit.comfy
    BY <1>4 DEF FitPlan
  <2>2. \/ p.evict = {}
        \/ (target # None \/ FreeBays(h) = {}) /\ \E s : p.evict = {s}
    BY <1>1, <2>1
  <2>3. Cardinality(p.evict) <= 1
    <3>1. CASE p.evict = {}
      BY <3>1, FS_EmptySet
    <3>2. ASSUME NEW s, p.evict = {s} PROVE Cardinality(p.evict) <= 1
      <4>1. Cardinality({s}) = 1
        BY FS_Singleton
      <4> QED
        BY <3>2, <4>1
    <3> QED
      BY <2>2, <3>1, <3>2
  <2> QED
    BY <1>1, <2>1, <2>2, <2>3
<1>5. ASSUME ~(Need[m] <= free), target = None, p.evict # {}
      PROVE  free + Frees(h, p.evict \ {largest}) < Need[m]
  <2>1. CASE p.evict = fit.evict \ {target}
    <3>1. p.evict = evict
      BY <1>2, <1>5, <2>1
    <3>2. \E s \in p.evict : \A u \in p.evict \ {s} : Before(h, u, s)
      BY <1>2, <1>5, <3>1, LastExists DEF IsHost
    <3>3. largest \in p.evict /\ \A u \in p.evict \ {largest} : Before(h, u, largest)
      BY <3>2
    <3> HIDE DEF largest
    <3> QED
      BY <3>1, <3>3, LastIsNeeded
  <2>2. CASE \E s \in Loaded(h) : p.evict = {s}
    <3>1. PICK s : p.evict = {s}
      BY <2>2
    <3>2. largest = s
      BY <3>1
    <3>3. p.evict \ {largest} = {}
      BY <3>1, <3>2
    <3> HIDE DEF largest, free
    <3>4. Frees(h, p.evict \ {largest}) = 0
      BY <3>3, FreesNothing
    <3> QED
      BY <1>3, <1>5, <3>4
  <2> QED
    BY <1>1, <1>5, <2>1, <2>2
<1>6. ASSUME p.comfy PROVE free + Frees(h, Loaded(h)) < Need[m]
  <2>1. ~(free + Frees(h, evict) >= Need[m])
    BY <1>1, <1>6 DEF FitPlan
  <2>2. Frees(h, evict) \in Nat
    BY <1>2, FreesType DEF IsHost
  <2>3. free + Frees(h, evict) < Need[m]
    BY <1>3, <2>1, <2>2
  <2> QED
    BY <2>3, ShortOfEverything
<1> QED
  BY <1>4, <1>5, <1>6 DEF Spares

(* A placement evicts no more than it must, and stops ComfyUI only when    *)
(* all the slots together would not do (place() over Manager.FitPlan).     *)
THEOREM PlacementsSpare == Spec => SparesWhatItCan
<1> DEFINE A == pc = "place" /\ pc' = "evict" =>
                  LET h == Host(0)
                      free == EffectiveFree(h, req.model)
                      evict == DOMAIN plan'.evict
                      largest == CHOOSE s \in evict :
                                   \A u \in evict \ {s} : Before(h, u, s)
                      fits == Need[req.model] <= free
                  IN  load = NoLoad =>
                      /\ fits => /\ ~plan'.comfy /\ Cardinality(evict) <= 1
                                 /\ req.target = None /\ FreeBays(h) # {} => evict = {}
                      /\ ~fits /\ req.target = None /\ evict # {} =>
                           free + Frees(h, evict \ {largest}) < Need[req.model]
                      /\ plan'.comfy => free + Frees(h, Loaded(h)) < Need[req.model]
<1>1. TypeOK /\ [Next]_vars => A
  <2> SUFFICES ASSUME TypeOK, [Next]_vars, pc = "place", pc' = "evict",
                      load = NoLoad
               PROVE  A
    OBVIOUS
  <2>1. PlaceSucceeds
    BY OnlyPlaceSucceeds
  <2>2. req.model \in Models /\ req.target \in Slots \cup {None}
    BY <2>1, PlacementAdopted DEF Requests
  <2>3. PICK p : /\ Follows(p, Host(0), req.model, req.target)
                 /\ plan'.comfy = p.comfy /\ DOMAIN plan'.evict = p.evict
    BY <2>1, PlacementAdopted
  <2>4. IsHost(Host(0))
    BY HostIsHost
  <2>5. Spares(Host(0), req.model, req.target, p.evict, p.comfy)
    BY <2>2, <2>3, <2>4, FollowingSpares
  <2>6. Spares(Host(0), req.model, req.target, DOMAIN plan'.evict, plan'.comfy)
    BY ONLY <2>3, <2>5
  <2> QED
    BY <2>6 DEF Spares
<1> HIDE DEF A
<1>2. [][A]_vars => SparesWhatItCan
  BY PTL DEF A, SparesWhatItCan
<1> QED
  BY <1>1, <1>2, PlacementTypes, PTL DEF Spec

-----------------------------------------------------------------------------
(* A final refusal.                                                        *)

(* The latest end of the open reservations is the end of one of them.      *)
LEMMA ActiveEndIsOne ==
  ASSUME NEW v, NEW R \in SUBSET Reservations, IsFiniteSet(R), ActiveOf(R, v) # {}
  PROVE  \E r \in ActiveOf(R, v) : r.end = ActiveEnd(R, v)
<1> DEFINE S == ActiveOf(R, v)
           f == [r \in S |-> r.end]
           ends == {f[r] : r \in S}
<1>1. S \in SUBSET R /\ IsFiniteSet(S)
  BY FS_Subset DEF ActiveOf
<1>2. \A r \in S : f[r] = r.end /\ r.end \in Nat
  BY <1>1 DEF Reservations
<1>3. IsFiniteSet(ends)
  <2>1. f = [r \in S |-> f[r]]
    OBVIOUS
  <2> HIDE DEF f
  <2> QED
    BY ONLY <1>1, <2>1, FiniteImage
<1>4. ends = {r.end : r \in S}
  BY <1>2
<1>5. ends \subseteq Nat /\ ends # {}
  BY <1>2
<1> HIDE DEF ends, S
<1>6. \E x \in ends : \A y \in ends : y <= x
  BY ONLY <1>3, <1>5, GreatestNatural
<1>7. \E x \in ends : \A y \in ends : x >= y
  BY <1>5, <1>6
<1>8. Max(ends) \in ends
  BY <1>7 DEF Max
<1> QED
  BY <1>4, <1>8 DEF ActiveEnd, S

(* The first start of the reservations to come is not after any of them.   *)
LEMMA SoonStartIsFirst ==
  ASSUME NEW v, NEW R \in SUBSET Reservations, NEW q \in SoonOf(R, v)
  PROVE  SoonStart(R, v) \in Nat /\ SoonStart(R, v) <= q.start
<1> DEFINE starts == {r.start : r \in SoonOf(R, v)}
<1>1. q.start \in starts /\ starts \in SUBSET Nat
  BY DEF SoonOf, Reservations
<1> HIDE DEF starts
<1>2. \E x \in starts : \A y \in starts : x <= y
  BY <1>1, LeastNatural
<1>3. Min(starts) \in starts /\ Min(starts) <= q.start
  BY <1>1, <1>2 DEF Min
<1> QED
  BY <1>1, <1>3 DEF SoonStart, starts

(* The same view d ticks later, all else being equal.                      *)
LaterBy(w, v, d) ==
  /\ w.host = v.host /\ w.res = v.res /\ w.now = v.now + d
  /\ \A s \in Slots : w.idle[s] = IF v.idle[s] = Unknown THEN Unknown
                                  ELSE v.idle[s] + d
IsView(v) ==
  /\ v.now \in Nat /\ v.res \in SUBSET Reservations /\ IsFiniteSet(v.res)
  /\ \A s \in Slots : v.idle[s] \in Nat \cup {Unknown}

(* A reservation that outlasts the patience is open at every later try.    *)
LEMMA OutlastsPatience ==
  ASSUME NEW v, IsView(v), NEW w, NEW horizon \in Nat, NEW d \in 1..horizon,
         w.now = v.now + d, NEW R \in SUBSET v.res, ActiveOf(R, v) # {},
         StructuralRefusal(v, horizon, ActiveEnd(R, v)) = "never"
  PROVE  ActiveOf(R, w) # {}
<1>1. R \in SUBSET Reservations /\ IsFiniteSet(R)
  BY FS_Subset DEF IsView
<1>2. PICK r \in ActiveOf(R, v) : r.end = ActiveEnd(R, v)
  BY <1>1, ActiveEndIsOne
<1>3. /\ r \in R /\ r.start \in Nat /\ r.end \in Nat /\ v.now \in Nat
      /\ r.start <= v.now
  BY <1>1, <1>2 DEF ActiveOf, Active, Reservations, IsView
<1>4. r.end - v.now > horizon
  BY <1>2 DEF StructuralRefusal
<1>5. Active(r, w.now)
  BY <1>3, <1>4 DEF Active
<1> QED
  BY <1>3, <1>5 DEF ActiveOf

(* A slot that is refused for good is refused at every later try.          *)
LEMMA SlotNeverStays ==
  ASSUME NEW v, IsView(v), NEW w, NEW horizon \in Nat, NEW d \in 1..horizon,
         LaterBy(w, v, d), NEW s \in Slots,
         NEW forced, NEW forcedLater, forcedLater => forced,
         SlotVerdict(v, forced, horizon, s) = "never"
  PROVE  SlotVerdict(w, forcedLater, horizon - d, s) # "ok"
<1> DEFINE R == Of(v, s)
<1>1. Of(w, s) = R /\ R \in SUBSET v.res
  BY DEF Of, LaterBy
<1>2. \A u, p, c : StructuralRefusal(u, p, c) # "ok"
  BY DEF StructuralRefusal
<1>3. CASE ActiveOf(R, w) # {}
  BY <1>1, <1>2, <1>3 DEF SlotVerdict
<1>4. CASE ActiveOf(R, w) = {}
  <2>1. ActiveOf(R, v) = {}
    <3>1. SUFFICES ASSUME ActiveOf(R, v) # {} PROVE FALSE
      BY <3>1
    <3>2. StructuralRefusal(v, horizon, ActiveEnd(R, v)) = "never"
      BY <3>1 DEF SlotVerdict
    <3> QED
      BY <1>1, <1>4, <3>1, <3>2, OutlastsPatience DEF LaterBy
  <2>2. ~forced
    BY <2>1 DEF SlotVerdict
  <2>3. CASE IdleHorizonRefusal(v, horizon, s) # "ok"
    <3>1. IdleHorizonRefusal(v, horizon, s) = "never"
      BY <2>1, <2>2, <2>3 DEF SlotVerdict
    <3>2. IdleHorizonRefusal(w, horizon - d, s) # "ok"
      <4>1. CASE v.idle[s] = Unknown
        BY <4>1 DEF IdleHorizonRefusal, LaterBy
      <4>2. CASE v.idle[s] # Unknown
        <5>1. v.idle[s] \in Nat /\ w.idle[s] = v.idle[s] + d
          BY <4>2 DEF IsView, LaterBy
        <5>2. IdleUnload - v.idle[s] > horizon
          BY <3>1, <4>2 DEF IdleHorizonRefusal
        <5>3. w.idle[s] # Unknown /\ ~(w.idle[s] >= IdleUnload)
          BY <5>1, <5>2
        <5> QED
          BY <5>3 DEF IdleHorizonRefusal
      <4> QED
        BY <4>1, <4>2
    <3> QED
      BY <1>1, <1>4, <2>2, <3>2 DEF SlotVerdict
  <2>4. CASE IdleHorizonRefusal(v, horizon, s) = "ok"
    <3>1. /\ SoonOf(R, v) # {}
          /\ StructuralRefusal(v, horizon, SoonStart(R, v)) = "never"
      BY <2>1, <2>2, <2>4 DEF SlotVerdict
    <3>2. PICK r \in SoonOf(R, v) : TRUE
      BY <3>1
    <3>3. /\ r \in R /\ r.start \in Nat /\ v.now \in Nat
          /\ r.start <= v.now + SoonSpan
      BY <1>1, <3>2 DEF SoonOf, Soon, Reservations, IsView
    <3>4. SoonStart(R, v) \in Nat /\ SoonStart(R, v) <= r.start
      <4>1. R \in SUBSET Reservations
        BY <1>1 DEF IsView
      <4> QED
        BY <3>2, <4>1, SoonStartIsFirst
    <3>5. SoonStart(R, v) - v.now > horizon
      BY <3>1 DEF StructuralRefusal
    <3>6. w.now = v.now + d
      BY DEF LaterBy
    <3>7. Soon(r, w.now)
      BY <3>3, <3>4, <3>5, <3>6 DEF Soon
    <3>8. SoonOf(R, w) # {}
      BY <3>3, <3>7 DEF SoonOf
    <3> QED
      BY <1>1, <1>2, <1>4, <2>2, <3>8 DEF SlotVerdict
  <2> QED
    BY <2>3, <2>4
<1> QED
  BY <1>3, <1>4

(* If no window of the model opens while the caller waits, a later try is  *)
(* in the reservation tier only if the first one was.                      *)
LEMMA TierStays ==
  ASSUME NEW v, IsView(v), NEW w, NEW horizon \in Nat, NEW d \in 1..horizon,
         LaterBy(w, v, d), NEW m, ~WindowOpens(v, m, horizon), Forced(w, m)
  PROVE  Forced(v, m)
<1>1. PICK r \in v.res : r.model = m /\ Active(r, w.now)
  BY DEF Forced, LaterBy
<1>2. /\ r.start \in Nat /\ r.end \in Nat /\ v.now \in Nat
      /\ w.now = v.now + d
  BY <1>1 DEF IsView, Reservations, LaterBy
<1>3. ~(v.now < r.start /\ r.start <= v.now + horizon)
  BY <1>1 DEF WindowOpens
<1>4. Active(r, v.now)
  BY <1>1, <1>2, <1>3 DEF Active
<1> QED
  BY <1>1, <1>4 DEF Forced

(* If no window of ComfyUI is about to open, what refuses to stop it for   *)
(* good refuses it at every later try.                                     *)
LEMMA ComfyNeverStays ==
  ASSUME NEW v, IsView(v), NEW w, NEW horizon \in Nat, NEW d \in 1..horizon,
         LaterBy(w, v, d), NEW m, ~WindowOpens(v, m, horizon),
         ComfyVerdict(v, horizon) = "never"
  PROVE  ComfyVerdict(w, horizon - d) # "ok"
<1> DEFINE R == {r \in v.res : r.scope = "comfyui"}
<1>1. R = {r \in w.res : r.scope = "comfyui"} /\ R \in SUBSET v.res
  BY DEF LaterBy
<1>2. \A u, p, c : StructuralRefusal(u, p, c) # "ok"
  BY DEF StructuralRefusal
<1>3. SoonOf(R, v) = {}
  BY DEF WindowOpens, SoonOf
<1>4. CASE ~ComfyEvictable
  BY <1>4 DEF ComfyVerdict
<1>5. CASE ComfyEvictable
  <2>1. /\ ActiveOf(R, v) # {}
        /\ StructuralRefusal(v, horizon, ActiveEnd(R, v)) = "never"
    BY <1>3, <1>5 DEF ComfyVerdict
  <2>2. ActiveOf(R, w) # {}
    BY <1>1, <2>1, OutlastsPatience DEF LaterBy
  <2> QED
    BY <1>1, <1>2, <1>5, <2>2 DEF ComfyVerdict
<1> QED
  BY <1>4, <1>5

(* What a final refusal goes back to.                                      *)
LEMMA NeverBecause ==
  ASSUME NEW v, v.host.mode \in [Slots -> Models \cup {None}],
         NEW m, NEW target \in Slots \cup {None}, NEW horizon,
         Place(v, m, target, horizon).verdict = "never"
  PROVE  LET fit == FitPlan(v.host, m)
             Never(s) == SlotVerdict(v, Forced(v, m), horizon, s) = "never"
         IN  \/ GivesUp(fit)
             \/ \E s \in fit.evict \ {target} : Never(s)
             \/ fit.comfy /\ ComfyVerdict(v, horizon) = "never"
             \/ target # None /\ target \notin FreeBays(v.host) /\ Never(target)
<1> DEFINE fit == FitPlan(v.host, m)
           forced == Forced(v, m)
           memEvict == fit.evict \ {target}
           blocked == {s \in memEvict : SlotVerdict(v, forced, horizon, s) # "ok"}
           P == Place(v, m, target, horizon)
<1>1. memEvict = IF fit.fits THEN {} ELSE fit.evict \ {target}
  BY FitsEvictsNothing
<1>2. \A w : Refusal(w).verdict = w
  BY DEF Refusal
<1>3. CASE GivesUp(fit)
  BY <1>3
<1>4. CASE ~GivesUp(fit) /\ blocked # {}
  <2>1. First(v.host, blocked) \in blocked
    <3>1. blocked \in SUBSET Loaded(v.host)
      BY FitPlanShape
    <3> HIDE DEF blocked
    <3> QED
      BY <1>4, <3>1, FirstIsIn
  <2>2. P = Refusal(SlotVerdict(v, forced, horizon, First(v.host, blocked)))
    BY <1>1, <1>4 DEF Place, GivesUp
  <2>3. SlotVerdict(v, forced, horizon, First(v.host, blocked)) = "never"
    BY <1>2, <2>2
  <2> QED
    BY <2>1, <2>3
<1>5. CASE ~GivesUp(fit) /\ blocked = {} /\ fit.comfy /\ ComfyVerdict(v, horizon) # "ok"
  <2>1. P = Refusal(ComfyVerdict(v, horizon))
    BY <1>1, <1>5 DEF Place, GivesUp
  <2> QED
    BY <1>2, <1>5, <2>1
<1>6. CASE ~GivesUp(fit) /\ blocked = {} /\ ~(fit.comfy /\ ComfyVerdict(v, horizon) # "ok")
  <2>1. P = PlaceInBay(v, target, forced, horizon, memEvict, fit.comfy)
    BY <1>1, <1>6 DEF Place, GivesUp
  <2>2. \A slot, evict, c : Placed(slot, evict, c).verdict = "ok"
    BY PlacedFields
  <2>3. PlaceByEvictingOne(v, forced, horizon, fit.comfy).verdict # "never"
    BY <1>2, <2>2 DEF PlaceByEvictingOne
  <2> HIDE DEF memEvict, fit, forced
  <2>4. /\ target # None /\ target \notin FreeBays(v.host)
        /\ SlotVerdict(v, forced, horizon, target) = "never"
    BY <1>2, <2>1, <2>2, <2>3 DEF PlaceInBay
  <2> QED
    BY <2>4 DEF forced
<1> QED
  BY <1>3, <1>4, <1>5, <1>6

(* As long as the host stays as it is, waiting does not help against a     *)
(* final refusal.                                                          *)
LEMMA NeverStays ==
  ASSUME NEW v, IsView(v), v.host.mode \in [Slots -> Models \cup {None}],
         NEW m, NEW target \in Slots \cup {None},
         NEW horizon \in Nat, NEW d \in 1..horizon,
         NEW w, LaterBy(w, v, d), ~WindowOpens(v, m, horizon),
         Place(v, m, target, horizon).verdict = "never"
  PROVE  Place(w, m, target, horizon - d).verdict # "ok"
<1>1. SUFFICES ASSUME Place(w, m, target, horizon - d).verdict = "ok" PROVE FALSE
  BY <1>1
<1> DEFINE fit == FitPlan(v.host, m)
           P == Place(w, m, target, horizon - d)
           Ok(s) == SlotVerdict(w, Forced(w, m), horizon - d, s) = "ok"
<1>2. w.host = v.host
  BY DEF LaterBy
<1>3. /\ Follows(P, v.host, m, target)
      /\ fit.comfy => ComfyVerdict(w, horizon - d) = "ok"
  BY <1>1, <1>2, PlaceFollows
<1>4. \A s \in P.evict : Ok(s)
  BY <1>1, <1>2, PlaceIsSound DEF Sound
<1> HIDE DEF P, fit
<1>5. /\ ~GivesUp(fit) /\ fit.evict \subseteq P.evict
      /\ target # None /\ target \notin FreeBays(v.host) => target \in P.evict
  BY <1>3 DEF Follows, fit
<1>6. ASSUME NEW s \in Slots, SlotVerdict(v, Forced(v, m), horizon, s) = "never"
      PROVE  ~Ok(s)
  <2>1. Forced(w, m) => Forced(v, m)
    BY TierStays
  <2> QED
    BY <1>6, <2>1, SlotNeverStays
<1>7. ComfyVerdict(v, horizon) = "never" => ComfyVerdict(w, horizon - d) # "ok"
  BY ComfyNeverStays
<1>8. fit.evict \subseteq Slots
  BY FitPlanShape DEF Loaded, fit
<1>9. LET Never(s) == SlotVerdict(v, Forced(v, m), horizon, s) = "never"
      IN  \/ GivesUp(fit)
          \/ \E s \in fit.evict \ {target} : Never(s)
          \/ fit.comfy /\ ComfyVerdict(v, horizon) = "never"
          \/ target # None /\ target \notin FreeBays(v.host) /\ Never(target)
  BY NeverBecause DEF fit
<1> HIDE DEF Ok
<1> QED
  BY <1>3, <1>4, <1>5, <1>6, <1>7, <1>8, <1>9

(* A refusal is only final if waiting could not have helped, whatever the  *)
(* reservations, the idle times and the caller's patience                  *)
(* (structuralRefusal and idleHorizonRefusal of sched/place.go).           *)
THEOREM TerminalRefusals == Spec => []TerminalMeansNever
<1>1. TypeOK => TerminalMeansNever
  <2> SUFFICES ASSUME TypeOK, pc = "idle", load = NoLoad,
                      NEW m \in Models, NEW target \in Targets, NEW h \in Horizons,
                      LET v == View(0, {res[l] : l \in Labels} \ {None}, TRUE)
                      IN  /\ ~WindowOpens(v, m, h)
                          /\ Place(v, m, target, h).verdict = "never",
                      NEW d \in 1..h
               PROVE  LET v == View(0, {res[l] : l \in Labels} \ {None}, TRUE)
                      IN  Place(Later(v, d), m, target, h - d).verdict # "ok"
    BY DEF TerminalMeansNever
  <2> DEFINE R == {res[l] : l \in Labels} \ {None}
             v == View(0, R, TRUE)
             w == Later(v, d)
  <2>1. R \in SUBSET Reservations /\ IsFiniteSet(R)
    <3>1. res = [l \in Labels |-> res[l]]
      BY DEF TypeOK
    <3>2. IsFiniteSet({res[l] : l \in Labels})
      BY <3>1, FiniteImage
    <3> QED
      BY <3>2, FS_Subset DEF TypeOK
  <2> HIDE DEF R
  <2>2. /\ v.host.mode = mode /\ v.now = now /\ v.res = R /\ v.idle = idle
    BY DEF View, Host
  <2>3. IsView(v)
    <3>1. now \in Nat /\ \A s \in Slots : idle[s] \in Nat \cup {Unknown}
      BY DEF TypeOK
    <3> HIDE DEF v
    <3> QED
      BY ONLY <2>1, <2>2, <3>1 DEF IsView
  <2>4. LaterBy(w, v, d)
    BY DEF LaterBy, Later, View
  <2>5. h \in Nat /\ target \in Slots \cup {None} /\ mode \in [Slots -> Models \cup {None}]
    BY DEF TypeOK
  <2> HIDE DEF v, w
  <2>6. Place(w, m, target, h - d).verdict # "ok"
    BY <2>2, <2>3, <2>4, <2>5, NeverStays DEF v, R
  <2> QED
    BY <2>6 DEF v, w, R
<1> QED
  BY <1>1, PlacementTypes, PTL
=============================================================================
