------------------------------ MODULE Placement ------------------------------
(***************************************************************************)
(* Placement and eviction of go/internal/sched: what place() decides from  *)
(* the fit plan, the idle times of the last snapshot and the reservations, *)
(* and how attemptLoad carries it out with evictions that take minutes,    *)
(* while time passes, reservations are edited and other clients of the     *)
(* engine load and unload.                                                 *)
(*                                                                         *)
(* One attempt runs at a time: SchedCore shows that the load token sees to *)
(* that.  Engine operations exclude each other (Manager.opMu).  Times are  *)
(* ticks, counted up to MaxNow.  A view v is everything place() looks at:  *)
(* the host, the clock, the snapshot's idle times, the reservations, and   *)
(* whether the queue of ComfyUI is empty when it is asked.                 *)
(***************************************************************************)
EXTENDS FitPlan

CONSTANTS
  IdleUnload,     \* Config.IdleUnloadS
  Cycle,          \* the time between two cycles of the collector
  SoonSpan,       \* Config.ReservationSoonMin
  ComfyEvictable, \* Config.ComfyEvictable() and a configured seam
  Labels,         \* reservation labels
  Offers,         \* the reservations that may be made under each label
  ClientModels,   \* the models other clients of the engine load
  Targets,        \* the TargetSlot values of requests: slots or None
  Horizons,       \* the patience requests have left
  Unknown,        \* no activity on record
  MaxNow          \* bound on the clock

Reservations == [model: Models, scope: {"bay", "whole_box", "comfyui"},
                 start: Nat, end: Nat]

ASSUME TimesAssumption ==
  /\ IdleUnload \in Nat /\ Cycle \in Nat /\ SoonSpan \in Nat /\ MaxNow \in Nat
  /\ Horizons \subseteq Nat /\ Unknown \notin Nat
  /\ ComfyEvictable \in BOOLEAN
ASSUME OffersAssumption ==
  /\ Offers \in [Labels -> SUBSET Reservations]
  /\ \A l \in Labels : \A r \in Offers[l] : r.start < r.end
  /\ ClientModels \subseteq Models
  /\ Targets \subseteq Slots \cup {None}
  /\ None \notin Reservations
  /\ IsFiniteSet(Labels)              \* they are a map in memory

VARIABLES
  mode,    \* the model in each slot
  load,    \* another client's load in flight, or NoLoad
  comfy,   \* does ComfyUI run?
  idle,    \* the idle time of each slot in the last snapshot, or Unknown
  now,
  res,     \* Core.reservations by label, None where there is none
  pc,      \* where the attempt is
  req,     \* its request and the reservations copied with the token
  plan     \* its placement

hostVars == <<mode, load, comfy>>
vars == <<mode, load, comfy, idle, now, res, pc, req, plan>>

Requests == [model: Models, target: Targets, res: SUBSET Reservations]
(* A placement.  evict maps the slots yet to be evicted to the models they *)
(* were chosen over; since and forced remember when and in which tier.     *)
Plans == [slot: Slots, evict: UNION {[S -> Models \cup {None}] : S \in SUBSET Slots},
          comfy: BOOLEAN, forced: BOOLEAN, since: Nat]

-----------------------------------------------------------------------------
(* What place() looks at.                                                  *)

ComfyHolds == IF comfy THEN ComfyBytes ELSE 0
Host(resident) ==
  [mode |-> mode, load |-> load, comfy |-> ComfyHolds, resident |-> resident]
View(resident, R, empty) ==
  [host |-> Host(resident), now |-> now, idle |-> idle, res |-> R,
   comfyIdle |-> empty]

Active(r, t) == r.start <= t /\ t < r.end
Soon(r, t) == t <= r.start /\ r.start <= t + SoonSpan

Of(v, s) == {r \in v.res : r.model = v.host.mode[s]}
ActiveOf(R, v) == {r \in R : Active(r, v.now)}
SoonOf(R, v) == {r \in R : Soon(r, v.now)}
Forced(v, m) == \E r \in v.res : r.model = m /\ Active(r, v.now)

ActiveEnd(R, v) == Max({r.end : r \in ActiveOf(R, v)})
SoonStart(R, v) == Min({r.start : r \in SoonOf(R, v)})

-----------------------------------------------------------------------------
(* Verdicts: "ok", "retry" or "never" (a terminal refusal).                *)

(* A reservation always has an end, so the case without one cannot occur.  *)
StructuralRefusal(v, horizon, clearsAt) ==
  IF clearsAt - v.now > horizon THEN "never" ELSE "retry"

IdleEligible(v, s) == v.idle[s] # Unknown /\ v.idle[s] >= IdleUnload
IdleRefusalEarly(v, horizon, s) ==                                  \* mutant
  IF v.idle[s] = Unknown THEN "never"
  ELSE IF v.idle[s] >= IdleUnload THEN "ok"
  ELSE IF IdleUnload - v.idle[s] >= horizon THEN "never" ELSE "retry"
IdleHorizonRefusal(v, horizon, s) ==
  IF v.idle[s] = Unknown THEN "never"
  ELSE IF v.idle[s] >= IdleUnload THEN "ok"
  ELSE IF IdleUnload - v.idle[s] > horizon THEN "never" ELSE "retry"

(* May the model of s be evicted for this request?                         *)
SlotVerdictNoSoon(v, forced, horizon, s) ==                         \* mutant
  IF ActiveOf(Of(v, s), v) # {}
    THEN StructuralRefusal(v, horizon, ActiveEnd(Of(v, s), v))
  ELSE IF forced THEN "ok"
  ELSE IdleHorizonRefusal(v, horizon, s)
SlotVerdict(v, forced, horizon, s) ==
  IF ActiveOf(Of(v, s), v) # {}
    THEN StructuralRefusal(v, horizon, ActiveEnd(Of(v, s), v))
  ELSE IF forced THEN "ok"
  ELSE IF IdleHorizonRefusal(v, horizon, s) # "ok"
    THEN IdleHorizonRefusal(v, horizon, s)
  ELSE IF SoonOf(Of(v, s), v) # {}
    THEN StructuralRefusal(v, horizon, SoonStart(Of(v, s), v))
  ELSE "ok"

ComfyVerdict(v, horizon) ==
  LET R == {r \in v.res : r.scope = "comfyui"}
  IN  IF ~ComfyEvictable THEN "never"
      ELSE IF ActiveOf(R, v) # {}
        THEN StructuralRefusal(v, horizon, ActiveEnd(R, v))
      ELSE IF SoonOf(R, v) # {} THEN "never"
      ELSE IF v.comfyIdle THEN "ok" ELSE "retry"

First(h, S) == CHOOSE s \in S : \A u \in S \ {s} : Before(h, s, u)
Lowest(S) == CHOOSE s \in S : \A u \in S : s <= u

Refusal(verdict) ==
  [verdict |-> verdict, slot |-> None, evict |-> {}, comfy |-> FALSE]
Placed(slot, evict, withComfy) ==
  [verdict |-> "ok", slot |-> slot, evict |-> evict, comfy |-> withComfy]

(* The one slot to evict when memory is no issue but every bay is taken:   *)
(* an idle one if there is any, else, in the reservation tier, any slot    *)
(* that is not itself reserved now.  Nothing ranks them but slot order:    *)
(* the fit plan names none, and the engine does not export the footprints  *)
(* under the name the scheduler looks for.                                 *)
PlaceByEvictingOne(v, forced, horizon, withComfy) ==
  LET open == {s \in Loaded(v.host) : SlotVerdict(v, forced, horizon, s) = "ok"}
      eligible == {s \in open : IdleEligible(v, s)}
      choice == IF eligible # {} THEN Lowest(eligible) ELSE Lowest(open)
  IN  IF open = {} THEN Refusal("retry")
      ELSE Placed(choice, {choice}, withComfy)

(* A choice of a bay once memory is settled: memEvict are the evictions    *)
(* that memory asks for, the pinned target excepted.                       *)
PlaceInBay(v, target, forced, horizon, memEvict, withComfy) ==
  IF target # None
    THEN IF target \in FreeBays(v.host) THEN Placed(target, memEvict, withComfy)
         ELSE IF SlotVerdict(v, forced, horizon, target) # "ok"
           THEN Refusal(SlotVerdict(v, forced, horizon, target))
         ELSE Placed(target, memEvict \cup {target}, withComfy)
  ELSE IF FreeBays(v.host) # {}
    THEN Placed(Lowest(FreeBays(v.host)), memEvict, withComfy)
  ELSE IF memEvict # {}
    THEN Placed(First(v.host, memEvict), memEvict, withComfy)
  ELSE PlaceByEvictingOne(v, forced, horizon, withComfy)

(* place(): the first of the memory evictions that is refused decides.     *)
Place(v, m, target, horizon) ==
  LET fit == FitPlan(v.host, m)
      forced == Forced(v, m)
      memEvict == IF fit.fits THEN {} ELSE fit.evict \ {target}
      blocked == {s \in memEvict : SlotVerdict(v, forced, horizon, s) # "ok"}
  IN  IF ~fit.fits /\ fit.evict = {} /\ ~fit.comfy THEN Refusal("never")
      ELSE IF blocked # {}
        THEN Refusal(SlotVerdict(v, forced, horizon, First(v.host, blocked)))
      ELSE IF fit.comfy /\ ComfyVerdict(v, horizon) # "ok"
        THEN Refusal(ComfyVerdict(v, horizon))
      ELSE PlaceInBay(v, target, forced, horizon, memEvict, fit.comfy)

-----------------------------------------------------------------------------
(* A daemon starts over running slots, with no snapshot yet and the        *)
(* reservations of its store.                                              *)
Fits(f, held) ==
  Frees([mode |-> f], {s \in Slots : f[s] # None}) + held <= Total
SingleIn(f) == \A s, u \in Slots : f[s] = f[u] => s = u \/ f[s] = None

Init ==
  /\ comfy \in BOOLEAN
  /\ mode \in [Slots -> Models \cup {None}] /\ SingleIn(mode) /\ Fits(mode, ComfyHolds)
  /\ load = NoLoad
  /\ idle = [s \in Slots |-> Unknown]
  /\ now = 0
  /\ res \in [Labels -> UNION {Offers[l] : l \in Labels} \cup {None}]
  /\ \A l \in Labels : res[l] \in Offers[l] \cup {None}
  /\ pc = "idle"
  /\ req = None
  /\ plan = None

-----------------------------------------------------------------------------
(* attemptLoad.                                                            *)

Found(m, target) == \E s \in Slots : mode[s] = m /\ target \in {s, None}

(* The reservations are copied when the token is taken.                    *)
Attempt(m, target) ==
  /\ pc = "idle" /\ ~Found(m, target)
  /\ pc' = "place"
  /\ req' = [model |-> m, target |-> target,
             res |-> {res[l] : l \in Labels} \ {None}]
  /\ UNCHANGED <<hostVars, idle, now, res, plan>>

EndKept == pc' = "idle" /\ req' = req /\ plan' = None               \* mutant
End == pc' = "idle" /\ req' = None /\ plan' = None

(* How much of a load in flight is resident when memory is probed.         *)
Resident == IF load = NoLoad THEN {0} ELSE {0, Footprint[load.model]}
(* The caller's patience only tells a final refusal from one to retry.     *)
Decision(resident, empty) ==
  Place(View(resident, req.res, empty), req.model, req.target, 0)

(* place() refuses, the memory probe fails, or the model is loaded already *)
(* when the token is held.                                                 *)
PlaceRefuses ==
  /\ pc = "place" /\ End
  /\ UNCHANGED <<hostVars, idle, now, res>>

PlaceSucceeds ==
  /\ pc = "place" /\ ~Found(req.model, req.target)
  /\ pc' = "evict"
  /\ \E resident \in Resident, empty \in BOOLEAN :
       LET d == Decision(resident, empty)
       IN  /\ Used(Host(resident)) <= Total
           /\ d.verdict = "ok"
           /\ plan' = [slot |-> d.slot, comfy |-> d.comfy,
                       evict |-> [s \in d.evict |-> mode[s]],
                       forced |-> \E r \in req.res :
                                    r.model = req.model /\ Active(r, now),
                       since |-> now]
  /\ UNCHANGED <<hostVars, idle, now, res, req>>

(* The evictions, in the order of the plan: a pinned target goes first.    *)
NextEviction ==
  IF req.target \in DOMAIN plan.evict THEN req.target
  ELSE First([mode |-> plan.evict], DOMAIN plan.evict)

EvictOne(s) ==
  /\ pc = "evict" /\ s \in DOMAIN plan.evict /\ s = NextEviction
  /\ load = NoLoad
  /\ mode' = [mode EXCEPT ![s] = None]
  /\ plan' = [plan EXCEPT !.evict = [u \in DOMAIN @ \ {s} |-> @[u]]]
  /\ UNCHANGED <<load, comfy, idle, now, res, pc, req>>

(* A unit that is still deactivating: the earlier evictions stay done.     *)
EvictFails ==
  /\ pc = "evict" /\ DOMAIN plan.evict # {} /\ End
  /\ UNCHANGED <<hostVars, idle, now, res>>

StopComfy ==
  /\ pc = "evict" /\ DOMAIN plan.evict = {} /\ plan.comfy
  /\ comfy' = FALSE
  /\ plan' = [plan EXCEPT !.comfy = FALSE]
  /\ UNCHANGED <<mode, load, idle, now, res, pc, req>>

StopComfyFails ==
  /\ pc = "evict" /\ DOMAIN plan.evict = {} /\ plan.comfy /\ End
  /\ UNCHANGED <<hostVars, idle, now, res>>

(* Engine.Load stops what is in the slot, and fails when the model runs    *)
(* elsewhere or there is no room.                                          *)
Room(f) == SingleIn(f) /\ Fits(f, ComfyHolds)
LoadModel ==
  /\ pc = "evict" /\ DOMAIN plan.evict = {} /\ ~plan.comfy
  /\ load = NoLoad /\ End
  /\ \/ /\ mode' = [mode EXCEPT ![plan.slot] = req.model]
        /\ Room(mode')
     \/ mode' = [mode EXCEPT ![plan.slot] = None]
     \/ UNCHANGED mode
  /\ UNCHANGED <<load, comfy, idle, now, res>>

-----------------------------------------------------------------------------
(* Everything else that happens to what an attempt looks at.               *)

(* Another client of the engine (the profiler, the smith agent).           *)
ClientLoads(s, m) ==
  /\ load = NoLoad /\ \A u \in Slots : mode[u] # m
  /\ mode' = [mode EXCEPT ![s] = None]
  /\ load' = [slot |-> s, model |-> m]
  /\ UNCHANGED <<comfy, idle, now, res, pc, req, plan>>
ClientLoadEnds ==
  /\ load # NoLoad
  /\ \/ /\ mode' = [mode EXCEPT ![load.slot] = load.model]
        /\ Room(mode')
     \/ UNCHANGED mode
  /\ load' = NoLoad
  /\ UNCHANGED <<comfy, idle, now, res, pc, req, plan>>
ClientUnloads(s) ==
  /\ load = NoLoad /\ mode[s] # None
  /\ mode' = [mode EXCEPT ![s] = None]
  /\ UNCHANGED <<load, comfy, idle, now, res, pc, req, plan>>

(* People start and stop ComfyUI.                                          *)
ComfyChanges ==
  /\ comfy' = ~comfy /\ (comfy' => Fits(mode, ComfyBytes))
  /\ UNCHANGED <<mode, load, idle, now, res, pc, req, plan>>

(* A cycle of the collector.  A slot whose unit is not active loses its    *)
(* record; one whose server does not answer keeps it; a new one counts as  *)
(* just used; any other was used or grew older, counted up to IdleUnload.  *)
(* A cycle may be skipped, and one that misses that a slot was emptied and *)
(* filled again leaves the new model the idle time of the old one.         *)
Seen(s) ==
  IF mode[s] = None /\ load.slot # s THEN {Unknown}
  ELSE IF idle[s] = Unknown THEN {Unknown, 0}
  ELSE {0, idle[s], Min({idle[s] + Cycle, IdleUnload})}
Poll ==
  /\ idle' \in [Slots -> 0..IdleUnload \cup {Unknown}]
  /\ \A s \in Slots : idle'[s] \in Seen(s)
  /\ UNCHANGED <<hostVars, now, res, pc, req, plan>>

Tick ==
  /\ now < MaxNow /\ now' = now + 1
  /\ UNCHANGED <<hostVars, idle, res, pc, req, plan>>

(* Who may edit whose reservation is left out: people may edit them all.   *)
CreateReservation(l, r) ==
  /\ res[l] = None
  /\ res' = [res EXCEPT ![l] = r]
  /\ UNCHANGED <<hostVars, idle, now, pc, req, plan>>
UpdateReservation(l, r) ==
  /\ res[l] # None
  /\ res' = [res EXCEPT ![l] = r]
  /\ UNCHANGED <<hostVars, idle, now, pc, req, plan>>
CancelReservation(l) ==
  /\ res[l] # None
  /\ res' = [res EXCEPT ![l] = None]
  /\ UNCHANGED <<hostVars, idle, now, pc, req, plan>>

-----------------------------------------------------------------------------
AttemptSteps ==
  \/ \E m \in Models, t \in Targets : Attempt(m, t)
  \/ PlaceRefuses \/ PlaceSucceeds
  \/ \E s \in Slots : EvictOne(s)
  \/ EvictFails \/ StopComfy \/ StopComfyFails \/ LoadModel
EngineClients ==
  \/ \E s \in Slots, m \in ClientModels : ClientLoads(s, m)
  \/ ClientLoadEnds
  \/ \E s \in Slots : ClientUnloads(s)
ReservationCalls ==
  \E l \in Labels :
    \/ \E r \in Offers[l] : CreateReservation(l, r) \/ UpdateReservation(l, r)
    \/ CancelReservation(l)
Next ==
  \/ AttemptSteps \/ EngineClients \/ ReservationCalls
  \/ ComfyChanges \/ Poll \/ Tick

Spec == Init /\ [][Next]_vars

-----------------------------------------------------------------------------
(* Properties.                                                             *)

(* Every variable has its type; a placement always names a slot.           *)
TypeOK ==
  /\ mode \in [Slots -> Models \cup {None}]
  /\ load \in Loads
  /\ comfy \in BOOLEAN
  /\ idle \in [Slots -> 0..IdleUnload \cup {Unknown}]
  /\ now \in 0..MaxNow
  /\ res \in [Labels -> Reservations \cup {None}]
  /\ pc \in {"idle", "place", "evict"}
  /\ IF pc = "idle" THEN req = None ELSE req \in Requests
  /\ IF pc = "evict" THEN plan \in Plans ELSE plan = None

(* A placement suffices: once its evictions are done and ComfyUI is gone   *)
(* if it says so, its slot is empty and the model fits beside everything   *)
(* that stays and beside the estimate of a load in flight.  (A pinned slot *)
(* may be the one that load is for.)                                       *)
PlanSuffices ==
  [][pc = "place" /\ pc' = "evict" =>
      LET h == Host(0)
          evict == DOMAIN plan'.evict
          stays == Frees(h, Loaded(h) \ evict)
          comfyStays == IF plan'.comfy THEN 0 ELSE ComfyHolds
      IN  /\ plan'.slot \in FreeBays(h) \cup evict \cup {load.slot}
          /\ Need[req.model] + InFlight(h, req.model) + stays + comfyStays
               <= Total]_vars

(* A placement spares what it can: a model that fits evicts at most one    *)
(* slot, and none when a bay is free; without a pinned slot the largest of *)
(* several evictions is always needed; ComfyUI is only stopped when all    *)
(* the slots together would not give enough.                               *)
SparesWhatItCan ==
  [][pc = "place" /\ pc' = "evict" =>
      LET h == Host(0)
          free == EffectiveFree(h, req.model)
          evict == DOMAIN plan'.evict
          largest == CHOOSE s \in evict :
                       \A u \in evict \ {s} : Before(h, u, s)
          fits == Need[req.model] <= free
      IN  load = NoLoad =>
          /\ fits => /\ ~plan'.comfy /\ Cardinality(evict) <= 1
                     /\ req.target = None /\ FreeBays(h) # {} => evict = {}
          /\ ~fits /\ req.target = None /\ evict # {} =>
               free + Frees(h, evict \ {largest}) < Need[req.model]
          /\ plan'.comfy => free + Frees(h, Loaded(h)) < Need[req.model]]_vars

(* A refusal is only final if waiting could not have helped: as long as    *)
(* nobody uses, loads or unloads anything and no reservation is edited, no *)
(* later attempt within the caller's patience would have been placed.      *)
(* Left out are requests whose own reservation opens in that time, and     *)
(* reservations of ComfyUI that are about to open, which refuse for good   *)
(* however short they are.                                                 *)
Later(v, d) ==
  [v EXCEPT !.now = @ + d,
            !.idle = [s \in Slots |-> IF @[s] = Unknown THEN Unknown
                                      ELSE @[s] + d]]
WindowOpens(v, m, horizon) ==
  \E r \in v.res :
    \/ r.model = m /\ v.now < r.start /\ r.start <= v.now + horizon
    \/ r.scope = "comfyui" /\ Soon(r, v.now)
TerminalMeansNever ==
  pc = "idle" /\ load = NoLoad =>
    \A m \in Models, target \in Targets, h \in Horizons :
      LET v == View(0, {res[l] : l \in Labels} \ {None}, TRUE)
      IN  /\ ~Found(m, target) /\ ~WindowOpens(v, m, h)
          /\ Place(v, m, target, h).verdict = "never"
          => \A d \in 1..h : Place(Later(v, d), m, target, h - d).verdict # "ok"

(* No model is evicted in its reserved window, as far as the reservations  *)
(* the attempt has copied tell.  Its protection before the window makes up *)
(* for the time evictions take: what an ordinary request evicts in a       *)
(* window was placed more than SoonSpan ago; what the request of a         *)
(* reserved model evicts in a window was placed before it opened.          *)
ReservedStays ==
  [][\A s \in Slots : EvictOne(s) /\ mode[s] = plan.evict[s] =>
       \A r \in req.res : r.model = mode[s] /\ Active(r, now) =>
         /\ plan.since < r.start
         /\ plan.forced \/ plan.since + SoonSpan < now]_vars
=============================================================================
