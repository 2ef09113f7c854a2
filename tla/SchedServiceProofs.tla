-------------------------- MODULE SchedServiceProofs --------------------------
(***************************************************************************)
(* SchedCore implements LoadService, for every set of callers, models and  *)
(* slots: what its callers see is a service that serves one request at a   *)
(* time, fills only empty slots and never reports a model that is not      *)
(* there.                                                                  *)
(***************************************************************************)
EXTENDS SchedCoreProofs

(* What the calls know about themselves: a call on its way out carries its *)
(* answer, one about to give the token back its verdict, and one about to  *)
(* load a slot its caller accepts.                                         *)
Leaving == {"clear", "record", "dequeue", "deleteRow"}
CallsKnow ==
  \A c \in Callers :
     /\ pc[c] \in Leaving => status[c] \in {"loaded", "failed"}
     /\ pc[c] = "release" => plan[c].verdict \in {"loaded", "failed", "retry"}
     /\ pc[c] = "load" => req[c].target \in {plan[c].slot, None}

(* Steps of one call: the others are where they were.                      *)
Others(c) == \A d \in Callers \ {c} :
  pc'[d] = pc[d] /\ status'[d] = status[d] /\ plan'[d] = plan[d] /\ req'[d] = req[d]

(* What one call knows is enough when the others stay.                     *)
LEMMA OthersKnow ==
  ASSUME CallsKnow, NEW c \in Callers, Others(c),
         pc'[c] \in Leaving => status'[c] \in {"loaded", "failed"},
         pc'[c] = "release" => plan'[c].verdict \in {"loaded", "failed", "retry"},
         pc'[c] = "load" => req'[c].target \in {plan'[c].slot, None}
  PROVE  CallsKnow'
BY DEF CallsKnow, Others

(* A verdict is written and nothing else of the plan.                      *)
LEMMA DecideEffect ==
  ASSUME TypeOK, NEW c \in Callers, NEW v, Decide(c, v)
  PROVE  plan'[c].verdict = v /\ \A d \in Callers \ {c} : plan'[d] = plan[d]
BY DEF TypeOK, Decide, Plans

(* Every step keeps the calls' knowledge of themselves.                    *)
LEMMA KnowStep ==
  ASSUME TypeOK, CallsKnow, [Next]_vars
  PROVE  CallsKnow'
<1>1. ASSUME NEW c \in Callers, NEW r \in Requests, CallHit(c, r) \/ CallMiss(c, r)
      PROVE  CallsKnow'
  <2>1. Others(c)
    BY <1>1 DEF CallHit, CallMiss, Goto, Others, TypeOK
  <2>2. \/ pc'[c] = "clear" /\ status'[c] = "loaded"
        \/ pc'[c] = "enqueue"
    BY <1>1 DEF CallHit, CallMiss, Goto, TypeOK
  <2>3. QED  BY <2>1, <2>2, OthersKnow DEF Leaving
<1>2. ASSUME NEW c \in Callers, NEW p \in 1..(Len(queue) + 1), Enqueue(c, p)
      PROVE  CallsKnow'
  <2>1. Others(c) /\ pc'[c] = "poll"
    BY <1>2 DEF Enqueue, Goto, Others, TypeOK
  <2>2. QED  BY <2>1, OthersKnow DEF Leaving
<1>3. ASSUME NEW c \in Callers,
             TimeOut(c) \/ Coalesce(c) \/ StillWaiting(c) \/ TakeToken(c) \/ Sleep(c)
      PROVE  CallsKnow'
  <2>1. Others(c)
    BY <1>3 DEF TimeOut, Coalesce, StillWaiting, TakeToken, Sleep, Goto, Others, TypeOK,
       callVars
  <2>2. \/ pc'[c] \in Leaving /\ status'[c] \in {"loaded", "failed"}
        \/ pc'[c] \in {"turn", "poll", "attempt"}
    BY <1>3 DEF TimeOut, Coalesce, StillWaiting, TakeToken, Sleep, Goto, TypeOK, Leaving
  <2>3. QED  BY <2>1, <2>2, OthersKnow DEF Leaving
<1>4. ASSUME NEW c \in Callers,
             AlreadyLoaded(c) \/ Refuse(c) \/ EvictFails(c) \/ Load(c) \/ LoadFails(c)
      PROVE  CallsKnow'
  <2>1. /\ pc'[c] = "release" /\ req' = req /\ status' = status
        /\ \A d \in Callers \ {c} : pc'[d] = pc[d]
    BY <1>4 DEF AlreadyLoaded, Refuse, EvictFails, Load, LoadFails, Goto, TypeOK
  <2>2. PICK v \in {"loaded", "failed", "retry"} : Decide(c, v)
    BY <1>4 DEF AlreadyLoaded, Refuse, EvictFails, Load, LoadFails
  <2>3. Others(c) /\ plan'[c].verdict = v
    BY <2>1, <2>2, DecideEffect DEF Others
  <2>4. QED  BY <2>1, <2>3, OthersKnow DEF Leaving
<1>5. ASSUME NEW c \in Callers, NEW s \in Slots, NEW E \in SUBSET Slots, Place(c, s, E)
      PROVE  CallsKnow'
  <2>1. Others(c)
    BY <1>5 DEF Place, Goto, Others, TypeOK
  <2>2. pc'[c] = "load" /\ req'[c].target \in {plan'[c].slot, None}
    BY <1>5 DEF Place, Goto, TypeOK, Plans
  <2>3. QED  BY <2>1, <2>2, OthersKnow DEF Leaving
<1>6. ASSUME NEW c \in Callers, NEW e \in Slots, Evict(c, e)
      PROVE  CallsKnow'
  <2>1. Others(c) /\ pc[c] = "load" /\ pc'[c] = "load" /\ req' = req
    BY <1>6 DEF Evict, Others, TypeOK
  <2>2. plan'[c].slot = plan[c].slot
    BY <1>6 DEF Evict, TypeOK, Plans
  <2>3. req[c].target \in {plan[c].slot, None}
    BY <2>1 DEF CallsKnow
  <2>4. QED  BY <2>1, <2>2, <2>3, OthersKnow DEF Leaving
<1>7. ASSUME NEW c \in Callers, Release(c)
      PROVE  CallsKnow'
  <2>1. Others(c)
    BY <1>7 DEF Release, Others, TypeOK
  <2>2. \/ pc'[c] = "poll"
        \/ pc'[c] \in {"clear", "record"} /\ status'[c] \in {"loaded", "failed"}
    BY <1>7 DEF Release, TypeOK
  <2>3. QED  BY <2>1, <2>2, OthersKnow DEF Leaving
<1>8. ASSUME NEW c \in Callers, ClearOutcome(c)
      PROVE  CallsKnow'
  <2>1. Others(c) /\ pc[c] = "clear"
    BY <1>8 DEF ClearOutcome, Forget, Others, TypeOK
  <2>2. pc'[c] = "idle" \/ (pc'[c] = "dequeue" /\ status' = status)
    BY <1>8 DEF ClearOutcome, TypeOK
  <2>3. status[c] \in {"loaded", "failed"}
    BY <2>1 DEF CallsKnow, Leaving
  <2>4. QED  BY <2>1, <2>2, <2>3, OthersKnow DEF Leaving
<1>9. ASSUME NEW c \in Callers, RecordFailure(c) \/ Dequeue(c)
      PROVE  CallsKnow'
  <2>1. /\ Others(c) /\ pc[c] \in {"record", "dequeue"}
        /\ pc'[c] \in {"dequeue", "deleteRow"} /\ status' = status
    BY <1>9 DEF RecordFailure, Dequeue, Goto, Others, TypeOK, callVars
  <2>2. status[c] \in {"loaded", "failed"}
    BY <2>1 DEF CallsKnow, Leaving
  <2>3. QED  BY <2>1, <2>2, OthersKnow DEF Leaving
<1>10. ASSUME NEW c \in Callers, DeleteRow(c)
       PROVE  CallsKnow'
  <2>1. Others(c) /\ pc'[c] = "idle"
    BY <1>10 DEF DeleteRow, Forget, Goto, Others, TypeOK
  <2>2. QED  BY <2>1, OthersKnow DEF Leaving
<1>11. CASE \/ \E S \in SUBSET Slots : Unload(S)
            \/ \E k \in JumpCaps : SetConfig(k)
            \/ UNCHANGED vars
  <2>1. UNCHANGED <<pc, req, status, plan>>
    BY <1>11 DEF Unload, SetConfig, callVars, vars
  <2>2. QED  BY <2>1 DEF CallsKnow
<1>12. CASE Restart
  BY <1>12 DEF Restart, CallsKnow, Leaving
<1>13. QED
  BY <1>1, <1>2, <1>3, <1>4, <1>5, <1>6, <1>7, <1>8, <1>9, <1>10, <1>11, <1>12
  DEF Next, Step

-----------------------------------------------------------------------------
(* The mapping.                                                            *)

phases == [c \in Callers |-> Phase(c)]

(* A step of one call changes the phase of that call only.                 *)
LEMMA PhaseOfOthers ==
  ASSUME NEW c \in Callers, Others(c)
  PROVE  phases' = [phases EXCEPT ![c] = Phase(c)']
<1>1. \A d \in Callers \ {c} : Phase(d)' = Phase(d)
  BY DEF Others, Phase
<1>2. QED  BY <1>1 DEF phases

(* A call whose phase stays leaves the phases alone.                       *)
LEMMA PhaseStays ==
  ASSUME NEW c \in Callers, Others(c), Phase(c)' = Phase(c)
  PROVE  phases' = phases
BY PhaseOfOthers DEF phases

(* The service's Found and Satisfied are the scheduler's.                  *)
LEMMA SatisfiedIsFound == \A r : Service!Satisfied(r) <=> Found(r)
BY DEF Service!Satisfied, Service!Serves, Found

(* A step of one call that changes its phase, seen from the service.       *)
LEMMA PhaseBecomes ==
  ASSUME NEW c \in Callers, NEW from, NEW to, Others(c),
         Phase(c) \in from, Phase(c)' = to
  PROVE  Service!Become(c, from, to)
<1>1. phases' = [phases EXCEPT ![c] = to]
  BY PhaseOfOthers
<1>2. phases[c] \in from
  BY DEF phases
<1>3. QED  BY <1>1, <1>2 DEF Service!Become, phases

(* A step of one call that its caller does not notice.                     *)
LEMMA Unnoticed ==
  ASSUME NEW c \in Callers, Others(c), Phase(c)' = Phase(c), req' = req, mode' = mode
  PROVE  UNCHANGED Service!vars
<1>1. phases' = phases
  BY PhaseStays
<1>2. QED  BY <1>1 DEF Service!vars, phases

(* A call arrives.                                                         *)
LEMMA MapsCall ==
  ASSUME TypeOK, NEW c \in Callers, NEW r \in Requests, CallHit(c, r) \/ CallMiss(c, r)
  PROVE  Service!Next
<1>1. Others(c) /\ req' = [req EXCEPT ![c] = r] /\ mode' = mode
  BY DEF CallHit, CallMiss, Goto, Others, TypeOK
<1>2. Phase(c) = "none"
  BY DEF CallHit, CallMiss, Goto, Phase
<1>3. CASE CallHit(c, r)
  <2>1. Phase(c)' = "loaded" /\ Found(r)
    BY <1>3 DEF CallHit, Goto, Phase, TypeOK
  <2>2. Service!Become(c, {"none"}, "loaded")
    BY <1>1, <1>2, <2>1, PhaseBecomes
  <2>3. Service!Ask(c, r)
    BY <1>1, <2>1, <2>2, SatisfiedIsFound DEF Service!Ask
  <2>4. QED  BY <2>3 DEF Service!Next
<1>4. CASE CallMiss(c, r)
  <2>1. Phase(c)' = "waiting" /\ ~Found(r)
    BY <1>4 DEF CallMiss, Goto, Phase, TypeOK
  <2>2. Service!Become(c, {"none"}, "waiting")
    BY <1>1, <1>2, <2>1, PhaseBecomes
  <2>3. Service!Ask(c, r)
    BY <1>1, <2>1, <2>2, SatisfiedIsFound DEF Service!Ask
  <2>4. QED  BY <2>3 DEF Service!Next
<1>5. QED  BY <1>3, <1>4

(* Enqueueing, a round of the polling loop, the placement, the outcome of  *)
(* a failure and the dequeue are the scheduler's own business.             *)
LEMMA MapsInner ==
  ASSUME TypeOK, CallsKnow, NEW c \in Callers,
         \/ \E p \in 1..(Len(queue) + 1) : Enqueue(c, p)
         \/ StillWaiting(c) \/ Sleep(c)
         \/ \E s \in Slots, E \in SUBSET Slots : Place(c, s, E)
         \/ RecordFailure(c) \/ Dequeue(c)
  PROVE  UNCHANGED Service!vars
<1>1. req' = req /\ mode' = mode
  BY DEF Enqueue, StillWaiting, Sleep, Place, RecordFailure, Dequeue, callVars
<1>2. Others(c)
  BY DEF Enqueue, StillWaiting, Sleep, Place, RecordFailure, Dequeue, callVars, Goto,
     Others, TypeOK
<1>3. \/ pc[c] \in {"enqueue", "poll", "turn"} /\ pc'[c] \in {"poll", "turn"}
      \/ pc[c] = "attempt" /\ pc'[c] = "load"
      \/ pc[c] \in {"record", "dequeue"} /\ pc'[c] \in {"dequeue", "deleteRow"}
         /\ status' = status
  BY DEF Enqueue, StillWaiting, Sleep, Place, RecordFailure, Dequeue, callVars, Goto, TypeOK
<1>4. Phase(c)' = Phase(c)
  BY <1>3 DEF Phase
<1>5. QED  BY <1>1, <1>2, <1>4, Unnoticed

(* The end of a wait: timed out, or somebody else loaded the model.        *)
LEMMA MapsWaitEnds ==
  ASSUME TypeOK, NEW c \in Callers, TimeOut(c) \/ Coalesce(c)
  PROVE  Service!Next
<1>1. Others(c) /\ req' = req /\ mode' = mode
  BY DEF TimeOut, Coalesce, Goto, Others, TypeOK
<1>2. Phase(c) = "waiting"
  BY DEF TimeOut, Coalesce, Goto, Phase
<1>3. CASE TimeOut(c)
  <2>1. Phase(c)' = "failed"
    BY <1>3 DEF TimeOut, Goto, Phase, TypeOK
  <2>2. Service!Become(c, {"waiting", "serving"}, "failed")
    BY <1>1, <1>2, <2>1, PhaseBecomes
  <2>3. QED  BY <1>1, <2>2 DEF Service!GiveUp, Service!Next
<1>4. CASE Coalesce(c)
  <2>1. Phase(c)' = "loaded" /\ Found(req[c])
    BY <1>4 DEF Coalesce, Goto, Phase, TypeOK
  <2>2. Service!Become(c, {"waiting", "serving"}, "loaded")
    BY <1>1, <1>2, <2>1, PhaseBecomes
  <2>3. Service!Found(c)
    BY <1>1, <2>1, <2>2, SatisfiedIsFound DEF Service!Found
  <2>4. QED  BY <2>3 DEF Service!Next
<1>5. QED  BY <1>3, <1>4

(* The token admits one call at a time to the service.                     *)
LEMMA MapsTakeToken ==
  ASSUME TypeOK, OneLoader, NEW c \in Callers, TakeToken(c)
  PROVE  Service!Next
<1>1. Others(c) /\ req' = req /\ mode' = mode
  BY DEF TakeToken, Goto, Others, TypeOK
<1>2. Phase(c) = "waiting" /\ Phase(c)' = "serving"
  BY DEF TakeToken, Goto, Phase, TypeOK
<1>3. \A d \in Callers : pc[d] \notin Holding
  BY DEF OneLoader, TakeToken, MyTurn, Holding, TypeOK
<1>4. ASSUME NEW d \in Callers PROVE phases[d] # "serving"
  <2>1. Phase(d) # "serving"
    BY <1>3 DEF Phase, Holding, TypeOK
  <2>2. QED  BY <2>1 DEF phases
<1>5. Service!Become(c, {"waiting"}, "serving")
  BY <1>1, <1>2, PhaseBecomes
<1>6. Service!Serve(c)
  BY <1>1, <1>4, <1>5 DEF Service!Serve, phases
<1>7. QED  BY <1>6 DEF Service!Next

(* The attempt of the holder ends without moving a model.                  *)
LEMMA MapsAttemptEnds ==
  ASSUME TypeOK, NEW c \in Callers,
         AlreadyLoaded(c) \/ Refuse(c) \/ EvictFails(c) \/ LoadFails(c)
  PROVE  Service!Next
<1>1. /\ req' = req /\ mode' = mode /\ status' = status
      /\ pc[c] \in {"attempt", "load"} /\ pc'[c] = "release"
      /\ \A d \in Callers \ {c} : pc'[d] = pc[d]
  BY DEF AlreadyLoaded, Refuse, EvictFails, LoadFails, Goto, TypeOK
<1>2. PICK v \in {"loaded", "failed", "retry"} :
        Decide(c, v) /\ (v = "loaded" => Found(req[c]))
  BY DEF AlreadyLoaded, Refuse, EvictFails, LoadFails
<1>3. Others(c) /\ plan'[c].verdict = v
  BY <1>1, <1>2, DecideEffect DEF Others
<1>4. Phase(c) = "serving"
  BY <1>1 DEF Phase
<1>5. Phase(c)' = IF v = "retry" THEN "waiting" ELSE v
  BY <1>1, <1>3 DEF Phase
<1>6. CASE v = "loaded"
  <2>1. Service!Become(c, {"waiting", "serving"}, "loaded")
    BY <1>3, <1>4, <1>5, <1>6, PhaseBecomes
  <2>2. Service!Found(c)
    BY <1>1, <1>2, <1>6, <2>1, SatisfiedIsFound DEF Service!Found
  <2>3. QED  BY <2>2 DEF Service!Next
<1>7. CASE v = "failed"
  <2>1. Service!Become(c, {"waiting", "serving"}, "failed")
    BY <1>3, <1>4, <1>5, <1>7, PhaseBecomes
  <2>2. QED  BY <1>1, <2>1 DEF Service!GiveUp, Service!Next
<1>8. CASE v = "retry"
  <2>1. Service!Become(c, {"serving"}, "waiting")
    BY <1>3, <1>4, <1>5, <1>8, PhaseBecomes
  <2>2. QED  BY <1>1, <2>1 DEF Service!GiveUp, Service!Next
<1>9. QED  BY <1>6, <1>7, <1>8

(* An eviction makes room.                                                 *)
LEMMA MapsEvict ==
  ASSUME TypeOK, NEW c \in Callers, NEW e \in Slots, Evict(c, e)
  PROVE  Service!Next
<1>1. /\ Others(c) /\ pc' = pc /\ pc[c] = "load" /\ req' = req
      /\ mode' = [mode EXCEPT ![e] = None]
  BY DEF Evict, Others, TypeOK
<1>2. Phase(c) = "serving" /\ Phase(c)' = "serving"
  BY <1>1 DEF Phase
<1>3. phases' = phases /\ phases[c] = "serving"
  BY <1>1, <1>2, PhaseStays DEF phases
<1>4. Service!Vacate(c, e)
  BY <1>1, <1>3 DEF Service!Vacate, phases
<1>5. QED  BY <1>4 DEF Service!Next

(* A load fills an empty slot its caller accepts, with a model no slot     *)
(* serves.                                                                 *)
LEMMA MapsLoad ==
  ASSUME TypeOK, PlansHold, CallsKnow, NEW c \in Callers, Load(c)
  PROVE  Service!Next
<1> DEFINE s == plan[c].slot
<1>1. /\ pc[c] = "load" /\ pc'[c] = "release" /\ req' = req /\ status' = status
      /\ \A d \in Callers \ {c} : pc'[d] = pc[d]
      /\ mode' = [mode EXCEPT ![s] = req[c].model]
      /\ \A t \in Slots \ {s} : mode[t] # req[c].model
      /\ Decide(c, "loaded")
  BY DEF Load, Goto, TypeOK
<1>2. s \in Slots /\ mode[s] = None /\ req[c].target \in {s, None}
  BY <1>1 DEF PlansHold, CallsKnow, Load
<1>3. req[c].model \in Models
  BY <1>1 DEF TypeOK, Requests
<1>4. \A t \in Slots : mode[t] # req[c].model
  BY <1>1, <1>2, <1>3, ModelsAssumption
<1>5. Others(c) /\ plan'[c].verdict = "loaded"
  BY <1>1, DecideEffect DEF Others
<1>6. Phase(c) = "serving" /\ Phase(c)' = "loaded"
  BY <1>1, <1>5 DEF Phase
<1>7. Service!Become(c, {"serving"}, "loaded")
  BY <1>5, <1>6, PhaseBecomes
<1>8. Service!Fill(c, s)
  BY <1>1, <1>2, <1>4, <1>7 DEF Service!Fill
<1>9. QED  BY <1>2, <1>8 DEF Service!Next

(* Giving the token back with the verdict in the ticket shows the caller   *)
(* what the attempt already decided.                                       *)
LEMMA MapsRelease ==
  ASSUME TypeOK, CallsKnow, NEW c \in Callers, Release(c)
  PROVE  UNCHANGED Service!vars
<1>1. Others(c) /\ req' = req /\ mode' = mode
  BY DEF Release, Others, TypeOK
<1> DEFINE v == plan[c].verdict
<1>2. v \in {"loaded", "failed", "retry"} /\ pc[c] = "release"
  BY DEF Release, CallsKnow
<1>3. /\ pc'[c] = IF v = "loaded" THEN "clear" ELSE IF v = "failed" THEN "record" ELSE "poll"
      /\ status'[c] = IF v = "retry" THEN "queued" ELSE v
  BY <1>2 DEF Release, TypeOK
<1>4. Phase(c)' = Phase(c)
  BY <1>2, <1>3 DEF Phase
<1>5. QED  BY <1>1, <1>4, Unnoticed

(* A call returns with its answer.                                         *)
LEMMA MapsReturn ==
  ASSUME TypeOK, CallsKnow, NEW c \in Callers, ClearOutcome(c) \/ DeleteRow(c)
  PROVE  Service!Next \/ UNCHANGED Service!vars
<1>1. Others(c) /\ mode' = mode /\ pc[c] \in {"clear", "deleteRow"}
  BY DEF ClearOutcome, DeleteRow, Forget, Goto, Others, TypeOK
<1>2. status[c] \in {"loaded", "failed"}
  BY <1>1 DEF CallsKnow, Leaving
<1>3. Phase(c) = status[c]
  BY <1>1 DEF Phase
<1>4. \/ pc'[c] = "idle" /\ req' = [req EXCEPT ![c] = NoRequest]
      \/ pc'[c] = "dequeue" /\ req' = req /\ status' = status
  BY DEF ClearOutcome, DeleteRow, Forget, Goto, TypeOK
<1>5. CASE pc'[c] = "idle" /\ req' = [req EXCEPT ![c] = NoRequest]
  <2>1. Phase(c)' = "none"
    BY <1>5 DEF Phase
  <2>2. Service!Become(c, {"loaded", "failed"}, "none")
    BY <1>1, <1>2, <1>3, <2>1, PhaseBecomes
  <2>3. Service!Return(c)
    BY <1>1, <1>5, <2>2 DEF Service!Return
  <2>4. QED  BY <2>3 DEF Service!Next
<1>6. CASE pc'[c] = "dequeue" /\ req' = req /\ status' = status
  <2>1. Phase(c)' = Phase(c)
    BY <1>3, <1>6 DEF Phase
  <2>2. QED  BY <1>1, <1>6, <2>1, Unnoticed
<1>7. QED  BY <1>4, <1>5, <1>6

(* Operators and restarts.                                                 *)
LEMMA MapsWorld ==
  ASSUME \/ \E S \in SUBSET Slots : Unload(S)
         \/ \E k \in JumpCaps : SetConfig(k)
         \/ Restart
         \/ UNCHANGED vars
  PROVE  Service!Next \/ UNCHANGED Service!vars
<1>1. ASSUME NEW S \in SUBSET Slots, Unload(S)
      PROVE  Service!Next
  <2>1. phases' = phases
    BY <1>1 DEF phases, Phase, Unload, callVars
  <2>2. Service!Unload(S)
    BY <1>1, <2>1 DEF Service!Unload, phases, Unload, callVars
  <2>3. QED  BY <2>2 DEF Service!Next
<1>2. CASE Restart
  <2>1. phases' = [c \in Callers |-> "none"]
    BY <1>2 DEF phases, Phase, Restart
  <2>2. Service!Restart
    BY <1>2, <2>1 DEF Service!Restart, phases, Restart
  <2>3. QED  BY <2>2 DEF Service!Next
<1>3. CASE (\E k \in JumpCaps : SetConfig(k)) \/ UNCHANGED vars
  BY <1>3 DEF SetConfig, callVars, vars, Service!vars, Phase
<1>4. QED  BY <1>1, <1>2, <1>3

(* Every step of the scheduler is a step of the service or is invisible.   *)
LEMMA ServiceStep ==
  ASSUME TypeOK, OneLoader, PlansHold, CallsKnow, [Next]_vars
  PROVE  [Service!Next]_(Service!vars)
<1>1. ASSUME NEW c \in Callers, Step(c)
      PROVE  Service!Next \/ UNCHANGED Service!vars
  <2>1. CASE \/ \E p \in 1..(Len(queue) + 1) : Enqueue(c, p)
             \/ StillWaiting(c) \/ Sleep(c)
             \/ \E s \in Slots, E \in SUBSET Slots : Place(c, s, E)
             \/ RecordFailure(c) \/ Dequeue(c)
    BY <2>1, MapsInner
  <2>2. CASE TimeOut(c) \/ Coalesce(c)
    BY <2>2, MapsWaitEnds
  <2>3. CASE TakeToken(c)
    BY <2>3, MapsTakeToken
  <2>4. CASE AlreadyLoaded(c) \/ Refuse(c) \/ EvictFails(c) \/ LoadFails(c)
    BY <2>4, MapsAttemptEnds
  <2>5. ASSUME NEW e \in Slots, Evict(c, e) PROVE Service!Next
    BY <2>5, MapsEvict
  <2>6. CASE Load(c)
    BY <2>6, MapsLoad
  <2>7. CASE Release(c)
    BY <2>7, MapsRelease
  <2>8. CASE ClearOutcome(c) \/ DeleteRow(c)
    BY <2>8, MapsReturn
  <2>9. QED
    BY <1>1, <2>1, <2>2, <2>3, <2>4, <2>5, <2>6, <2>7, <2>8 DEF Step
<1>2. ASSUME NEW c \in Callers, NEW r \in Requests, CallHit(c, r) \/ CallMiss(c, r)
      PROVE  Service!Next
  BY <1>2, MapsCall
<1>3. QED
  BY <1>1, <1>2, MapsWorld DEF Next

(* The scheduler implements LoadService for every set of callers, models   *)
(* and slots: one request is served at a time, models are only put into    *)
(* empty slots, and no caller is told "loaded" of a model that is not      *)
(* there.                                                                  *)
THEOREM SchedulerRefinesService == Spec => ImplementsLoadService
<1>1. Init => Service!Init
  BY DEF Init, Service!Init, Phase
<1>2. Init => PlansHold /\ CallsKnow
  BY DEF Init, PlansHold, CallsKnow, Leaving
<1>3. TypeOK /\ OneLoader /\ PlansHold /\ CallsKnow /\ [Next]_vars
        => PlansHold' /\ CallsKnow'
  BY PlansStep, KnowStep
<1>4. TypeOK /\ OneLoader /\ PlansHold /\ CallsKnow /\ [Next]_vars
        => [Service!Next]_(Service!vars)
  BY ServiceStep
<1>5. QED
  BY <1>1, <1>2, <1>3, <1>4, TypeCorrect, TokenExclusion, PTL
  DEF Spec, ImplementsLoadService, Service!Spec
=============================================================================
