--------------------------- MODULE SlotEngineProofs ---------------------------
(***************************************************************************)
(* Proofs about SlotEngine for any modes, slots and placement of services. *)
(* The inductive invariant says what an operation has learnt of the units  *)
(* by the time it acts on them: nobody but the holder of opMu starts a     *)
(* unit that is gone or stops one that runs.                               *)
(***************************************************************************)
EXTENDS SlotEngine, FiniteSetTheorems, TLAPS

(* What the phases of an operation know of the units and of its mode.      *)
FreeKnowsGone == OpAt("free") => \A s \in op.slots : unit[s] \in Gone
ClearKnowsGone ==
  (OpAt("clear") /\ op.kind # "unloadAll") => \A s \in Slots : unit[s] \in Gone
StartKnowsStopped ==
  op.pc \in {"write", "start"} => \A s \in op.slots : unit[s] # "deactivating"
CheckIsOfLoad == OpAt("check") => op.kind = "load"
CheckIsOfOneSlot == OpAt("check") => \E s \in Slots : op.slots = {s}
StartKnowsMode ==
  op.pc \in {"check", "write", "start", "verify", "commit"} => op.mode \in Modes
UnloadAllIsAsked == op.kind = "unloadAll" => "unloadAll" \in Kinds

EngineInv ==
  /\ TypeOK
  /\ FreeKnowsGone
  /\ ClearKnowsGone
  /\ StartKnowsStopped
  /\ StartKnowsMode
  /\ CheckIsOfOneSlot
  /\ CheckIsOfLoad
  /\ UnloadAllIsAsked

-----------------------------------------------------------------------------
(* CurrentMode answers a configured mode or none.                          *)
LEMMA CurrentAnswersType ==
  ASSUME TypeOK
  PROVE  CurrentAnswers \subseteq Modes \cup {None}
BY DEF TypeOK, CurrentAnswers

(* Reconciliation only writes modes, or nothing, in the records.           *)
LEMMA ReconciledType ==
  ASSUME TypeOK, NEW view, NEW s \in Slots
  PROVE  Reconciled(view, s) \in Modes \cup {None}
BY DEF TypeOK, Reconciled

(* A service an operation is at is one of those it has left.               *)
LEMMA ServiceType ==
  ASSUME TypeOK, op.todo # {}
  PROVE  Service \in op.todo /\ Service \in Slots
BY DEF TypeOK, Ops, Service

(* Moving an operation on changes its phase and what is left of it.        *)
LEMMA ProgressType ==
  ASSUME TypeOK, NEW l \in Labels, NEW T \in SUBSET op.slots,
         op' = [op EXCEPT !.pc = l, !.todo = T]
  PROVE  /\ op' \in Ops
         /\ op'.todo = T
         /\ op'.kind = op.kind /\ op'.mode = op.mode /\ op'.slots = op.slots
         /\ op'.pc = l
BY DEF TypeOK, Ops

(* Stopping units keeps the type, and what is gone stays gone.             *)
LEMMA StopUnitsEffect ==
  ASSUME TypeOK, NEW S, StopUnits(S)
  PROVE  /\ unit' \in [Slots -> States]
         /\ \A s \in Slots : unit[s] \in Gone => unit'[s] = unit[s]
         /\ \A s \in Slots \ S : unit'[s] = unit[s]
BY DEF TypeOK, StopUnits, States, Gone

-----------------------------------------------------------------------------
(* The type invariant, step by step.                                       *)
LEMMA EngineTypeStep ==
  ASSUME TypeOK, StartKnowsMode, [Next]_vars
  PROVE  TypeOK'
<1> USE DEF TypeOK, Ops
<1> USE HomeAssumption
<1>1. ASSUME NEW s \in Slots, UnloadBegin(s) PROVE TypeOK'
  BY <1>1 DEF UnloadBegin, Operation, units, records, AllKinds, Labels
<1>2. ASSUME NEW s \in Slots, NEW m \in Modes, LoadBegin(m, s) PROVE TypeOK'
  BY <1>2 DEF LoadBegin, Operation, units, records, AllKinds, Labels
<1>3. ASSUME NEW m \in Modes, SwitchBegin(m) PROVE TypeOK'
  <2>1. PICK current \in CurrentAnswers :
           /\ recorded' = current
           /\ op' \in {op, Operation("switch", m, Home[m], "stopAll")}
    BY <1>3 DEF SwitchBegin
  <2>2. recorded' \in Modes \cup {None}
    BY <2>1, CurrentAnswersType
  <2>3. UNCHANGED <<unit, proc, seen, env, mode>> /\ again' \in {again, None}
    BY <1>3 DEF SwitchBegin, units
  <2>4. CASE op' = op
    BY <2>2, <2>3, <2>4
  <2>5. CASE op' = Operation("switch", m, Home[m], "stopAll")
    <3>1. Home[m] \in SUBSET Slots /\ "switch" \in AllKinds /\ "stopAll" \in Labels
      BY DEF AllKinds, Labels
    <3>2. op' \in Ops /\ op'.mode = m /\ op'.slots = Home[m] /\ op'.todo = Home[m]
      BY <2>5, <3>1 DEF Operation
    <3>3. QED  BY <2>2, <2>3, <3>2
  <2>6. QED  BY <2>1, <2>4, <2>5
<1>4. ASSUME RestartBegin PROVE TypeOK'
  <2>1. PICK current \in CurrentAnswers :
           /\ recorded' = current /\ current # None
           /\ op' = Operation("restart", current, {}, "stopAll")
    BY <1>4 DEF RestartBegin
  <2>2. current \in Modes
    BY <2>1, CurrentAnswersType
  <2>3. op' \in Ops /\ op'.mode = current /\ op'.todo = {}
    BY <2>1, <2>2 DEF Operation, AllKinds, Labels
  <2>4. QED  BY <1>4, <2>1, <2>2, <2>3 DEF RestartBegin, units
<1>5. ASSUME UnloadAllBegin PROVE TypeOK'
  BY <1>5 DEF UnloadAllBegin, Operation, units, records, AllKinds, Labels
<1>6. ASSUME LoadCheck \/ WaitGone \/ StopAllWait PROVE TypeOK'
  BY <1>6 DEF LoadCheck, WaitGone, StopAllWait, GoTo, Return, Idle, units, records, Labels
<1>7. ASSUME StopSlot \/ StopAll PROVE TypeOK'
  BY <1>7, StopUnitsEffect DEF StopSlot, StopAll, GoTo, records, Labels
<1>8. ASSUME UnloadFree PROVE TypeOK'
  BY <1>8 DEF UnloadFree, Return, Idle, units, Labels
<1>9. ASSUME ClearAllSlots PROVE TypeOK'
  BY <1>9 DEF ClearAllSlots, GoTo, Return, Idle, units, Labels
<1>10. ASSUME WriteServiceFiles PROVE TypeOK'
  BY <1>10 DEF WriteServiceFiles, StartKnowsMode, OpAt, GoTo, Return, Idle, units, Labels
<1>11. ASSUME StartService PROVE TypeOK'
  <2>1. op.mode \in Modes /\ op.pc = "start"
    BY <1>11 DEF StartService, StartKnowsMode, OpAt
  <2>2. CASE op' = Idle
    <3>1. unit' \in [Slots -> States] /\ proc' \in [Slots -> Modes \cup {None}]
      BY <1>11 DEF StartService, StartUnit, units, States
    <3>2. recorded' \in Modes \cup {None}
      BY <1>11, <2>1 DEF StartService
    <3>3. QED  BY <1>11, <2>2, <3>1, <3>2 DEF StartService, Idle, Labels
  <2>3. CASE op' # Idle
    <3>1. /\ op.todo # {} /\ StartUnit(Service) /\ UNCHANGED recorded
          /\ op' = IF IsLastService
                     THEN [op EXCEPT !.pc = "verify", !.todo = op.slots]
                     ELSE [op EXCEPT !.todo = op.todo \ {Service}]
      BY <1>11, <2>3 DEF StartService, Return
    <3>2. unit' \in [Slots -> States] /\ proc' \in [Slots -> Modes \cup {None}]
      BY <3>1, ServiceType DEF StartUnit, units, States
    <3>3. op' \in Ops /\ op'.todo \subseteq op'.slots /\ op'.mode \in Modes
      BY <2>1, <3>1 DEF Labels
    <3>4. QED  BY <1>11, <3>1, <3>2, <3>3 DEF StartService
  <2>4. QED  BY <2>2, <2>3
<1>12. ASSUME VerifyService PROVE TypeOK'
  BY <1>12, StopUnitsEffect DEF VerifyService, GoTo, Return, Idle, records, Labels
<1>13. ASSUME CommitService PROVE TypeOK'
  <2>1. op.mode \in Modes
    BY <1>13 DEF CommitService, StartKnowsMode, OpAt
  <2>2. mode' \in [Slots -> Modes \cup {None}] /\ recorded' \in Modes \cup {None}
    BY <1>13, <2>1 DEF CommitService
  <2>3. CASE op' = Idle
    BY <1>13, <2>2, <2>3 DEF CommitService, Idle, units, Labels
  <2>4. CASE op' = [op EXCEPT !.pc = "verify", !.todo = op.todo \ {Service}]
    <3>1. op' \in Ops /\ op'.todo \subseteq op'.slots /\ op'.mode \in Modes
      BY <2>1, <2>4, ProgressType DEF Labels
    <3>2. QED  BY <1>13, <2>2, <3>1 DEF CommitService, units
  <2>5. QED  BY <1>13, <2>3, <2>4 DEF CommitService, Return
<1>14. ASSUME Reconcile PROVE TypeOK'
  BY <1>14, ReconciledType DEF Reconcile, units
<1>15. ASSUME Probe \/ ReadCurrentMode PROVE TypeOK'
  BY <1>15, CurrentAnswersType DEF Probe, ReadCurrentMode, units, records
<1>16. ASSUME Reboot PROVE TypeOK'
  BY <1>16 DEF Reboot, Idle, units, Labels
<1>17. ASSUME NEW s \in Slots, StopDone(s) \/ Crash(s) \/ AutoRestart(s) PROVE TypeOK'
  BY <1>17 DEF StopDone, Crash, AutoRestart, records, States
<1>18. CASE UNCHANGED vars
  BY <1>18 DEF vars
<1>19. QED
  BY <1>1, <1>2, <1>3, <1>4, <1>5, <1>6, <1>7, <1>8, <1>9, <1>10, <1>11, <1>12,
     <1>13, <1>14, <1>15, <1>16, <1>17, <1>18
     DEF Next, Begin, OpStep, Environment

(* A unit that is gone stays gone, and one that is not being stopped is    *)
(* not, through every step that neither starts nor stops a unit.           *)
LEMMA EnvironmentKeepsUnits ==
  ASSUME TypeOK, NEW s \in Slots,
         StopDone(s) \/ Crash(s) \/ AutoRestart(s)
  PROVE  /\ UNCHANGED op
         /\ \A t \in Slots : unit[t] \in Gone => unit'[t] \in Gone
         /\ \A t \in Slots : unit[t] # "deactivating" => unit'[t] # "deactivating"
BY DEF TypeOK, StopDone, Crash, AutoRestart, Gone

(* What the phases know is learnt, and kept, by every step.                *)
LEMMA PhaseStep ==
  ASSUME EngineInv, [Next]_vars
  PROVE  /\ FreeKnowsGone' /\ ClearKnowsGone' /\ StartKnowsStopped'
         /\ StartKnowsMode' /\ CheckIsOfOneSlot' /\ CheckIsOfLoad' /\ UnloadAllIsAsked'
<1> DEFINE Phases == /\ FreeKnowsGone /\ ClearKnowsGone /\ StartKnowsStopped
                     /\ StartKnowsMode /\ CheckIsOfOneSlot /\ CheckIsOfLoad
                     /\ UnloadAllIsAsked
<1> USE DEF FreeKnowsGone, ClearKnowsGone, StartKnowsStopped, StartKnowsMode,
            CheckIsOfOneSlot, CheckIsOfLoad, UnloadAllIsAsked, OpAt
<1>0. TypeOK /\ Phases /\ op \in Ops
  BY DEF EngineInv, TypeOK
<1>1. ASSUME op' = Idle PROVE Phases'
  BY <1>1 DEF Idle
<1>2. ASSUME UNCHANGED <<unit, op>> PROVE Phases'
  BY <1>0, <1>2
<1>3. ASSUME Begin PROVE Phases'
  <2>1. CASE UNCHANGED op
    BY <1>0, <1>3, <2>1
       DEF Begin, UnloadBegin, LoadBegin, SwitchBegin, RestartBegin, UnloadAllBegin, units
  <2>2. CASE op' # op
    BY <1>3, <2>2
       DEF Begin, UnloadBegin, LoadBegin, SwitchBegin, RestartBegin, UnloadAllBegin, Operation
  <2>3. QED  BY <2>1, <2>2
<1>4. ASSUME LoadCheck PROVE Phases'
  BY <1>0, <1>4 DEF LoadCheck, GoTo, units, Ops
<1>5. ASSUME StopSlot \/ StopAll PROVE Phases'
  BY <1>0, <1>5 DEF StopSlot, StopAll, GoTo, Ops
<1>6. ASSUME WaitGone PROVE Phases'
  <2>1. CASE op' = Idle
    BY <1>1, <2>1
  <2>2. CASE op' # Idle
    <3>1. /\ \A s \in op.slots : unit[s] \in Gone
          /\ op' = [op EXCEPT !.pc = IF op.kind = "load" THEN "write" ELSE "free"]
          /\ UNCHANGED unit
      BY <1>6, <2>2 DEF WaitGone, GoTo, Return, units
    <3>2. op.kind = "load" => op.mode \in Modes
      BY <1>0 DEF TypeOK
    <3>3. QED  BY <1>0, <3>1, <3>2 DEF Ops, Gone
  <2>3. QED  BY <2>1, <2>2
<1>7. ASSUME StopAllWait PROVE Phases'
  <2>1. CASE op' = Idle
    BY <1>1, <2>1
  <2>2. CASE op' # Idle
    BY <1>0, <1>7, <2>2 DEF StopAllWait, GoTo, Return, units, Ops
  <2>3. QED  BY <2>1, <2>2
<1>8. ASSUME ClearAllSlots PROVE Phases'
  <2>1. CASE op' = Idle
    BY <1>1, <2>1
  <2>2. CASE op' # Idle
    <3>1. /\ op.kind = "switch" /\ op.pc = "clear" /\ UNCHANGED unit
          /\ op' = [op EXCEPT !.pc = "write"]
      BY <1>8, <2>2 DEF ClearAllSlots, GoTo, Return, units
    <3>2. op.mode \in Modes /\ op.slots \subseteq Slots
      BY <1>0, <3>1 DEF TypeOK, Ops
    <3>3. QED  BY <1>0, <3>1, <3>2 DEF Ops, Gone
  <2>3. QED  BY <2>1, <2>2
<1>9. ASSUME WriteServiceFiles PROVE Phases'
  BY <1>0, <1>1, <1>9 DEF WriteServiceFiles, GoTo, Return, units, Ops
<1>10. ASSUME StartService PROVE Phases'
  <2>1. CASE op' = Idle
    BY <1>1, <2>1
  <2>2. CASE op' # Idle
    <3>1. /\ op.todo # {} /\ StartUnit(Service) /\ op.pc = "start"
          /\ op' = IF IsLastService
                     THEN [op EXCEPT !.pc = "verify", !.todo = op.slots]
                     ELSE [op EXCEPT !.todo = op.todo \ {Service}]
      BY <1>10, <2>2 DEF StartService, Return
    <3>2. \A s \in Slots : unit[s] # "deactivating" => unit'[s] # "deactivating"
      BY <1>0, <3>1 DEF StartUnit, units, TypeOK
    <3>3. op.slots \subseteq Slots /\ op.mode \in Modes
      BY <1>0, <3>1 DEF Ops
    <3>4. QED  BY <1>0, <3>1, <3>2, <3>3 DEF Ops
  <2>3. QED  BY <2>1, <2>2
<1>11. ASSUME VerifyService PROVE Phases'
  BY <1>0, <1>1, <1>11 DEF VerifyService, GoTo, Return, Ops
<1>12. ASSUME CommitService PROVE Phases'
  BY <1>0, <1>1, <1>12 DEF CommitService, Return, Ops, units
<1>13. ASSUME UnloadFree \/ Reboot PROVE Phases'
  BY <1>1, <1>13 DEF UnloadFree, Reboot, Return
<1>14. ASSUME Reconcile \/ Probe \/ ReadCurrentMode PROVE Phases'
  BY <1>2, <1>14 DEF Reconcile, Probe, ReadCurrentMode, units
<1>15. ASSUME NEW s \in Slots, StopDone(s) \/ Crash(s) \/ AutoRestart(s) PROVE Phases'
  BY <1>0, <1>15, EnvironmentKeepsUnits DEF Ops
<1>16. CASE UNCHANGED vars
  BY <1>2, <1>16 DEF vars
<1>17. QED
  BY <1>3, <1>4, <1>5, <1>6, <1>7, <1>8, <1>9, <1>10, <1>11, <1>12, <1>13, <1>14,
     <1>15, <1>16 DEF Next, OpStep, Environment

-----------------------------------------------------------------------------
(* EngineInv holds throughout.                                             *)
LEMMA EngineInvariant == Spec => []EngineInv
<1>1. Init => EngineInv
  BY DEF Init, EngineInv, TypeOK, FreeKnowsGone, ClearKnowsGone, StartKnowsStopped,
         StartKnowsMode, CheckIsOfOneSlot, CheckIsOfLoad, UnloadAllIsAsked, OpAt, Idle, Ops, Labels, States
<1>2. EngineInv /\ [Next]_vars => EngineInv'
  BY EngineTypeStep, PhaseStep DEF EngineInv
<1>3. QED  BY <1>1, <1>2, PTL DEF Spec

(* The units, the slot records and the operation under opMu keep their     *)
(* types, for any modes and slots.                                         *)
THEOREM EngineTypeCorrect == Spec => []TypeOK
<1>1. EngineInv => TypeOK
  BY DEF EngineInv
<1>2. QED  BY <1>1, EngineInvariant, PTL

(* Neither Load nor SwitchMode starts a unit whose old process is still    *)
(* being stopped, however stale the slot records, whatever crashes.        *)
THEOREM StartsProtected == Spec => []NoStartOverStopping
<1>1. EngineInv => NoStartOverStopping
  BY DEF EngineInv, TypeOK, StartKnowsStopped, NoStartOverStopping, OpAt
<1>2. QED  BY <1>1, EngineInvariant, PTL

(* With reconciliation from live unit states, and without the unload of    *)
(* every slot, a running daemon clears a slot record only when the unit is *)
(* gone: the rule of SlotStates, Unload and SwitchMode.                    *)
THEOREM RecordsOutliveProcesses ==
  ASSUME ~Lagging, ~CanReboot, "unloadAll" \notin Kinds
  PROVE  Spec => ClearsOnlyGone
<1> DEFINE Cleared(s) == mode[s] # None /\ mode'[s] = None
<1>1. ASSUME EngineInv, Next, NEW s \in Slots, Cleared(s)
      PROVE  unit[s] \in Gone
  <2>1. CASE Reconcile
    BY <1>1, <2>1 DEF Reconcile, Reconciled
  <2>2. CASE UnloadFree
    BY <1>1, <2>2 DEF UnloadFree, EngineInv, FreeKnowsGone, TypeOK
  <2>3. CASE ClearAllSlots
    <3>1. op.kind # "unloadAll"
      BY <1>1 DEF EngineInv, UnloadAllIsAsked
    <3>2. QED  BY <1>1, <2>3, <3>1 DEF ClearAllSlots, EngineInv, ClearKnowsGone
  <2>4. CASE CommitService
    <3>1. op.mode \in Modes /\ op.mode # None
      BY <1>1, <2>4, HomeAssumption DEF CommitService, EngineInv, StartKnowsMode, OpAt
    <3>2. QED  BY <1>1, <2>4, <3>1 DEF CommitService, EngineInv, TypeOK
  <2>5. CASE UNCHANGED mode
    BY <1>1, <2>5
  <2>6. QED
    BY <1>1, <2>1, <2>2, <2>3, <2>4, <2>5
       DEF Next, Begin, OpStep, Environment, UnloadBegin, LoadBegin, SwitchBegin,
           RestartBegin, UnloadAllBegin, LoadCheck, StopSlot, WaitGone, StopAll,
           StopAllWait, WriteServiceFiles, StartService, VerifyService, Probe,
           ReadCurrentMode, Reboot, StopDone, Crash, AutoRestart, records
<1>2. EngineInv /\ [Next]_vars =>
        [\A s \in Slots : Cleared(s) => unit[s] \in Gone]_vars
  BY <1>1
<1>3. QED  BY <1>2, EngineInvariant, PTL DEF Spec, ClearsOnlyGone

-----------------------------------------------------------------------------
(* What a restarted daemon would infer.                                    *)

(* The record of a slot that runs, or that systemd may bring back by       *)
(* itself, agrees with its files.                                          *)
Agrees(s) ==
  (unit[s] \in {"active", "activating"} /\ mode[s] # None) => mode[s] = env[s]

Starting == {"start", "verify", "commit"}
(* Only the slot a load is bringing up may disagree: its old record stands *)
(* until the load commits or stops the unit again.                         *)
OthersAgree ==
  \A s \in Slots :
    Agrees(s) \/ (op.kind = "load" /\ op.pc \in Starting /\ s \in op.slots)
FilesWritten == op.pc \in Starting => \A s \in op.slots : env[s] = op.mode
(* A load has one slot, and takes it to the end.                           *)
LoadIsOfOneSlot ==
  /\ op.pc \in Starting \cup {"write"} => op.kind \in {"load", "switch"}
  /\ op.kind = "load" => \E s \in Slots : op.slots = {s} /\ op.todo = {s}
  /\ op.pc \in {"verify", "commit"} => op.todo # {}
(* A switch writes over no process and no record.                          *)
SwitchStartsClean ==
  /\ (op.kind = "switch" /\ op.pc = "write") =>
       \A s \in Slots : unit[s] \in Gone /\ mode[s] = None
  /\ (op.kind = "switch" /\ op.pc \in Starting) =>
       \A s \in Slots : mode[s] \in {None, env[s]}
FilesInv == OthersAgree /\ FilesWritten /\ LoadIsOfOneSlot /\ SwitchStartsClean

(* A daemon that does nothing to its units or files keeps FilesInv when it *)
(* forgets records or infers them from the files.                          *)
LEMMA InferenceKeepsFiles ==
  ASSUME TypeOK, FilesInv, UNCHANGED <<unit, env, op>>,
         \A s \in Slots :
            /\ mode'[s] \in {mode[s], None, env[s]}
            /\ unit[s] \in Gone => mode'[s] \in {mode[s], None}
  PROVE  FilesInv'
<1>1. OthersAgree'
  BY DEF FilesInv, OthersAgree, Agrees
<1>2. FilesWritten' /\ LoadIsOfOneSlot'
  BY DEF FilesInv, FilesWritten, LoadIsOfOneSlot
<1>3. SwitchStartsClean'
  BY DEF FilesInv, SwitchStartsClean
<1>4. QED  BY <1>1, <1>2, <1>3 DEF FilesInv

(* An operation that ends, or has yet to write, needs only agreement.      *)
LEMMA AgreementKeepsFiles ==
  ASSUME op'.pc \notin Starting \cup {"write"},
         op'.kind = "load" => \E s \in Slots : op'.slots = {s} /\ op'.todo = {s},
         \A s \in Slots : Agrees(s)'
  PROVE  FilesInv'
BY DEF FilesInv, OthersAgree, FilesWritten, LoadIsOfOneSlot, SwitchStartsClean, Starting

(* Outside the start of a unit every slot agrees, and stays so as long as  *)
(* no unit comes up and the files stand.                                   *)
LEMMA AgreementStays ==
  ASSUME TypeOK, FilesInv, op.pc \notin Starting, env' = env,
         \A s \in Slots : /\ mode'[s] \in {mode[s], None}
                          /\ unit'[s] \in {"active", "activating"} =>
                               unit[s] \in {"active", "activating"}
  PROVE  \A s \in Slots : Agrees(s)'
BY DEF FilesInv, OthersAgree, Agrees

(* Every step keeps FilesInv when reconciliation looks at live units.      *)
LEMMA FilesStep ==
  ASSUME ~Lagging, EngineInv, FilesInv, [Next]_vars
  PROVE  FilesInv'
<1>0. TypeOK /\ op \in Ops
  BY DEF EngineInv, TypeOK
<1>1. ASSUME Begin PROVE FilesInv'
  <2>1. op.pc = "idle" /\ UNCHANGED <<unit, env, mode>>
    BY <1>1 DEF Begin, UnloadBegin, LoadBegin, SwitchBegin, RestartBegin, UnloadAllBegin,
       OpAt, units, records
  <2>2. CASE op' = op
    BY <1>0, <2>1, <2>2, InferenceKeepsFiles
  <2>3. CASE op' # op
    <3>1. /\ op'.pc \in {"check", "stop", "stopAll"}
          /\ op'.kind = "load" => \E s \in Slots : op'.slots = {s} /\ op'.todo = {s}
      BY <1>1, <2>3 DEF Begin, UnloadBegin, LoadBegin, SwitchBegin, RestartBegin,
         UnloadAllBegin, Operation
    <3>2. \A s \in Slots : Agrees(s)'
      BY <1>0, <2>1, AgreementStays DEF Starting
    <3>3. QED  BY <3>1, <3>2, AgreementKeepsFiles DEF Starting
  <2>4. QED  BY <2>2, <2>3
<1>2. ASSUME op.pc \notin Starting, op' = Idle, env' = env,
             \A s \in Slots : /\ mode'[s] \in {mode[s], None}
                              /\ unit'[s] \in {"active", "activating"} =>
                                   unit[s] \in {"active", "activating"}
      PROVE  FilesInv'
  <2>1. \A s \in Slots : Agrees(s)'
    BY <1>0, <1>2, AgreementStays
  <2>2. op'.pc = "idle" /\ op'.kind = "none"
    BY <1>2 DEF Idle
  <2>3. QED  BY <2>1, <2>2, AgreementKeepsFiles DEF Starting
<1>3. ASSUME StopSlot \/ StopAll PROVE FilesInv'
  <2>1. /\ op.pc \in {"stop", "stopAll"} /\ op'.pc \in {"wait", "waitAll"}
        /\ op'.kind = op.kind /\ op'.slots = op.slots /\ op'.todo = op.todo
        /\ UNCHANGED <<env, mode>>
    BY <1>0, <1>3 DEF StopSlot, StopAll, OpAt, GoTo, records, Ops
  <2>2. PICK S : StopUnits(S)
    BY <1>3 DEF StopSlot, StopAll
  <2>3. \A s \in Slots : unit'[s] \in {"active", "activating"} =>
                            unit[s] \in {"active", "activating"}
    BY <1>0, <2>2 DEF StopUnits, TypeOK, States
  <2>4. \A s \in Slots : Agrees(s)'
    BY <1>0, <2>1, <2>3, AgreementStays DEF Starting
  <2>5. QED  BY <2>1, <2>4, AgreementKeepsFiles DEF Starting, FilesInv, LoadIsOfOneSlot
<1>4. ASSUME LoadCheck PROVE FilesInv'
  <2>1. /\ op.pc = "check" /\ op'.pc \in {"stop", "wait", "write"}
        /\ op'.kind = op.kind /\ op'.slots = op.slots /\ op'.todo = op.todo
        /\ UNCHANGED <<unit, env, mode>>
    BY <1>0, <1>4 DEF LoadCheck, OpAt, GoTo, units, records, Ops
  <2>2. op.kind = "load"
    BY <2>1 DEF EngineInv, CheckIsOfLoad, OpAt
  <2>3. QED
    BY <2>1, <2>2 DEF FilesInv, OthersAgree, Agrees, FilesWritten, LoadIsOfOneSlot,
       SwitchStartsClean, Starting
<1>5. ASSUME WaitGone \/ StopAllWait PROVE FilesInv'
  <2>1. op.pc \in {"wait", "waitAll"} /\ UNCHANGED <<unit, env, mode>>
    BY <1>5 DEF WaitGone, StopAllWait, OpAt, units, records
  <2>2. CASE op' = Idle
    BY <1>2, <2>1, <2>2 DEF Starting
  <2>3. CASE op' # Idle
    <3>1. /\ op'.pc \in {"write", "free", "clear"} /\ (op'.pc = "write" => op.kind = "load")
          /\ op'.kind = op.kind /\ op'.slots = op.slots /\ op'.todo = op.todo
      BY <1>0, <1>5, <2>3 DEF WaitGone, StopAllWait, GoTo, Return, Ops
    <3>2. QED
      BY <2>1, <3>1 DEF FilesInv, OthersAgree, Agrees, FilesWritten, LoadIsOfOneSlot,
         SwitchStartsClean, Starting
  <2>4. QED  BY <2>2, <2>3
<1>6. ASSUME UnloadFree PROVE FilesInv'
  BY <1>0, <1>2, <1>6 DEF UnloadFree, OpAt, Return, units, TypeOK, Starting
<1>7. ASSUME ClearAllSlots PROVE FilesInv'
  <2>1. op.pc = "clear" /\ UNCHANGED <<unit, env>> /\ \A s \in Slots : mode'[s] = None
    BY <1>7 DEF ClearAllSlots, OpAt, units
  <2>2. CASE op' = Idle
    BY <1>2, <2>1, <2>2 DEF Starting
  <2>3. CASE op' # Idle
    <3>1. /\ op.kind = "switch" /\ op'.pc = "write"
          /\ op'.kind = op.kind /\ op'.slots = op.slots /\ op'.todo = op.todo
      BY <1>0, <1>7, <2>3 DEF ClearAllSlots, GoTo, Return, Ops
    <3>2. \A s \in Slots : unit[s] \in Gone
      BY <2>1, <3>1 DEF EngineInv, ClearKnowsGone, OpAt
    <3>3. QED
      BY <2>1, <3>1, <3>2 DEF FilesInv, OthersAgree, Agrees, FilesWritten,
         LoadIsOfOneSlot, SwitchStartsClean, Starting
  <2>4. QED  BY <2>2, <2>3
<1>8. ASSUME WriteServiceFiles PROVE FilesInv'
  <2>1. PICK written \in SUBSET op.slots :
           /\ env' = [s \in Slots |-> IF s \in written THEN op.mode ELSE env[s]]
           /\ IF written = op.slots THEN GoTo("start") ELSE Return
    BY <1>8 DEF WriteServiceFiles
  <2>2. op.pc = "write" /\ UNCHANGED <<unit, mode>> /\ op.slots \subseteq Slots
    BY <1>0, <1>8 DEF WriteServiceFiles, OpAt, units, Ops
  <2>3. op.kind \in {"load", "switch"}
    BY <2>2 DEF FilesInv, LoadIsOfOneSlot
  <2>4. CASE op.kind = "switch"
    <3>1. \A s \in Slots : unit[s] \in Gone /\ mode[s] = None
      BY <2>2, <2>4 DEF FilesInv, SwitchStartsClean
    <3>2. \A s \in Slots : Agrees(s)'
      BY <2>2, <3>1 DEF Agrees
    <3>3. CASE written = op.slots
      <4>1. /\ op'.pc = "start" /\ op'.kind = "switch" /\ op'.mode = op.mode
            /\ op'.slots = op.slots
        BY <1>0, <2>1, <2>4, <3>3 DEF GoTo, Ops
      <4>2. \A s \in op.slots : env'[s] = op.mode
        BY <2>1, <2>2, <3>3
      <4>3. QED
        BY <2>2, <3>1, <3>2, <4>1, <4>2 DEF FilesInv, OthersAgree, FilesWritten,
           LoadIsOfOneSlot, SwitchStartsClean, Starting
    <3>4. CASE written # op.slots
      <4>1. op'.pc = "idle" /\ op'.kind = "none"
        BY <2>1, <3>4 DEF Return, Idle
      <4>2. QED  BY <3>2, <4>1, AgreementKeepsFiles DEF Starting
    <3>5. QED  BY <3>3, <3>4
  <2>5. CASE op.kind = "load"
    <3>1. PICK t \in Slots : op.slots = {t} /\ op.todo = {t}
      BY <2>5 DEF FilesInv, LoadIsOfOneSlot
    <3>2. CASE written = op.slots
      <4>1. /\ op'.pc = "start" /\ op'.kind = "load" /\ op'.mode = op.mode
            /\ op'.slots = op.slots /\ op'.todo = op.todo
        BY <1>0, <2>1, <2>5, <3>2 DEF GoTo, Ops
      <4>2. /\ \A s \in op.slots : env'[s] = op.mode
            /\ \A s \in Slots \ op.slots : env'[s] = env[s]
        BY <2>1, <2>2, <3>2
      <4>3. \A s \in Slots \ op.slots : Agrees(s)'
        BY <2>2, <4>2 DEF FilesInv, OthersAgree, Agrees, Starting
      <4>4. QED
        BY <3>1, <4>1, <4>2, <4>3 DEF FilesInv, OthersAgree, FilesWritten,
           LoadIsOfOneSlot, SwitchStartsClean, Starting
    <3>3. CASE written # op.slots
      <4>1. written = {}
        BY <3>1, <3>3
      <4>2. env' = env /\ op' = Idle
        BY <1>0, <2>1, <3>3, <4>1 DEF Return, TypeOK
      <4>3. QED  BY <1>2, <2>2, <4>2 DEF Starting
    <3>4. QED  BY <3>2, <3>3
  <2>6. QED  BY <2>3, <2>4, <2>5
<1>9. ASSUME op.pc \in Starting
      PROVE  /\ \/ op.kind = "switch" /\ \A s \in Slots : mode[s] \in {None, env[s]}
                \/ /\ op.kind = "load"
                   /\ \E t \in Slots : op.slots = {t} /\ op.todo = {t}
             /\ \A s \in Slots \ op.slots : Agrees(s)
             /\ \A s \in op.slots : env[s] = op.mode
  BY <1>9 DEF FilesInv, OthersAgree, LoadIsOfOneSlot, SwitchStartsClean, FilesWritten,
     Agrees, Starting
<1>10. ASSUME op.pc \in Starting, op.todo # {} \/ op.kind = "switch", op' = Idle,
              env' = env, mode' = mode,
              \A s \in Slots : unit'[s] \in {"active", "activating"} =>
                                 unit[s] \in {"active", "activating"} /\ s # Service
       PROVE  FilesInv'
  <2>1. ASSUME NEW s \in Slots PROVE Agrees(s)'
    <3>1. CASE op.kind = "switch"
      BY <1>9, <1>10, <3>1 DEF Agrees
    <3>2. CASE op.kind = "load"
      <4>1. op.slots = {Service}
        BY <1>0, <1>9, <1>10, <3>2, ServiceType
      <4>2. s = Service \/ Agrees(s)
        BY <1>9, <1>10, <4>1
      <4>3. QED  BY <1>10, <4>2 DEF Agrees
    <3>3. QED  BY <1>9, <1>10, <3>1, <3>2
  <2>2. op'.pc = "idle" /\ op'.kind = "none"
    BY <1>10 DEF Idle
  <2>3. QED  BY <2>1, <2>2, AgreementKeepsFiles DEF Starting
<1>11. ASSUME StartService PROVE FilesInv'
  <2>0. op.pc = "start" /\ op.pc \in Starting /\ UNCHANGED <<env, mode>>
    BY <1>11 DEF StartService, OpAt, Starting
  <2>1. CASE op.todo = {} /\ op' = Idle /\ unit' = unit
    <3>1. op.kind = "switch"
      BY <1>9, <2>0, <2>1
    <3>2. \A s \in Slots : Agrees(s)'
      BY <1>9, <2>0, <2>1, <3>1 DEF Agrees
    <3>3. op'.pc = "idle" /\ op'.kind = "none"
      BY <2>1 DEF Idle
    <3>4. QED  BY <3>2, <3>3, AgreementKeepsFiles DEF Starting
  <2>2. CASE op.todo # {} /\ op' = Idle /\ unit' = [unit EXCEPT ![Service] = "failed"]
    <3>1. \A s \in Slots : unit'[s] \in {"active", "activating"} =>
                              unit[s] \in {"active", "activating"} /\ s # Service
      BY <1>0, <2>2 DEF TypeOK
    <3>2. QED  BY <1>10, <2>0, <2>2, <3>1
  <2>3. CASE /\ op.todo # {} /\ StartUnit(Service)
             /\ op' = IF IsLastService
                        THEN [op EXCEPT !.pc = "verify", !.todo = op.slots]
                        ELSE [op EXCEPT !.todo = op.todo \ {Service}]
    <3>1. Service \in op.todo /\ Service \in op.slots /\ Service \in Slots
      BY <1>0, <2>3, ServiceType DEF TypeOK
    <3>2. /\ op'.pc \in {"start", "verify"} /\ op'.kind = op.kind /\ op'.mode = op.mode
          /\ op'.slots = op.slots /\ (op'.pc = "verify" => op'.todo # {})
          /\ op.todo = {Service} => op'.todo = op.slots
      BY <1>0, <2>0, <2>3, <3>1 DEF Ops, IsLastService
    <3>3. \A s \in Slots \ op.slots : unit'[s] = unit[s]
      BY <1>0, <2>3, <3>1 DEF StartUnit, units, TypeOK
    <3>4. \A s \in Slots \ op.slots : Agrees(s)'
      BY <1>9, <2>0, <3>3 DEF Agrees
    <3>5. CASE op.kind = "switch"
      <4>1. \A s \in Slots : Agrees(s)' /\ mode'[s] \in {None, env'[s]}
        BY <1>9, <2>0, <3>5 DEF Agrees
      <4>2. QED
        BY <1>9, <2>0, <3>2, <3>5, <4>1 DEF FilesInv, OthersAgree, FilesWritten,
           LoadIsOfOneSlot, SwitchStartsClean, Starting
    <3>6. CASE op.kind = "load"
      <4>1. PICK t \in Slots : op.slots = {t} /\ op.todo = {t}
        BY <1>9, <2>0, <3>6
      <4>2. op'.slots = {t} /\ op'.todo = {t}
        BY <3>1, <3>2, <4>1
      <4>3. QED
        BY <1>9, <2>0, <3>2, <3>4, <3>6, <4>1, <4>2 DEF FilesInv, OthersAgree,
           FilesWritten, LoadIsOfOneSlot, SwitchStartsClean, Starting
    <3>7. QED  BY <1>9, <2>0, <3>5, <3>6
  <2>4. QED
    BY <1>11, <2>1, <2>2, <2>3 DEF StartService, Return, units
<1>12. ASSUME VerifyService PROVE FilesInv'
  <2>0. op.pc = "verify" /\ op.pc \in Starting /\ UNCHANGED <<env, mode>>
    BY <1>12 DEF VerifyService, OpAt, Starting, records
  <2>1. op.todo # {} /\ Service \in Slots
    BY <1>0, <2>0, ServiceType DEF FilesInv, LoadIsOfOneSlot
  <2>2. CASE GoTo("commit") /\ UNCHANGED unit
    <3>1. /\ op'.pc = "commit" /\ op'.kind = op.kind /\ op'.mode = op.mode
          /\ op'.slots = op.slots /\ op'.todo = op.todo
      BY <1>0, <2>2 DEF GoTo, Ops
    <3>2. QED
      BY <2>0, <2>1, <2>2, <3>1 DEF FilesInv, OthersAgree, Agrees, FilesWritten,
         LoadIsOfOneSlot, SwitchStartsClean, Starting
  <2>3. CASE StopUnits({Service}) /\ op' = Idle
    <3>1. \A s \in Slots : unit'[s] \in {"active", "activating"} =>
                              unit[s] \in {"active", "activating"} /\ s # Service
      BY <1>0, <2>3 DEF StopUnits, TypeOK, States
    <3>2. QED  BY <1>10, <2>0, <2>1, <2>3, <3>1
  <2>4. QED  BY <1>12, <2>2, <2>3 DEF VerifyService, Return
<1>13. ASSUME CommitService PROVE FilesInv'
  <2>0. op.pc = "commit" /\ op.pc \in Starting /\ UNCHANGED <<unit, env>>
    BY <1>13 DEF CommitService, OpAt, Starting, units
  <2>1. op.todo # {} /\ Service \in Slots /\ Service \in op.todo /\ Service \in op.slots
    BY <1>0, <2>0, ServiceType DEF FilesInv, LoadIsOfOneSlot, TypeOK
  <2>2. mode'[Service] = env'[Service] /\ \A s \in Slots \ {Service} : mode'[s] = mode[s]
    BY <1>0, <1>9, <1>13, <2>0, <2>1 DEF CommitService, TypeOK
  <2>3. ASSUME NEW s \in Slots PROVE Agrees(s)'
    <3>1. CASE op.kind = "switch"
      BY <1>9, <2>0, <2>2, <3>1 DEF Agrees
    <3>2. CASE op.kind = "load"
      <4>1. op.slots = {Service}
        BY <1>9, <2>0, <2>1, <3>2
      <4>2. s = Service \/ Agrees(s)
        BY <1>9, <2>0, <4>1
      <4>3. QED  BY <2>0, <2>2, <4>2 DEF Agrees
    <3>3. QED  BY <1>9, <2>0, <3>1, <3>2
  <2>4. CASE op' = Idle
    <3>1. op'.pc = "idle" /\ op'.kind = "none"
      BY <2>4 DEF Idle
    <3>2. QED  BY <2>3, <3>1, AgreementKeepsFiles DEF Starting
  <2>5. CASE op' # Idle
    <3>1. ~IsLastService /\ op' = [op EXCEPT !.pc = "verify", !.todo = op.todo \ {Service}]
      BY <1>13, <2>5 DEF CommitService, Return
    <3>2. /\ op'.pc = "verify" /\ op'.kind = op.kind /\ op'.mode = op.mode
          /\ op'.slots = op.slots /\ op'.todo = op.todo \ {Service}
      BY <1>0, <3>1 DEF Ops
    <3>3. op'.todo # {}
      BY <2>1, <3>1, <3>2 DEF IsLastService
    <3>4. op.kind = "switch"
      BY <1>9, <2>0, <2>1, <3>2, <3>3
    <3>5. \A s \in Slots : mode'[s] \in {None, env'[s]}
      BY <1>9, <2>0, <2>2, <3>4
    <3>6. QED
      BY <1>9, <2>0, <2>3, <3>2, <3>3, <3>4, <3>5 DEF FilesInv, OthersAgree, FilesWritten,
         LoadIsOfOneSlot, SwitchStartsClean, Starting
  <2>6. QED  BY <2>4, <2>5
<1>14. ASSUME Reconcile PROVE FilesInv'
  <2>1. \A s \in Slots : /\ mode'[s] \in {mode[s], None, env[s]}
                         /\ unit[s] \in Gone => mode'[s] \in {mode[s], None}
    BY <1>14 DEF Reconcile, Reconciled, Gone
  <2>2. QED  BY <1>0, <1>14, <2>1, InferenceKeepsFiles DEF Reconcile, units
<1>15. ASSUME Probe \/ ReadCurrentMode \/ UNCHANGED vars PROVE FilesInv'
  BY <1>0, <1>15, InferenceKeepsFiles DEF Probe, ReadCurrentMode, units, records, vars
<1>16. ASSUME Reboot PROVE FilesInv'
  <2>1. /\ env' = env /\ unit' = unit /\ op'.pc = "idle" /\ op'.kind = "none"
        /\ \A s \in Slots : mode'[s] \in {None, env[s]}
    BY <1>16 DEF Reboot, Idle, units
  <2>2. QED  BY <2>1, AgreementKeepsFiles DEF Starting, Agrees
<1>17. ASSUME NEW t \in Slots, StopDone(t) \/ Crash(t) \/ AutoRestart(t) PROVE FilesInv'
  <2>1. UNCHANGED <<env, mode, op>>
    BY <1>17 DEF StopDone, Crash, AutoRestart, records
  <2>2. \A s \in Slots :
           /\ unit'[s] \in {"active", "activating"} => unit[s] \in {"active", "activating"}
           /\ unit[s] \in Gone => unit'[s] \in Gone
    BY <1>0, <1>17 DEF StopDone, Crash, AutoRestart, TypeOK, Gone
  <2>3. QED
    BY <2>1, <2>2 DEF FilesInv, OthersAgree, Agrees, FilesWritten, LoadIsOfOneSlot,
       SwitchStartsClean
<1>18. QED
  BY <1>1, <1>3, <1>4, <1>5, <1>6, <1>7, <1>8, <1>11, <1>12, <1>13, <1>14, <1>15, <1>16,
     <1>17 DEF Next, OpStep, Environment

(* With live reconciliation, the record of an active slot is always what a *)
(* restarted daemon would infer, whatever failed before and for any modes  *)
(* and slots.                                                              *)
THEOREM RestartInfersTheSame ==
  ASSUME ~Lagging
  PROVE  Spec => []BootAgrees
<1>1. Init => FilesInv
  BY DEF Init, FilesInv, OthersAgree, Agrees, FilesWritten, LoadIsOfOneSlot,
     SwitchStartsClean, Starting, Idle
<1>2. EngineInv /\ FilesInv /\ [Next]_vars => FilesInv'
  BY FilesStep
<1>3. FilesInv => BootAgrees
  BY DEF FilesInv, OthersAgree, Agrees, BootAgrees, OpAt, Starting
<1>4. QED
  BY <1>1, <1>2, <1>3, EngineInvariant, PTL DEF Spec

-----------------------------------------------------------------------------
(* One slot per single-service mode.                                       *)

Live(s) == unit[s] \in {"active", "activating"}
Single(m) == Cardinality(Home[m]) = 1
(* The slots an operation is bringing up.                                  *)
BringsUp(s) == op.pc \in Starting /\ s \in op.slots

(* A process without a record is one of a mode with several services, left *)
(* by a switch that failed half-way: the inference finds no single one.    *)
NothingToInfer ==
  \A s \in Slots : (Live(s) /\ mode[s] = None /\ ~BringsUp(s))
                      => env[s] = None \/ ~Single(env[s])
(* The mode an operation brings up is on no other slot.                    *)
Ahead == (op.kind = "load" /\ ~OpAt("idle"))
           \/ (op.kind = "switch" /\ op.pc \in Starting \cup {"write"})
NobodyElseHasIt ==
  Ahead /\ Single(op.mode) => \A t \in Slots \ op.slots : mode[t] # op.mode
SwitchGoesHome == op.kind = "switch" => op.slots = Home[op.mode]
(* An operation begins with all its services to do.                        *)
TodoIsAll == /\ op.pc \notin Starting => op.todo = op.slots
             /\ (OpAt("start") /\ op.todo = {}) => op.slots = {}
SingleInv ==
  SingleInstance /\ NothingToInfer /\ NobodyElseHasIt /\ SwitchGoesHome /\ TodoIsAll

(* Every service of a single-service mode is the same one.                 *)
LEMMA SingleHome ==
  ASSUME IsFiniteSet(Slots), NEW m \in Modes, Single(m)
  PROVE  \E x : Home[m] = {x}
<1>1. Home[m] \subseteq Slots
  BY HomeAssumption
<1>2. IsFiniteSet(Home[m])
  BY <1>1, FS_Subset
<1>3. QED  BY <1>2, FS_Singleton DEF Single

(* An operation that brings up a single-service mode has one slot.         *)
LEMMA SingleOperation ==
  ASSUME IsFiniteSet(Slots), EngineInv, FilesInv, SingleInv,
         op.pc \in Starting, Single(op.mode)
  PROVE  \E x : op.slots = {x}
<1>1. op.mode \in Modes /\ op.kind \in {"load", "switch"}
  BY DEF EngineInv, StartKnowsMode, FilesInv, LoadIsOfOneSlot, Starting
<1>2. CASE op.kind = "load"
  BY <1>2 DEF FilesInv, LoadIsOfOneSlot
<1>3. CASE op.kind = "switch"
  BY <1>1, <1>3, SingleHome DEF SingleInv, SwitchGoesHome
<1>4. QED  BY <1>1, <1>2, <1>3

(* Records that are only forgotten, once the unit is gone, and units that  *)
(* only go down, keep SingleInv, wherever the operation goes that brings   *)
(* nothing up.                                                             *)
LEMMA ForgettingKeepsSingle ==
  ASSUME SingleInv, env' = env,
         \A s \in Slots : /\ mode'[s] = mode[s] \/ (mode'[s] = None /\ ~Live(s)')
                          /\ Live(s)' => Live(s) /\ ~BringsUp(s),
         SwitchGoesHome', NobodyElseHasIt', TodoIsAll'
  PROVE  SingleInv'
<1>1. SingleInstance'
  BY DEF SingleInv, SingleInstance
<1>2. NothingToInfer'
  BY DEF SingleInv, NothingToInfer
<1>3. QED  BY <1>1, <1>2 DEF SingleInv

(* The end of an operation that was bringing something up: what it leaves  *)
(* without a record belongs to a mode with several services.               *)
LEMMA EndKeepsSingle ==
  ASSUME IsFiniteSet(Slots), EngineInv, FilesInv, SingleInv, op.pc \in Starting,
         op' = Idle, env' = env, NEW x \in op.slots, SingleInstance',
         \A s \in Slots : /\ Live(s)' => Live(s)
                          /\ s # x => mode'[s] = mode[s],
         Live(x)' => mode'[x] # None
  PROVE  SingleInv'
<1>1. NothingToInfer'
  <2> SUFFICES ASSUME NEW s \in Slots, Live(s)', mode'[s] = None
               PROVE  env[s] = None \/ ~Single(env[s])
    BY DEF NothingToInfer, Single
  <2>1. s # x /\ Live(s) /\ mode[s] = None
    OBVIOUS
  <2>2. CASE s \notin op.slots
    BY <2>1, <2>2 DEF SingleInv, NothingToInfer, BringsUp
  <2>3. CASE s \in op.slots
    <3>1. env[s] = op.mode
      BY <2>3 DEF FilesInv, FilesWritten
    <3>2. ~Single(op.mode)
      BY <2>1, <2>3, SingleOperation
    <3>3. QED  BY <3>1, <3>2
  <2>4. QED  BY <2>2, <2>3
<1>2. NobodyElseHasIt' /\ SwitchGoesHome' /\ TodoIsAll'
  BY DEF NobodyElseHasIt, Ahead, SwitchGoesHome, TodoIsAll, OpAt, Idle, Starting
<1>3. QED  BY <1>1, <1>2 DEF SingleInv

(* With live reconciliation, no restart of the daemon and no unload of     *)
(* every slot, each step keeps single-service modes on one slot.           *)
LEMMA SingleStep ==
  ASSUME IsFiniteSet(Slots), ~Lagging, ~CanReboot, "unloadAll" \notin Kinds,
         EngineInv, FilesInv, SingleInv, [Next]_vars
  PROVE  SingleInv'
<1>0. TypeOK /\ op \in Ops
  BY DEF EngineInv, TypeOK
<1>1. ASSUME UNCHANGED <<env, mode, op>>, \A s \in Slots : Live(s)' => Live(s)
      PROVE  SingleInv'
  BY <1>1 DEF SingleInv, SingleInstance, NothingToInfer, NobodyElseHasIt, Ahead,
     SwitchGoesHome, TodoIsAll, BringsUp, Single, OpAt
<1>2. ASSUME op.pc \notin Starting, op' = Idle, env' = env,
             \A s \in Slots : /\ mode'[s] = mode[s] \/ (mode'[s] = None /\ ~Live(s)')
                              /\ Live(s)' => Live(s)
      PROVE  SingleInv'
  <2>1. NobodyElseHasIt' /\ SwitchGoesHome' /\ TodoIsAll'
    BY <1>2 DEF NobodyElseHasIt, Ahead, SwitchGoesHome, TodoIsAll, OpAt, Idle, Starting
  <2>2. \A s \in Slots : Live(s)' => Live(s) /\ ~BringsUp(s)
    BY <1>2 DEF BringsUp
  <2>3. QED  BY <1>2, <2>1, <2>2, ForgettingKeepsSingle
<1>3. ASSUME Begin PROVE SingleInv'
  <2>1. op.pc = "idle" /\ UNCHANGED <<unit, env, mode>>
    BY <1>3 DEF Begin, UnloadBegin, LoadBegin, SwitchBegin, RestartBegin, UnloadAllBegin,
       OpAt, units, records
  <2>2. CASE op' = op
    BY <1>1, <2>1, <2>2 DEF Live
  <2>3. CASE op' # op
    <3>1. /\ op'.pc \in {"check", "stop", "stopAll"} /\ op'.todo = op'.slots
          /\ op'.kind = "switch" => op'.slots = Home[op'.mode]
          /\ op'.kind = "load" => \A t \in Slots \ op'.slots : mode[t] # op'.mode
      BY <1>3, <2>3 DEF Begin, UnloadBegin, LoadBegin, SwitchBegin, RestartBegin,
         UnloadAllBegin, Operation
    <3>2. NobodyElseHasIt' /\ SwitchGoesHome' /\ TodoIsAll'
      BY <2>1, <3>1 DEF NobodyElseHasIt, Ahead, SwitchGoesHome, TodoIsAll, OpAt, Starting
    <3>3. \A s \in Slots : Live(s)' => Live(s) /\ ~BringsUp(s)
      BY <2>1 DEF BringsUp, Live, Starting
    <3>4. QED  BY <2>1, <3>2, <3>3, ForgettingKeepsSingle
  <2>4. QED  BY <2>2, <2>3
<1>4. ASSUME StopSlot \/ StopAll \/ LoadCheck \/ WaitGone \/ StopAllWait PROVE SingleInv'
  <2>1. op.pc \notin Starting /\ UNCHANGED <<env, mode>> /\ op.pc # "idle"
    BY <1>4 DEF StopSlot, StopAll, LoadCheck, WaitGone, StopAllWait, OpAt, Starting, records
  <2>2. unit' = unit \/ \E S : StopUnits(S)
    BY <1>4 DEF StopSlot, StopAll, LoadCheck, WaitGone, StopAllWait, units
  <2>3. \A s \in Slots : Live(s)' => Live(s)
    BY <1>0, <2>2 DEF Live, StopUnits, TypeOK, States
  <2>4. CASE op' = Idle
    BY <1>2, <2>1, <2>3, <2>4
  <2>5. CASE op' # Idle
    <3>1. /\ op'.pc \in {"stop", "wait", "write", "free", "waitAll", "clear"}
          /\ op'.pc = "write" => op.kind = "load"
          /\ op'.kind = op.kind /\ op'.slots = op.slots /\ op'.todo = op.todo
          /\ op'.mode = op.mode
      BY <1>0, <1>4, <2>5 DEF StopSlot, StopAll, LoadCheck, WaitGone, StopAllWait, GoTo,
         Return, Ops, OpAt, EngineInv, CheckIsOfLoad
    <3>2. NobodyElseHasIt' /\ SwitchGoesHome' /\ TodoIsAll'
      BY <2>1, <3>1 DEF SingleInv, NobodyElseHasIt, Ahead, SwitchGoesHome, TodoIsAll, OpAt,
         Starting, Single
    <3>3. \A s \in Slots : Live(s)' => Live(s) /\ ~BringsUp(s)
      BY <2>1, <2>3 DEF BringsUp
    <3>4. QED  BY <2>1, <3>2, <3>3, ForgettingKeepsSingle
  <2>6. QED  BY <2>4, <2>5
<1>5. ASSUME UnloadFree PROVE SingleInv'
  <2>1. /\ op.pc = "free" /\ op' = Idle /\ UNCHANGED <<unit, env>>
        /\ \A s \in Slots : mode'[s] = IF s \in op.slots THEN None ELSE mode[s]
    BY <1>5 DEF UnloadFree, OpAt, Return, units
  <2>2. \A s \in op.slots : unit[s] \in Gone
    BY <2>1 DEF EngineInv, FreeKnowsGone, OpAt
  <2>3. QED  BY <1>2, <2>1, <2>2 DEF Live, Gone, Starting
<1>6. ASSUME ClearAllSlots PROVE SingleInv'
  <2>1. op.pc = "clear" /\ UNCHANGED <<unit, env>> /\ \A s \in Slots : mode'[s] = None
    BY <1>6 DEF ClearAllSlots, OpAt, units
  <2>2. \A s \in Slots : unit[s] \in Gone
    BY <2>1 DEF EngineInv, ClearKnowsGone, UnloadAllIsAsked, OpAt
  <2>3. CASE op' = Idle
    BY <1>2, <2>1, <2>2, <2>3 DEF Live, Gone, Starting
  <2>4. CASE op' # Idle
    <3>1. /\ op.kind = "switch" /\ op'.pc = "write" /\ op'.mode = op.mode
          /\ op'.kind = op.kind /\ op'.slots = op.slots /\ op'.todo = op.todo
      BY <1>0, <1>6, <2>4 DEF ClearAllSlots, GoTo, Return, Ops
    <3>2. op.mode \in Modes /\ op.mode # None
      BY <1>0, <3>1, HomeAssumption DEF TypeOK
    <3>3. NobodyElseHasIt' /\ SwitchGoesHome' /\ TodoIsAll'
      BY <2>1, <3>1, <3>2 DEF SingleInv, NobodyElseHasIt, SwitchGoesHome, TodoIsAll, OpAt,
         Starting
    <3>4. \A s \in Slots : ~Live(s)'
      BY <2>1, <2>2 DEF Live, Gone
    <3>5. QED  BY <2>1, <3>3, <3>4, ForgettingKeepsSingle
  <2>5. QED  BY <2>3, <2>4
<1>7. ASSUME WriteServiceFiles PROVE SingleInv'
  <2>1. PICK written \in SUBSET op.slots :
           /\ env' = [s \in Slots |-> IF s \in written THEN op.mode ELSE env[s]]
           /\ IF written = op.slots THEN GoTo("start") ELSE Return
    BY <1>7 DEF WriteServiceFiles
  <2>2. op.pc = "write" /\ UNCHANGED <<unit, mode>> /\ op.slots \subseteq Slots
    BY <1>0, <1>7 DEF WriteServiceFiles, OpAt, units, Ops
  <2>3. op.kind \in {"load", "switch"}
    BY <2>2 DEF FilesInv, LoadIsOfOneSlot
  <2>4. SingleInstance'
    BY <2>2 DEF SingleInv, SingleInstance
  <2>5. CASE written = op.slots
    <3>1. /\ op'.pc = "start" /\ op'.kind = op.kind /\ op'.mode = op.mode
          /\ op'.slots = op.slots /\ op'.todo = op.todo
      BY <1>0, <2>1, <2>5 DEF GoTo, Ops
    <3>2. NobodyElseHasIt' /\ SwitchGoesHome' /\ TodoIsAll'
      BY <2>2, <2>3, <3>1 DEF SingleInv, NobodyElseHasIt, Ahead, SwitchGoesHome, TodoIsAll,
         OpAt, Starting, Single
    <3>3. \A s \in Slots \ op.slots : env'[s] = env[s]
      BY <2>1, <2>5
    <3>4. NothingToInfer'
      BY <2>2, <3>1, <3>3 DEF SingleInv, NothingToInfer, BringsUp, Live, Single, Starting
    <3>5. QED  BY <2>4, <3>2, <3>4 DEF SingleInv
  <2>6. CASE written # op.slots
    <3>1. op' = Idle
      BY <2>1, <2>6 DEF Return
    <3>2. CASE op.kind = "load"
      <4>1. written = {}
        BY <2>6, <3>2 DEF FilesInv, LoadIsOfOneSlot
      <4>2. env' = env
        BY <1>0, <2>1, <4>1 DEF TypeOK
      <4>3. QED  BY <1>2, <2>2, <3>1, <4>2 DEF Live, Starting
    <3>3. CASE op.kind = "switch"
      <4>1. \A s \in Slots : ~Live(s)'
        BY <2>2, <3>3 DEF FilesInv, SwitchStartsClean, Live, Gone
      <4>2. NothingToInfer'
        BY <4>1 DEF NothingToInfer
      <4>3. NobodyElseHasIt' /\ SwitchGoesHome' /\ TodoIsAll'
        BY <3>1 DEF NobodyElseHasIt, Ahead, SwitchGoesHome, TodoIsAll, OpAt, Idle, Starting
      <4>4. QED  BY <2>4, <4>2, <4>3 DEF SingleInv
    <3>4. QED  BY <2>3, <3>2, <3>3
  <2>7. QED  BY <2>5, <2>6
<1>8. ASSUME op.pc \in Starting, op'.pc \in Starting, UNCHANGED <<env, mode>>,
             op'.kind = op.kind, op'.mode = op.mode, op'.slots = op.slots,
             op'.pc = "start" => op'.todo # {},
             \A s \in Slots \ op.slots : unit'[s] = unit[s]
      PROVE  SingleInv'
  <2>1. SingleInstance' /\ NothingToInfer'
    BY <1>8 DEF SingleInv, SingleInstance, NothingToInfer, BringsUp, Live, Single
  <2>2. NobodyElseHasIt' /\ SwitchGoesHome' /\ TodoIsAll'
    BY <1>8 DEF SingleInv, NobodyElseHasIt, Ahead, SwitchGoesHome, TodoIsAll, OpAt,
       Starting, Single
  <2>3. QED  BY <2>1, <2>2 DEF SingleInv
<1>9. ASSUME op.todo # {} PROVE Service \in op.slots /\ Service \in Slots
  BY <1>0, <1>9, ServiceType DEF TypeOK
<1>10. ASSUME op.pc \in Starting, op.todo # {}, op' = Idle, UNCHANGED <<env, mode>>,
              \A s \in Slots : Live(s)' => Live(s) /\ s # Service
       PROVE  SingleInv'
  <2>1. SingleInstance'
    BY <1>10 DEF SingleInv, SingleInstance
  <2>2. QED  BY <1>9, <1>10, <2>1, EndKeepsSingle
<1>11. ASSUME StartService PROVE SingleInv'
  <2>0. op.pc = "start" /\ op.pc \in Starting /\ UNCHANGED <<env, mode>>
    BY <1>11 DEF StartService, OpAt, Starting
  <2>1. CASE op.todo = {} /\ op' = Idle /\ unit' = unit
    <3>1. op.slots = {}
      BY <2>0, <2>1 DEF SingleInv, TodoIsAll, OpAt
    <3>2. NobodyElseHasIt' /\ SwitchGoesHome' /\ TodoIsAll'
      BY <2>1 DEF NobodyElseHasIt, Ahead, SwitchGoesHome, TodoIsAll, OpAt, Idle, Starting
    <3>3. \A s \in Slots : Live(s)' => Live(s) /\ ~BringsUp(s)
      BY <2>1, <3>1 DEF BringsUp, Live
    <3>4. QED  BY <2>0, <3>2, <3>3, ForgettingKeepsSingle
  <2>2. CASE op.todo # {} /\ op' = Idle /\ unit' = [unit EXCEPT ![Service] = "failed"]
    <3>1. \A s \in Slots : Live(s)' => Live(s) /\ s # Service
      BY <1>0, <2>2 DEF TypeOK, Live
    <3>2. QED  BY <1>10, <2>0, <2>2, <3>1
  <2>3. CASE /\ op.todo # {} /\ StartUnit(Service)
             /\ op' = IF IsLastService
                        THEN [op EXCEPT !.pc = "verify", !.todo = op.slots]
                        ELSE [op EXCEPT !.todo = op.todo \ {Service}]
    <3>1. Service \in op.todo
      BY <1>0, <2>3, ServiceType
    <3>2. /\ op'.pc \in {"start", "verify"} /\ op'.kind = op.kind /\ op'.mode = op.mode
          /\ op'.slots = op.slots /\ (op'.pc = "start" => op'.todo # {})
      BY <1>0, <2>0, <2>3, <3>1 DEF Ops, IsLastService
    <3>3. \A s \in Slots \ op.slots : unit'[s] = unit[s]
      BY <1>0, <1>9, <2>3 DEF StartUnit, units, TypeOK
    <3>4. QED  BY <1>8, <2>0, <3>2, <3>3 DEF Starting
  <2>4. QED
    BY <1>11, <2>1, <2>2, <2>3 DEF StartService, Return, units
<1>12. ASSUME VerifyService PROVE SingleInv'
  <2>0. op.pc = "verify" /\ op.pc \in Starting /\ UNCHANGED <<env, mode>>
    BY <1>12 DEF VerifyService, OpAt, Starting, records
  <2>1. op.todo # {}
    BY <2>0 DEF FilesInv, LoadIsOfOneSlot
  <2>2. CASE GoTo("commit") /\ UNCHANGED unit
    <3>1. /\ op'.pc = "commit" /\ op'.kind = op.kind /\ op'.mode = op.mode
          /\ op'.slots = op.slots
      BY <1>0, <2>2 DEF GoTo, Ops
    <3>2. QED  BY <1>8, <2>0, <2>2, <3>1 DEF Starting
  <2>3. CASE StopUnits({Service}) /\ op' = Idle
    <3>1. \A s \in Slots : Live(s)' => Live(s) /\ s # Service
      BY <1>0, <2>3 DEF StopUnits, TypeOK, States, Live
    <3>2. QED  BY <1>10, <2>0, <2>1, <2>3, <3>1
  <2>4. QED  BY <1>12, <2>2, <2>3 DEF VerifyService, Return
<1>13. ASSUME CommitService PROVE SingleInv'
  <2>0. op.pc = "commit" /\ op.pc \in Starting /\ UNCHANGED <<unit, env>>
    BY <1>13 DEF CommitService, OpAt, Starting, units
  <2>1. op.todo # {} /\ op.mode \in Modes /\ op.mode # None
    BY <2>0, HomeAssumption DEF FilesInv, LoadIsOfOneSlot, EngineInv, StartKnowsMode, Starting
  <2>2. mode'[Service] = op.mode /\ \A s \in Slots \ {Service} : mode'[s] = mode[s]
    BY <1>0, <1>9, <1>13, <2>1 DEF CommitService, TypeOK
  <2>3. Single(op.mode) => \A t \in Slots \ {Service} : mode[t] # op.mode
    <3> SUFFICES ASSUME Single(op.mode)
                 PROVE  \A t \in Slots \ {Service} : mode[t] # op.mode
      OBVIOUS
    <3>1. op.slots = {Service}
      BY <1>9, <2>0, <2>1, SingleOperation
    <3>2. Ahead
      BY <2>0 DEF Ahead, OpAt, FilesInv, LoadIsOfOneSlot, Starting
    <3>3. QED  BY <3>1, <3>2 DEF SingleInv, NobodyElseHasIt
  <2>4. SingleInstance'
    BY <2>2, <2>3 DEF SingleInv, SingleInstance, Single
  <2>5. CASE op' = Idle
    BY <1>9, <2>0, <2>1, <2>2, <2>4, <2>5, EndKeepsSingle DEF Live
  <2>6. CASE op' # Idle
    <3>1. op' = [op EXCEPT !.pc = "verify", !.todo = op.todo \ {Service}]
      BY <1>13, <2>6 DEF CommitService, Return
    <3>2. /\ op'.pc = "verify" /\ op'.kind = op.kind /\ op'.mode = op.mode
          /\ op'.slots = op.slots
      BY <1>0, <3>1 DEF Ops
    <3>3. NobodyElseHasIt' /\ SwitchGoesHome' /\ TodoIsAll'
      BY <1>9, <2>0, <2>1, <2>2, <3>2 DEF SingleInv, NobodyElseHasIt, Ahead,
         SwitchGoesHome, TodoIsAll, OpAt, Starting, Single
    <3>4. NothingToInfer'
      BY <2>0, <2>1, <2>2, <3>2 DEF SingleInv, NothingToInfer, BringsUp, Live, Single, Starting
    <3>5. QED  BY <2>4, <3>3, <3>4 DEF SingleInv
  <2>7. QED  BY <2>5, <2>6
<1>14. ASSUME Reconcile PROVE SingleInv'
  <2>0. UNCHANGED <<unit, env, op>>
    BY <1>14 DEF Reconcile, units
  <2>1. \A s \in Slots :
           \/ mode'[s] = mode[s]
           \/ mode'[s] = None /\ ~Live(s)
           \/ mode'[s] = env[s] /\ mode[s] = None /\ Live(s)
    BY <1>14 DEF Reconcile, Reconciled, Gone, Live
  <2>2. ASSUME NEW s \in Slots, mode'[s] # mode[s], mode'[s] # None, Single(mode'[s])
        PROVE  /\ op.pc \in Starting /\ op.slots = {s} /\ mode'[s] = op.mode
               /\ \A t \in Slots \ {s} : mode[t] # op.mode
    <3>1. mode'[s] = env[s] /\ mode[s] = None /\ Live(s)
      BY <2>1, <2>2
    <3>2. BringsUp(s)
      BY <2>2, <3>1 DEF SingleInv, NothingToInfer
    <3>3. env[s] = op.mode /\ op.pc \in Starting /\ s \in op.slots
      BY <3>2 DEF BringsUp, FilesInv, FilesWritten
    <3>4. op.slots = {s}
      BY <2>2, <3>1, <3>3, SingleOperation
    <3>5. Ahead
      BY <3>3 DEF Ahead, OpAt, FilesInv, LoadIsOfOneSlot, Starting
    <3>6. QED  BY <2>2, <3>1, <3>3, <3>4, <3>5 DEF SingleInv, NobodyElseHasIt
  <2>3. SingleInstance'
    <3> SUFFICES ASSUME NEW s \in Slots, NEW t \in Slots, mode'[s] = mode'[t],
                        mode'[s] # None, Single(mode'[s]), s # t
                 PROVE  FALSE
      BY DEF SingleInstance, Single
    <3>1. CASE mode'[s] # mode[s]
      <4>1. mode'[t] # mode[t]
        BY <2>2, <3>1
      <4>2. QED  BY <2>2, <3>1, <4>1
    <3>2. CASE mode'[t] # mode[t]
      <4>1. mode'[s] # mode[s]
        BY <2>2, <3>2
      <4>2. QED  BY <2>2, <3>2, <4>1
    <3>3. CASE mode'[s] = mode[s] /\ mode'[t] = mode[t]
      BY <3>3 DEF SingleInv, SingleInstance, Single
    <3>4. QED  BY <3>1, <3>2, <3>3
  <2>4. NothingToInfer'
    BY <2>0, <2>1 DEF SingleInv, NothingToInfer, BringsUp, Live, Single
  <2>5. NobodyElseHasIt'
    <3> SUFFICES ASSUME Ahead, Single(op.mode), NEW t \in Slots \ op.slots,
                        mode'[t] = op.mode
                 PROVE  FALSE
      BY <2>0 DEF NobodyElseHasIt, Ahead, OpAt, Single
    <3>1. op.mode # None
      BY <1>0, HomeAssumption DEF Ahead, TypeOK
    <3>2. mode[t] # op.mode
      BY DEF SingleInv, NobodyElseHasIt
    <3>3. QED  BY <2>2, <3>1, <3>2
  <2>6. SwitchGoesHome' /\ TodoIsAll'
    BY <2>0 DEF SingleInv, SwitchGoesHome, TodoIsAll, OpAt
  <2>7. QED  BY <2>3, <2>4, <2>5, <2>6 DEF SingleInv
<1>15. ASSUME Probe \/ ReadCurrentMode \/ UNCHANGED vars PROVE SingleInv'
  BY <1>1, <1>15 DEF Probe, ReadCurrentMode, units, records, vars, Live
<1>16. ASSUME NEW t \in Slots, StopDone(t) \/ Crash(t) \/ AutoRestart(t) PROVE SingleInv'
  <2>1. UNCHANGED <<env, mode, op>>
    BY <1>16 DEF StopDone, Crash, AutoRestart, records
  <2>2. \A s \in Slots : Live(s)' => Live(s)
    BY <1>0, <1>16 DEF StopDone, Crash, AutoRestart, TypeOK, Live
  <2>3. QED  BY <1>1, <2>1, <2>2
<1>17. ~Reboot
  BY DEF Reboot
<1>18. QED
  BY <1>3, <1>4, <1>5, <1>6, <1>7, <1>11, <1>12, <1>13, <1>14, <1>15, <1>16, <1>17
     DEF Next, OpStep, Environment

(* Load's single-instance guard holds whatever loads and switches fail and *)
(* processes crash, for any modes and finitely many slots.                 *)
THEOREM OneSlotPerMode ==
  ASSUME IsFiniteSet(Slots), ~Lagging, ~CanReboot, "unloadAll" \notin Kinds
  PROVE  Spec => []SingleInstance
<1>1. Init => FilesInv
  BY DEF Init, FilesInv, OthersAgree, Agrees, FilesWritten, LoadIsOfOneSlot,
     SwitchStartsClean, Starting, Idle
<1>2. Init => SingleInv
  BY DEF Init, SingleInv, SingleInstance, NothingToInfer, NobodyElseHasIt, Ahead,
     SwitchGoesHome, TodoIsAll, OpAt, Idle, Starting
<1>3. EngineInv /\ FilesInv /\ [Next]_vars => FilesInv'
  BY FilesStep
<1>4. EngineInv /\ FilesInv /\ SingleInv /\ [Next]_vars => SingleInv'
  BY SingleStep
<1>5. SingleInv => SingleInstance
  BY DEF SingleInv
<1>6. QED
  BY <1>1, <1>2, <1>3, <1>4, <1>5, EngineInvariant, PTL DEF Spec

-----------------------------------------------------------------------------
(* Why an operation ends.                                                  *)

(* The parts of an operation in their order.                               *)
Phase == [check |-> 0, stop |-> 1, stopAll |-> 1, wait |-> 2, waitAll |-> 2,
          clear |-> 3, free |-> 3, write |-> 4, start |-> 5,
          verify |-> 6, commit |-> 6, idle |-> 7]
(* A pass over the services has one less to start, or to verify; a service *)
(* is committed after it has been verified.  There are finitely many.      *)
Closer(o, p) ==
  \/ Phase[o.pc] < Phase[p.pc]
  \/ /\ Phase[o.pc] = Phase[p.pc]
     /\ \/ p.todo \subseteq o.todo /\ p.todo # o.todo
        \/ p.todo = o.todo /\ o.pc = "verify" /\ p.pc = "commit"

(* A service is only verified and committed when there is one: with none   *)
(* left CommitService would go back to verifying.                          *)
VerifiesSomething == op.pc \in {"verify", "commit"} => op.todo # {}

(* Each pass over the services begins with all of them, and ends with the  *)
(* last.                                                                   *)
LEMMA VerifiesStep ==
  ASSUME TypeOK, VerifiesSomething, [Next]_vars
  PROVE  VerifiesSomething'
<1> USE DEF VerifiesSomething
<1>1. CASE UNCHANGED op
  BY <1>1
<1>2. CASE op'.pc \notin {"verify", "commit"}
  BY <1>2
<1>3. CASE StartService
  <2>1. CASE op.todo = {Service}
    <3>1. op.todo # {} /\ op.todo \subseteq op.slots
      BY <2>1 DEF TypeOK
    <3>2. op' = Idle \/ op'.todo = op.slots
      BY <1>3, <2>1 DEF StartService, Return, IsLastService, TypeOK, Ops
    <3> QED
      BY <3>1, <3>2 DEF Idle
  <2>2. CASE op.todo # {Service}
    <3>1. op' = Idle \/ op'.pc = "start"
      BY <1>3, <2>2 DEF StartService, Return, IsLastService, OpAt, TypeOK, Ops
    <3> QED
      BY <3>1 DEF Idle
  <2> QED
    BY <2>1, <2>2
<1>4. CASE VerifyService
  BY <1>4 DEF VerifyService, GoTo, Return, Idle, OpAt, TypeOK, Ops
<1>5. CASE CommitService
  <2>1. op.todo # {} /\ Service \in op.todo
    BY <1>5, ServiceType DEF CommitService, OpAt
  <2>2. op' = Idle \/ (op.todo # {Service} /\ op'.todo = op.todo \ {Service})
    BY <1>5 DEF CommitService, Return, IsLastService, TypeOK, Ops
  <2> QED
    BY <2>1, <2>2 DEF Idle
<1>6. CASE LoadCheck \/ StopSlot \/ WaitGone \/ UnloadFree \/ StopAll \/ StopAllWait
             \/ ClearAllSlots \/ WriteServiceFiles
  <2>1. op'.pc \notin {"verify", "commit"}
    BY <1>6 DEF LoadCheck, StopSlot, WaitGone, UnloadFree, StopAll, StopAllWait,
       ClearAllSlots, WriteServiceFiles, GoTo, Return, Idle, TypeOK, Ops
  <2> QED
    BY <2>1
<1>7. CASE Begin
  <2>1. op' = op \/ \E k, m, S, l : l \in {"check", "stop", "stopAll"}
                                    /\ op' = Operation(k, m, S, l)
    BY <1>7 DEF Begin, UnloadBegin, LoadBegin, SwitchBegin, RestartBegin, UnloadAllBegin
  <2> QED
    BY <2>1 DEF Operation
<1>8. CASE Environment
  <2>1. op' \in {op, Idle}
    BY <1>8 DEF Environment, Reconcile, Probe, ReadCurrentMode, Reboot, StopDone, Crash,
       AutoRestart
  <2> QED
    BY <2>1 DEF Idle
<1> QED
  BY <1>1, <1>3, <1>4, <1>5, <1>6, <1>7, <1>8 DEF Next, OpStep, vars

(* Every step of the goroutine that holds opMu brings it closer to giving  *)
(* opMu back.                                                              *)
LEMMA OpStepAdvances ==
  ASSUME TypeOK, VerifiesSomething, OpStep
  PROVE  Closer(op, op')
<1> USE DEF OpAt
<1>1. op \in Ops /\ Idle.pc = "idle"
  BY DEF TypeOK, Idle
<1>2. CASE LoadCheck \/ StopSlot \/ StopAll
  <2>1. \/ op.pc = "check" /\ op'.pc \in {"stop", "wait", "write"}
        \/ op.pc = "stop" /\ op'.pc = "wait"
        \/ op.pc = "stopAll" /\ op'.pc = "waitAll"
    BY <1>1, <1>2 DEF LoadCheck, StopSlot, StopAll, GoTo, Ops
  <2> QED
    BY ONLY <2>1 DEF Closer, Phase
<1>3. CASE WaitGone \/ StopAllWait
  <2>1. \/ op.pc = "wait" /\ op'.pc \in {"write", "free", "idle"}
        \/ op.pc = "waitAll" /\ op'.pc \in {"clear", "idle"}
    BY <1>1, <1>3 DEF WaitGone, StopAllWait, GoTo, Return, Ops
  <2> QED
    BY ONLY <2>1 DEF Closer, Phase
<1>4. CASE UnloadFree \/ ClearAllSlots \/ WriteServiceFiles
  <2>1. \/ op.pc = "free" /\ op'.pc = "idle"
        \/ op.pc = "clear" /\ op'.pc \in {"write", "idle"}
        \/ op.pc = "write" /\ op'.pc \in {"start", "idle"}
    BY <1>1, <1>4 DEF UnloadFree, ClearAllSlots, WriteServiceFiles, GoTo, Return, Ops
  <2> QED
    BY ONLY <2>1 DEF Closer, Phase
<1>5. CASE StartService
  <2>1. op.pc = "start"
    BY <1>5 DEF StartService
  <2>2. \/ op'.pc \in {"idle", "verify"}
        \/ op.todo # {} /\ op'.pc = "start" /\ op'.todo = op.todo \ {Service}
    BY <1>1, <1>5 DEF StartService, Return, Ops
  <2>3. op.todo # {} => Service \in op.todo
    BY ServiceType
  <2> QED
    BY ONLY <2>1, <2>2, <2>3 DEF Closer, Phase
<1>6. CASE VerifyService
  <2>1. /\ op.pc = "verify"
        /\ op'.pc = "idle" \/ (op'.pc = "commit" /\ op'.todo = op.todo)
    BY <1>1, <1>6 DEF VerifyService, GoTo, Return, Ops
  <2> QED
    BY ONLY <2>1 DEF Closer, Phase
<1>7. CASE CommitService
  <2>1. op.pc = "commit" /\ Service \in op.todo
    BY <1>7, ServiceType DEF CommitService, VerifiesSomething
  <2>2. op'.pc = "idle" \/ (op'.pc = "verify" /\ op'.todo = op.todo \ {Service})
    BY <1>1, <1>7 DEF CommitService, Return, Ops
  <2> QED
    BY ONLY <2>1, <2>2 DEF Closer, Phase
<1> QED
  BY <1>2, <1>3, <1>4, <1>5, <1>6, <1>7 DEF OpStep

(* Nobody else touches an operation but a restart of the daemon.           *)
LEMMA OpAdvances ==
  ASSUME TypeOK, VerifiesSomething, Next, ~OpAt("idle"), op' # op
  PROVE  Closer(op, op')
<1>1. CASE Begin
  BY <1>1 DEF Begin, UnloadBegin, LoadBegin, SwitchBegin, RestartBegin, UnloadAllBegin
<1>2. CASE OpStep
  BY <1>2, OpStepAdvances
<1>3. CASE Environment
  <2>1. op'.pc = "idle" /\ op.pc \in Labels \ {"idle"}
    BY <1>3 DEF Environment, Reconcile, Probe, ReadCurrentMode, Reboot, StopDone, Crash,
       AutoRestart, Idle, OpAt, TypeOK, Ops
  <2> QED
    BY ONLY <2>1 DEF Closer, Phase, Labels
<1> QED
  BY <1>1, <1>2, <1>3 DEF Next

(* Whatever the units do, crash or not, and whatever old probe the records *)
(* are reconciled with, no operation goes in circles: each of its steps,   *)
(* and whatever else happens to it, brings it closer to giving back opMu.  *)
(* With the fairness of the goroutine that holds opMu this is why          *)
(* OperationsEnd holds.                                                    *)
THEOREM OperationsAdvance ==
  Spec => [][OpStep \/ (~OpAt("idle") /\ op' # op) => Closer(op, op')]_vars
<1>1. Init => VerifiesSomething
  BY DEF Init, Idle, VerifiesSomething
<1>2. TypeOK /\ VerifiesSomething /\ [Next]_vars => VerifiesSomething'
  BY VerifiesStep
<1>3. TypeOK /\ VerifiesSomething /\ [Next]_vars =>
        [OpStep \/ (~OpAt("idle") /\ op' # op) => Closer(op, op')]_vars
  BY OpStepAdvances, OpAdvances
<1> QED
  BY <1>1, <1>2, <1>3, EngineTypeCorrect, PTL DEF Spec
=============================================================================
