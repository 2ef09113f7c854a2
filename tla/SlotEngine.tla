------------------------------ MODULE SlotEngine ------------------------------
(***************************************************************************)
(* The model-lifecycle engine of go/internal/engine: Manager loads, unloads *)
(* and switches modes by driving one systemd unit per slot, one operation  *)
(* at a time under opMu, while the collector and the scheduler reconcile   *)
(* the slot records with what systemd reports, at any moment.              *)
(*                                                                         *)
(* An action is one call to systemd, one access to the slot records, the   *)
(* sysconfig files or the state file.  The time limits of the wait loops   *)
(* are choices: a wait may give up whenever its condition is false.  Calls *)
(* to D-Bus are assumed to be answered.                                    *)
(***************************************************************************)
EXTENDS Integers, FiniteSets

CONSTANTS
  Modes,
  Slots,
  None,      \* no mode, and CurrentMode's "unknown"
  Home,      \* the slots in which a mode's services run after SwitchMode
  Kinds,     \* the lifecycle operations callers use
  Lagging,   \* whether reconciliation may use an earlier probe of the units
  CanCrash,  \* whether a unit's process may die (Restart=on-failure)
  CanReboot  \* whether the daemon may be restarted

AllKinds == {"load", "unload", "unloadAll", "switch", "restart"}
ASSUME HomeAssumption == None \notin Modes /\ Home \in [Modes -> SUBSET Slots]
ASSUME KindsAssumption == Kinds \subseteq AllKinds
ASSUME EngineFlags == {Lagging, CanCrash, CanReboot} \subseteq BOOLEAN

VARIABLES
  unit,      \* systemd: the ActiveState of the slot's unit
  proc,      \* systemd: the mode whose files the unit's process was started from
  seen,      \* the unit states of the collector's last probe
  env,       \* the mode written in the slot's sysconfig files
  mode,      \* slotRec.mode
  recorded,  \* the mode in the state file
  op,        \* the operation that holds opMu
  again      \* the mode of a Restart that has yet to call SwitchMode

records == <<env, mode, recorded>>
units   == <<unit, proc>>
vars == <<unit, proc, seen, env, mode, recorded, op, again>>

-----------------------------------------------------------------------------
(* State formulas.                                                         *)

States == {"inactive", "activating", "active", "deactivating", "failed"}
Gone == {"inactive", "failed"}
Labels == {"idle", "check", "stop", "wait", "free", "stopAll", "waitAll",
           "clear", "write", "start", "verify", "commit"}

Ops == [kind: AllKinds \cup {"none"}, mode: Modes \cup {None},
        slots: SUBSET Slots, todo: SUBSET Slots, pc: Labels]
Idle == [kind |-> "none", mode |-> None, slots |-> {}, todo |-> {}, pc |-> "idle"]
OpAt(label) == op.pc = label
GoTo(label) == op' = [op EXCEPT !.pc = label]
Return == op' = Idle

ActiveSlots == {s \in Slots : unit[s] = "active"}
FullyActive(m) == Home[m] = ActiveSlots

(* CurrentMode trusts the state file when it agrees with the units, and    *)
(* otherwise looks for a mode that does; what it answers is what the state *)
(* file holds when it returns.                                             *)
CurrentAnswers ==
  IF recorded # None /\ FullyActive(recorded)
    THEN {recorded}
    ELSE LET matching == {m \in Modes : FullyActive(m)}
         IN IF matching = {} THEN {recorded} ELSE matching

-----------------------------------------------------------------------------
(* SlotStates: the reconciliation of the slot records.                     *)

ReconciledHasty(view, s) ==                                        \* mutant
  IF view[s] = "active" THEN IF mode[s] = None THEN env[s] ELSE mode[s]
  ELSE None
Reconciled(view, s) ==
  IF view[s] = "active" /\ mode[s] = None THEN env[s]
  ELSE IF view[s] \in Gone THEN None
  ELSE mode[s]

Reconcile ==
  /\ mode' = [s \in Slots |-> Reconciled(IF Lagging THEN seen ELSE unit, s)]
  /\ UNCHANGED <<units, seen, env, recorded, op, again>>

(* The collector's probe of the units.                                     *)
Probe ==
  /\ Lagging
  /\ seen' = unit
  /\ UNCHANGED <<units, records, op, again>>

(* A caller of CurrentMode outside any operation.                          *)
ReadCurrentMode ==
  /\ recorded' \in CurrentAnswers
  /\ UNCHANGED <<units, seen, env, mode, op, again>>

-----------------------------------------------------------------------------
(* systemd: StopUnit and StartUnit are jobs that this daemon asks for; the *)
(* end of a stop, a crash and an automatic restart come when they will.    *)

StopUnits(S) ==
  unit' = [s \in Slots |->
    CASE s \in S /\ unit[s] = "active"     -> "deactivating"
      [] s \in S /\ unit[s] = "activating" -> "inactive"
      [] OTHER                             -> unit[s]]

(* Starting an active unit is no job at all; starting one that is being    *)
(* stopped ends the wait for its old process and brings up the new one.    *)
StartUnit(s) ==
  IF unit[s] = "active" THEN UNCHANGED units
  ELSE /\ unit' = [unit EXCEPT ![s] = "active"]
       /\ proc' = [proc EXCEPT ![s] = env[s]]

StopDone(s) ==
  /\ unit[s] = "deactivating"
  /\ unit' = [unit EXCEPT ![s] = "inactive"]
  /\ proc' = [proc EXCEPT ![s] = None]
  /\ UNCHANGED <<seen, records, op, again>>

Crash(s) ==
  /\ CanCrash /\ unit[s] = "active"
  /\ unit' \in {[unit EXCEPT ![s] = u] : u \in {"activating", "failed"}}
  /\ proc' = [proc EXCEPT ![s] = None]
  /\ UNCHANGED <<seen, records, op, again>>

AutoRestart(s) ==
  /\ unit[s] = "activating"
  /\ unit' = [unit EXCEPT ![s] = "active"]
  /\ proc' = [proc EXCEPT ![s] = env[s]]
  /\ UNCHANGED <<seen, records, op, again>>

-----------------------------------------------------------------------------
(* Load.                                                                   *)

Operation(k, m, S, label) ==
  [kind |-> k, mode |-> m, slots |-> S, todo |-> S, pc |-> label]

LoadBeginUnguarded(m, s) ==                                        \* mutant
  /\ OpAt("idle") /\ "load" \in Kinds
  /\ Home[m] # {}
  /\ op' = Operation("load", m, {s}, "check")
  /\ UNCHANGED <<units, seen, records, again>>

(* The guards of Load: a mode that has services and is on no other slot.   *)
(* The refusal of a second instance of the same weights changes no state.  *)
LoadBegin(m, s) ==
  /\ OpAt("idle") /\ "load" \in Kinds
  /\ Home[m] # {}
  /\ \A t \in Slots \ {s} : mode[t] # m
  /\ op' = Operation("load", m, {s}, "check")
  /\ UNCHANGED <<units, seen, records, again>>

LoadCheckActiveOnly ==                                             \* mutant
  /\ OpAt("check")
  /\ \E s \in op.slots :
       GoTo(IF unit[s] = "active" THEN "stop" ELSE "write")
  /\ UNCHANGED <<units, seen, records, again>>

(* The state of the slot's unit decides what must happen before the start. *)
LoadCheck ==
  /\ OpAt("check")
  /\ \E s \in op.slots :
       GoTo(CASE unit[s] = "active"       -> "stop"
              [] unit[s] = "deactivating" -> "wait"
              [] OTHER                    -> "write")
  /\ UNCHANGED <<units, seen, records, again>>

(* Load and Unload stop the unit they were given.                          *)
StopSlot ==
  /\ OpAt("stop")
  /\ StopUnits(op.slots)
  /\ GoTo("wait")
  /\ UNCHANGED <<proc, seen, records, again>>

WaitGoneForever ==                                                 \* mutant
  /\ OpAt("wait")
  /\ \A s \in op.slots : unit[s] \in Gone
  /\ GoTo(IF op.kind = "load" THEN "write" ELSE "free")
  /\ UNCHANGED <<units, seen, records, again>>

(* waitUnitGone: the operation fails when the unit outlasts the wait, which *)
(* may happen at any moment.                                               *)
WaitGone ==
  /\ OpAt("wait")
  /\ IF \A s \in op.slots : unit[s] \in Gone
       THEN GoTo(IF op.kind = "load" THEN "write" ELSE "free")
       ELSE Return
  /\ UNCHANGED <<units, seen, records, again>>

(* Unload                                                                  *)
UnloadBegin(s) ==
  /\ OpAt("idle") /\ "unload" \in Kinds
  /\ op' = Operation("unload", None, {s}, "stop")
  /\ UNCHANGED <<units, seen, records, again>>

UnloadFree ==
  /\ OpAt("free")
  /\ mode' = [s \in Slots |-> IF s \in op.slots THEN None ELSE mode[s]]
  /\ Return
  /\ UNCHANGED <<units, seen, env, recorded, again>>

-----------------------------------------------------------------------------
(* SwitchMode, Restart and the unload of every slot.                       *)

(* SwitchMode answers at once when the mode is current and its units, and  *)
(* no others, are active.                                                  *)
SwitchBegin(m) ==
  /\ OpAt("idle")
  /\ "switch" \in Kinds \/ again = m
  /\ again' = IF again = m THEN None ELSE again
  /\ \E current \in CurrentAnswers :
       /\ recorded' = current
       /\ IF current = m /\ FullyActive(m)
            THEN UNCHANGED op
            ELSE op' = Operation("switch", m, Home[m], "stopAll")
  /\ UNCHANGED <<units, seen, env, mode>>

RestartUnknown ==                                                  \* mutant
  /\ OpAt("idle") /\ "restart" \in Kinds /\ again = None
  /\ \E current \in CurrentAnswers :
       /\ recorded' = current
       /\ op' = Operation("restart", current, {}, "stopAll")
  /\ UNCHANGED <<units, seen, env, mode, again>>

(* Restart reads the current mode before it takes opMu.                    *)
RestartBegin ==
  /\ OpAt("idle") /\ "restart" \in Kinds /\ again = None
  /\ \E current \in CurrentAnswers :
       /\ recorded' = current
       /\ current # None /\ Home[current] # {}
       /\ op' = Operation("restart", current, {}, "stopAll")
  /\ UNCHANGED <<units, seen, env, mode, again>>

UnloadAllBegin ==
  /\ OpAt("idle") /\ "unloadAll" \in Kinds
  /\ op' = Operation("unloadAll", None, {}, "stopAll")
  /\ UNCHANGED <<units, seen, records, again>>

StopAll ==
  /\ OpAt("stopAll")
  /\ StopUnits(Slots)
  /\ GoTo("waitAll")
  /\ UNCHANGED <<proc, seen, records, again>>

(* stopAll reports whether every unit was gone in time; the unload of      *)
(* every slot ignores what it reports.  The processes it then kills are    *)
(* gone when systemd says so (StopDone).                                   *)
StopAllWait ==
  /\ OpAt("waitAll")
  /\ IF op.kind = "unloadAll" \/ \A s \in Slots : unit[s] \in Gone
       THEN GoTo("clear")
       ELSE Return
  /\ UNCHANGED <<units, seen, records, again>>

(* clearAllSlots, and where each operation goes from there.                *)
ClearAllSlots ==
  /\ OpAt("clear")
  /\ mode' = [s \in Slots |-> None]
  /\ IF op.kind = "switch" THEN GoTo("write") ELSE Return
  /\ again' = IF op.kind = "restart" THEN op.mode ELSE again
  /\ UNCHANGED <<units, seen, env, recorded>>

-----------------------------------------------------------------------------
(* The second half of Load and of SwitchMode.                              *)

WriteNoFiles ==                                                    \* mutant
  /\ OpAt("write")
  /\ GoTo("start")
  /\ UNCHANGED <<units, seen, records, again>>

(* writeServiceFiles for each service; it may fail with some written.      *)
WriteServiceFiles ==
  /\ OpAt("write")
  /\ \E written \in SUBSET op.slots :
       /\ env' = [s \in Slots |-> IF s \in written THEN op.mode ELSE env[s]]
       /\ IF written = op.slots THEN GoTo("start") ELSE Return
  /\ UNCHANGED <<units, seen, mode, recorded, again>>

(* The service the operation is at: services are taken in a fixed order.   *)
Service == CHOOSE s \in op.todo : TRUE
IsLastService == op.todo = {Service}

(* One Start per service; when the job fails so does the operation, and    *)
(* the units it has started keep running.  A mode without services has     *)
(* nothing to start or to verify.                                          *)
StartService ==
  /\ OpAt("start")
  /\ \/ /\ op.todo = {}
        /\ recorded' = op.mode
        /\ Return
        /\ UNCHANGED units
     \/ /\ op.todo # {}
        /\ StartUnit(Service)
        /\ op' = IF IsLastService
                   THEN [op EXCEPT !.pc = "verify", !.todo = op.slots]
                   ELSE [op EXCEPT !.todo = @ \ {Service}]
        /\ UNCHANGED recorded
     \/ /\ op.todo # {} /\ unit[Service] # "active"
        /\ unit' = [unit EXCEPT ![Service] = "failed"]
        /\ proc' = [proc EXCEPT ![Service] = None]
        /\ Return
        /\ UNCHANGED recorded
  /\ UNCHANGED <<seen, env, mode, again>>

(* waitServiceRunning for the next service: it is up, or it died or was    *)
(* too slow and its unit is stopped without waiting for it.                *)
VerifyService ==
  /\ OpAt("verify")
  /\ \/ unit[Service] = "active" /\ GoTo("commit") /\ UNCHANGED unit
     \/ StopUnits({Service}) /\ Return
  /\ UNCHANGED <<proc, seen, records, again>>

(* setSlotMode; after its last service a switch saves its mode.            *)
CommitService ==
  /\ OpAt("commit")
  /\ mode' = [mode EXCEPT ![Service] = op.mode]
  /\ IF IsLastService
       THEN /\ Return
            /\ recorded' = IF op.kind = "switch" THEN op.mode ELSE recorded
       ELSE /\ op' = [op EXCEPT !.pc = "verify", !.todo = @ \ {Service}]
            /\ UNCHANGED recorded
  /\ UNCHANGED <<units, seen, env, again>>

-----------------------------------------------------------------------------
(* The daemon stops at any point; NewManager reconciles empty records with *)
(* the units, which have gone on running.                                  *)
Reboot ==
  /\ CanReboot
  /\ mode' = [s \in Slots |-> IF unit[s] = "active" THEN env[s] ELSE None]
  /\ seen' = unit
  /\ op' = Idle /\ again' = None
  /\ UNCHANGED <<units, env, recorded>>

(* A machine on which nothing was ever loaded.                             *)
Init ==
  /\ unit = [s \in Slots |-> "inactive"]
  /\ proc = [s \in Slots |-> None]
  /\ env  = [s \in Slots |-> None]
  /\ mode = [s \in Slots |-> None]
  /\ seen = unit
  /\ recorded = None
  /\ op = Idle
  /\ again = None

Begin ==
  \/ \E s \in Slots : UnloadBegin(s) \/ \E m \in Modes : LoadBegin(m, s)
  \/ \E m \in Modes : SwitchBegin(m)
  \/ RestartBegin
  \/ UnloadAllBegin

(* The goroutine that holds opMu.                                          *)
OpStep ==
  \/ LoadCheck \/ StopSlot \/ WaitGone \/ UnloadFree
  \/ StopAll \/ StopAllWait \/ ClearAllSlots
  \/ WriteServiceFiles \/ StartService \/ VerifyService \/ CommitService

Environment ==
  \/ Reconcile \/ Probe \/ ReadCurrentMode \/ Reboot
  \/ \E s \in Slots : StopDone(s) \/ Crash(s) \/ AutoRestart(s)

Next == Begin \/ OpStep \/ Environment

Spec == Init /\ [][Next]_vars
FairSpec == Spec /\ WF_vars(OpStep)

-----------------------------------------------------------------------------
(* Correctness properties.                                                 *)

(* The type invariant of the units, of Manager.slots and of the operation  *)
(* under Manager.opMu.                                                     *)
TypeOK ==
  /\ unit \in [Slots -> States]
  /\ proc \in [Slots -> Modes \cup {None}]
  /\ seen \in [Slots -> States]
  /\ env \in [Slots -> Modes \cup {None}]
  /\ mode \in [Slots -> Modes \cup {None}]
  /\ recorded \in Modes \cup {None}
  /\ op \in Ops
  /\ op.todo \subseteq op.slots
  /\ op.kind \in {"load", "switch", "restart"} => op.mode \in Modes
  /\ again \in Modes \cup {None}

(* The slot record of a running daemon is cleared only when the slot's     *)
(* unit is really gone, never while its process still holds its memory:    *)
(* the rule of Manager.SlotStates, of Unload and of a switch.              *)
ClearsOnlyGone ==
  [][\A s \in Slots :
       (mode[s] # None /\ mode'[s] = None) => unit[s] \in Gone]_vars

(* A mode of a single service is on at most one slot, whatever order loads *)
(* and switches, failed or not, crashes and inference from the sysconfig   *)
(* files come in: Load's single-instance guard covers every way in.        *)
SingleInstance ==
  \A s, t \in Slots :
    (mode[s] = mode[t] /\ mode[s] # None /\ Cardinality(Home[mode[s]]) = 1)
      => s = t

(* With no operation under way, the record of an active slot is what a     *)
(* restarted daemon would infer from the slot's sysconfig files.           *)
BootAgrees ==
  \A s \in Slots :
    (OpAt("idle") /\ unit[s] = "active" /\ mode[s] # None)
      => mode[s] = env[s]

(* An operation that is about to start a unit finds no old process being   *)
(* stopped there, even when the slot records are wrong: the state check in *)
(* Load and stopAll's verdict in SwitchMode protect a slot on their own.   *)
NoStartOverStopping ==
  OpAt("start") => \A s \in op.todo : unit[s] # "deactivating"

(* An operation ends, and opMu is released, although systemd may never     *)
(* finish a stop: every wait loop has its limit.                           *)
OperationsEnd == ~OpAt("idle") ~> OpAt("idle")
=============================================================================
