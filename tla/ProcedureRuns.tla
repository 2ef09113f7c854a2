---------------------------- MODULE ProcedureRuns ----------------------------
(***************************************************************************)
(* The procedure runner of go/internal/smith over the maintenance gate.    *)
(* An approved procedure action is executed by one goroutine, step after   *)
(* step, with its progress in the store: it opens a window before the      *)
(* first step that needs one, parks at checkpoints until an operator       *)
(* approves or aborts, and is resumed when the daemon starts again.        *)
(*                                                                         *)
(* Each action is one store statement, one call of the gate, or the end of *)
(* one step's command.  The daemon may crash between any two of them, or   *)
(* be told to stop: its background context is cancelled, so that every     *)
(* later statement of a runner fails until the process is gone.            *)
(***************************************************************************)
EXTENDS MaintenanceGate, Integers

CONSTANTS
  Actions,       \* the procedure actions
  Workers,       \* goroutines: runners, and handlers that abort a run
  None,          \* a goroutine without a job
  Last,          \* number of steps of the procedure
  Checkpoints,   \* the steps that pause the run once they have succeeded
  Judged,        \* the steps whose failure pauses the run (FailCheckpoint)
  NeedsWindow,   \* the steps that need the window
  HasPreconditions,
  MaxStarts      \* bound on the daemon's restarts

ASSUME ActionsAssumption == None \notin Actions
ASSUME StepsAssumption ==
  /\ Last \in Nat \ {0}
  /\ Checkpoints \subseteq 1..Last /\ Judged \subseteq 1..Last
  /\ NeedsWindow \subseteq 1..Last
(* No registered procedure checks preconditions before a first step that   *)
(* needs the window: the runner would not give the window back.            *)
ASSUME RegistryAssumption ==
  HasPreconditions \in BOOLEAN /\ (HasPreconditions => 1 \notin NeedsWindow)
ASSUME StartsAssumption == MaxStarts \in Nat

VARIABLES
  action,    \* status in smith_actions
  row,       \* the row in smith_procedure_runs
  daemon,    \* whether the process runs, and its background context
  starts,    \* how often it has been started again
  job,       \* the action a goroutine works for
  pc,        \* where it is
  mem,       \* its copy of the run: next step and lease
  verdict,   \* how its run ended
  done,      \* history: the steps that have succeeded
  approved   \* history: the checkpoints an operator has approved

storeVars  == <<action, row>>
workerVars == <<job, pc, mem, verdict>>
history    == <<done, approved>>
vars == <<window, saved, action, row, daemon, starts,
          job, pc, mem, verdict, done, approved>>

-----------------------------------------------------------------------------
(* State formulas.                                                         *)

Steps == 1..Last
Live == {"running", "awaiting"}
Ended == {"completed", "failed", "precondition_failed", "aborted"}
NoRow == [status |-> "none", step |-> 1, lease |-> NoLease]
Rows == [status: {"none"} \cup Live \cup Ended,
         step: 1..(Last + 1), lease: Leases \cup {NoLease}]
NoCopy == [step |-> 1, lease |-> NoLease]
Copies == [step: 1..(Last + 1), lease: Leases \cup {NoLease}]

Labels == {"idle", "dispatch", "create", "resume", "check", "loop", "saveLease",
           "step", "saveStep", "pause", "release", "saveEnd", "finish",
           "abortRead", "abortRelease", "abortFinish"}

(* A goroutine that drives its job's run or closes it; the handler of an   *)
(* abort does not until its compare-and-set has succeeded.                 *)
Works(w) == pc[w] \notin {"idle", "abortRead"}

(* The leases of running and parked runs: hasLiveMaintenanceLease.         *)
LiveLeases == {row[a].lease : a \in {b \in Actions : row[b].status \in Live}}
(* A lease is drawn once: what is drawn is not in use anywhere.            *)
Unused(l) ==
  /\ \A a \in Actions : row[a].lease # l
  /\ \A w \in Workers : mem[w].lease # l
  /\ ~HoldsWindow(l) /\ (saved # NoWindow => saved.lease # l)
Resumable == {a \in Actions : action[a] = "executing" /\ row[a].status = "running"}

-----------------------------------------------------------------------------
Init ==
  /\ GateInit
  /\ action = [a \in Actions |-> "pending"]
  /\ row = [a \in Actions |-> NoRow]
  /\ daemon = "up"
  /\ starts = 0
  /\ job = [w \in Workers |-> None]
  /\ pc = [w \in Workers |-> "idle"]
  /\ mem = [w \in Workers |-> NoCopy]
  /\ verdict = [w \in Workers |-> "none"]
  /\ done = [a \in Actions |-> {}]
  /\ approved = [a \in Actions |-> {}]

Goto(w, from, to) == pc[w] = from /\ pc' = [pc EXCEPT ![w] = to]

(* A goroutine for a, which starts at the given place with the given copy. *)
Spawn(w, a, label, copy) ==
  /\ pc[w] = "idle"
  /\ job' = [job EXCEPT ![w] = a]
  /\ pc' = [pc EXCEPT ![w] = label]
  /\ mem' = [mem EXCEPT ![w] = copy]
  /\ verdict' = [verdict EXCEPT ![w] = "none"]

End(w) ==
  /\ job' = [job EXCEPT ![w] = None]
  /\ pc' = [pc EXCEPT ![w] = "idle"]
  /\ mem' = [mem EXCEPT ![w] = NoCopy]
  /\ verdict' = [verdict EXCEPT ![w] = "none"]

(* persistProcedureRun writes the whole copy; once the background context  *)
(* is cancelled the statement fails, which is only logged.                 *)
SaveRun(w, s) ==
  row' = IF daemon = "up"
         THEN [row EXCEPT ![job[w]] = [status |-> s, step |-> mem[w].step,
                                       lease |-> mem[w].lease]]
         ELSE row

-----------------------------------------------------------------------------
(* The life of an action up to its run.                                    *)

Approve(w, a) ==
  /\ daemon # "down"
  /\ action[a] = "pending"
  /\ action' = [action EXCEPT ![a] = "approved"]
  /\ Spawn(w, a, "dispatch", NoCopy)
  /\ UNCHANGED <<gateVars, row, daemon, starts, history>>

Decline(a, s) ==
  /\ daemon # "down"
  /\ action[a] = "pending"
  /\ action' = [action EXCEPT ![a] = s]
  /\ UNCHANGED <<gateVars, row, daemon, starts, workerVars, history>>

(* executeAction's compare-and-set.                                        *)
Execute(w) ==
  /\ daemon = "up"
  /\ Goto(w, "dispatch", "create")
  /\ action[job[w]] = "approved"
  /\ action' = [action EXCEPT ![job[w]] = "executing"]
  /\ UNCHANGED <<gateVars, row, daemon, starts, job, mem, verdict, history>>

CreateRun(w) ==
  /\ daemon = "up"
  /\ Goto(w, "create", "check")
  /\ row' = [row EXCEPT ![job[w]] = [NoRow EXCEPT !.status = "running"]]
  /\ UNCHANGED <<gateVars, action, daemon, starts, job, mem, verdict, history>>

(* A goroutine whose first statement fails with the cancelled context ends *)
(* there, whatever it was started for.                                     *)
EndEarly(w) ==
  /\ daemon = "stopping"
  /\ pc[w] \in {"dispatch", "create", "resume"}
  /\ End(w)
  /\ UNCHANGED <<gateVars, storeVars, daemon, starts, history>>

(* continueProcedureRun reads the run it goes on with.                     *)
LoadRun(w) ==
  /\ daemon = "up"
  /\ Goto(w, "resume", "check")
  /\ action[job[w]] = "executing"
  /\ mem' = [mem EXCEPT ![w] = [step |-> row[job[w]].step,
                                lease |-> row[job[w]].lease]]
  /\ UNCHANGED <<gateVars, storeVars, daemon, starts, job, verdict, history>>

-----------------------------------------------------------------------------
(* runProcedureSteps.                                                      *)

Proceed(w) ==
  /\ Goto(w, "check", "loop")
  /\ UNCHANGED <<gateVars, storeVars, daemon, starts, job, mem, verdict, history>>

(* A precondition is critical: the run ends before its first step.         *)
PreconditionFails(w) ==
  /\ HasPreconditions
  /\ mem[w].step = 1
  /\ Goto(w, "check", "finish")
  /\ SaveRun(w, "precondition_failed")
  /\ verdict' = [verdict EXCEPT ![w] = "failed"]
  /\ UNCHANGED <<gateVars, action, daemon, starts, job, mem, history>>

MustEnter(w) == mem[w].step \in NeedsWindow /\ mem[w].lease = NoLease

OpenWindow(w) ==
  /\ Goto(w, "loop", "saveLease")
  /\ MustEnter(w)
  /\ \E l \in Leases : /\ Unused(l)
                      /\ Enter(l, "smith")
                      /\ mem' = [mem EXCEPT ![w].lease = l]
  /\ UNCHANGED <<storeVars, daemon, starts, job, verdict, history>>

(* Somebody else's window is open: the run fails.                          *)
WindowRefused(w) ==
  /\ Goto(w, "loop", "release")
  /\ MustEnter(w)
  /\ window # NoWindow
  /\ verdict' = [verdict EXCEPT ![w] = "failed"]
  /\ UNCHANGED <<gateVars, storeVars, daemon, starts, job, mem, history>>

SaveLease(w) ==
  /\ Goto(w, "saveLease", "step")
  /\ SaveRun(w, "running")
  /\ UNCHANGED <<gateVars, action, daemon, starts, job, mem, verdict, history>>

(* The next step's command or operation begins.                            *)
BeginStep(w) ==
  /\ Goto(w, "loop", "step")
  /\ mem[w].step \in Steps
  /\ ~MustEnter(w)
  /\ UNCHANGED <<gateVars, storeVars, daemon, starts, job, mem, verdict, history>>

(* It succeeds and its verify checks are clean.                            *)
StepDone(w) ==
  /\ Goto(w, "step", "saveStep")
  /\ mem' = [mem EXCEPT ![w].step = @ + 1]
  /\ done' = [done EXCEPT ![job[w]] = @ \cup {mem[w].step}]
  /\ UNCHANGED <<gateVars, storeVars, daemon, starts, job, verdict, approved>>

(* Mutant: the step counter moves on before the failure is looked at.      *)
StepFailsCounted(w) ==
  /\ pc[w] = "step"
  /\ mem' = [mem EXCEPT ![w].step = @ + 1]
  /\ IF mem[w].step \in Judged
     THEN /\ pc' = [pc EXCEPT ![w] = "pause"]
          /\ UNCHANGED verdict
     ELSE /\ pc' = [pc EXCEPT ![w] = "release"]
          /\ verdict' = [verdict EXCEPT ![w] = "failed"]
  /\ UNCHANGED <<gateVars, storeVars, daemon, starts, job, history>>

(* It fails or is not confirmed; a rollback is best-effort and leaves no   *)
(* trace here.                                                             *)
StepFails(w) ==
  /\ pc[w] = "step"
  /\ IF mem[w].step \in Judged
     THEN /\ pc' = [pc EXCEPT ![w] = "pause"]
          /\ UNCHANGED verdict
     ELSE /\ pc' = [pc EXCEPT ![w] = "release"]
          /\ verdict' = [verdict EXCEPT ![w] = "failed"]
  /\ UNCHANGED <<gateVars, storeVars, daemon, starts, job, mem, history>>

(* The step that was just done is written down; a checkpoint's pause is a  *)
(* statement of its own.                                                   *)
SaveStep(w) ==
  /\ Goto(w, "saveStep", IF mem[w].step - 1 \in Checkpoints THEN "pause" ELSE "loop")
  /\ SaveRun(w, "running")
  /\ UNCHANGED <<gateVars, action, daemon, starts, job, mem, verdict, history>>

(* The run is parked, with its window, and the goroutine is done.          *)
Pause(w) ==
  /\ pc[w] = "pause"
  /\ SaveRun(w, "awaiting")
  /\ End(w)
  /\ UNCHANGED <<gateVars, action, daemon, starts, history>>

AllDone(w) ==
  /\ Goto(w, "loop", "release")
  /\ mem[w].step > Last
  /\ verdict' = [verdict EXCEPT ![w] = "completed"]
  /\ UNCHANGED <<gateVars, storeVars, daemon, starts, job, mem, history>>

(* Mutant: a failed run keeps its window.                                  *)
ReleaseIfCompleted(w) ==
  /\ Goto(w, "release", "saveEnd")
  /\ IF verdict[w] = "completed" THEN Exit(mem[w].lease) ELSE UNCHANGED gateVars
  /\ UNCHANGED <<storeVars, daemon, starts, job, mem, verdict, history>>

Release(w) ==
  /\ Goto(w, "release", "saveEnd")
  /\ Exit(mem[w].lease)
  /\ UNCHANGED <<storeVars, daemon, starts, job, mem, verdict, history>>

(* Done stands for done and done_unverified.                               *)
Outcome(w) == IF verdict[w] = "completed" THEN "done" ELSE "failed"

(* Mutants: the action's status goes into the run's row; the run's own row *)
(* is never closed.                                                        *)
SaveEndRaw(w) ==
  /\ Goto(w, "saveEnd", "finish")
  /\ SaveRun(w, Outcome(w))
  /\ UNCHANGED <<gateVars, action, daemon, starts, job, mem, verdict, history>>
SaveEndSkipped(w) ==
  /\ Goto(w, "saveEnd", "finish")
  /\ UNCHANGED <<gateVars, storeVars, daemon, starts, job, mem, verdict, history>>

SaveEnd(w) ==
  /\ Goto(w, "saveEnd", "finish")
  /\ SaveRun(w, verdict[w])
  /\ UNCHANGED <<gateVars, action, daemon, starts, job, mem, verdict, history>>

(* The action's outcome, by compare-and-set.                               *)
Finish(w) ==
  /\ pc[w] = "finish"
  /\ action' = IF daemon = "up" /\ action[job[w]] = "executing"
               THEN [action EXCEPT ![job[w]] = Outcome(w)]
               ELSE action
  /\ End(w)
  /\ UNCHANGED <<gateVars, row, daemon, starts, history>>

-----------------------------------------------------------------------------
(* Checkpoints.                                                            *)

IsParked(a) == action[a] = "executing" /\ row[a].status = "awaiting"

(* Mutant: the run's status is not compared when it is set.                *)
ApproveUnguarded(w, a) ==
  /\ daemon # "down"
  /\ action[a] = "executing"
  /\ row[a].status \in Live
  /\ row' = [row EXCEPT ![a].status = "running"]
  /\ approved' = [approved EXCEPT ![a] = @ \cup ({row[a].step - 1} \cap Checkpoints)]
  /\ Spawn(w, a, "resume", NoCopy)
  /\ UNCHANGED <<gateVars, action, daemon, starts, done>>

ApproveCheckpoint(w, a) ==
  /\ daemon # "down"
  /\ IsParked(a)
  /\ row' = [row EXCEPT ![a].status = "running"]
  /\ approved' = [approved EXCEPT ![a] = @ \cup ({row[a].step - 1} \cap Checkpoints)]
  /\ Spawn(w, a, "resume", NoCopy)
  /\ UNCHANGED <<gateVars, action, daemon, starts, done>>

(* The abort handler reads the run first, whatever its status...           *)
AbortCheckpoint(w, a) ==
  /\ daemon # "down"
  /\ action[a] = "executing"
  /\ row[a].status # "none"
  /\ Spawn(w, a, "abortRead", [step |-> row[a].step, lease |-> row[a].lease])
  /\ UNCHANGED <<gateVars, storeVars, daemon, starts, history>>

(* ... and then compares and sets: the run may have gone on in between.    *)
AbortTakes(w) ==
  /\ Goto(w, "abortRead", "abortRelease")
  /\ row[job[w]].status = "awaiting"
  /\ row' = [row EXCEPT ![job[w]].status = "aborted"]
  /\ UNCHANGED <<gateVars, action, daemon, starts, job, mem, verdict, history>>

AbortRefused(w) ==
  /\ pc[w] = "abortRead"
  /\ row[job[w]].status # "awaiting"
  /\ End(w)
  /\ UNCHANGED <<gateVars, storeVars, daemon, starts, history>>

AbortRelease(w) ==
  /\ Goto(w, "abortRelease", "abortFinish")
  /\ Exit(mem[w].lease)
  /\ UNCHANGED <<storeVars, daemon, starts, job, mem, verdict, history>>

(* The handler runs on the request's context: the client may be gone, and  *)
(* then the action stays as it is.                                         *)
AbortFinish(w) ==
  /\ pc[w] = "abortFinish"
  /\ \/ /\ action[job[w]] = "executing"
        /\ action' = [action EXCEPT ![job[w]] = "failed"]
     \/ UNCHANGED action
  /\ End(w)
  /\ UNCHANGED <<gateVars, row, daemon, starts, history>>

-----------------------------------------------------------------------------
(* The daemon, and the window's other users.                               *)

Stop ==
  /\ daemon = "up"
  /\ starts < MaxStarts
  /\ daemon' = "stopping"
  /\ UNCHANGED <<gateVars, storeVars, starts, workerVars, history>>

(* The process ends, after a stop or in a crash: its goroutines are gone.  *)
Die ==
  /\ daemon # "down"
  /\ starts < MaxStarts
  /\ daemon' = "down"
  /\ window' = NoWindow
  /\ job' = [w \in Workers |-> None]
  /\ pc' = [w \in Workers |-> "idle"]
  /\ mem' = [w \in Workers |-> NoCopy]
  /\ verdict' = [w \in Workers |-> "none"]
  /\ UNCHANGED <<saved, storeVars, starts, history>>

(* Mutant: nothing is resumed.                                             *)
BootWithoutResume ==
  /\ daemon = "down"
  /\ daemon' = "up"
  /\ starts' = starts + 1
  /\ Reopen(LiveLeases)
  /\ job' = [w \in Workers |-> None]
  /\ pc' = [w \in Workers |-> "idle"]
  /\ UNCHANGED <<storeVars, mem, verdict, history>>

(* The gate is reconciled first, then every run that was underway resumes. *)
Boot ==
  /\ daemon = "down"
  /\ daemon' = "up"
  /\ starts' = starts + 1
  /\ Reopen(LiveLeases)
  /\ job' \in [Workers -> Resumable \cup {None}]
  /\ \A a \in Resumable : \E w \in Workers : job'[w] = a
  /\ \A v, w \in Workers : job'[v] = job'[w] /\ job'[v] # None => v = w
  /\ pc' = [w \in Workers |-> IF job'[w] = None THEN "idle" ELSE "resume"]
  /\ UNCHANGED <<storeVars, mem, verdict, history>>

OperatorEnters ==
  /\ daemon # "down"
  /\ \E l \in Leases : Unused(l) /\ Enter(l, "operator")
  /\ UNCHANGED <<storeVars, daemon, starts, workerVars, history>>

WindowEnds ==
  /\ daemon # "down"
  /\ Close
  /\ UNCHANGED <<storeVars, daemon, starts, workerVars, history>>

(* What a goroutine does next.                                             *)
Step(w) ==
  \/ Execute(w) \/ CreateRun(w) \/ EndEarly(w) \/ LoadRun(w)
  \/ Proceed(w) \/ PreconditionFails(w)
  \/ OpenWindow(w) \/ WindowRefused(w) \/ SaveLease(w)
  \/ BeginStep(w) \/ StepDone(w) \/ StepFails(w) \/ SaveStep(w) \/ Pause(w)
  \/ AllDone(w) \/ Release(w) \/ SaveEnd(w) \/ Finish(w)
  \/ AbortTakes(w) \/ AbortRefused(w) \/ AbortRelease(w) \/ AbortFinish(w)

Next ==
  \/ \E w \in Workers : Step(w)
  \/ \E w \in Workers, a \in Actions :
       Approve(w, a) \/ ApproveCheckpoint(w, a) \/ AbortCheckpoint(w, a)
  \/ \E a \in Actions, s \in {"rejected", "superseded"} : Decline(a, s)
  \/ OperatorEnters \/ WindowEnds
  \/ Stop \/ Die \/ Boot

Spec == Init /\ [][Next]_vars

(* Goroutines run and their commands have timeouts; systemd ends a daemon  *)
(* that was told to stop, the first half of a restart, and starts one that *)
(* crashed (Restart=on-failure).                                           *)
Fairness ==
  /\ \A w \in Workers : WF_vars(Step(w))
  /\ WF_vars(daemon = "stopping" /\ Die)
  /\ WF_vars(Boot)
FairSpec == Spec /\ Fairness

-----------------------------------------------------------------------------
(* Properties.                                                             *)

(* Every variable has its type.                                            *)
TypeOK ==
  /\ GateTypeOK
  /\ action \in [Actions -> {"pending", "approved", "executing", "done", "failed",
                             "rejected", "superseded"}]
  /\ row \in [Actions -> Rows]
  /\ daemon \in {"up", "stopping", "down"}
  /\ starts \in 0..MaxStarts
  /\ job \in [Workers -> Actions \cup {None}]
  /\ pc \in [Workers -> Labels]
  /\ mem \in [Workers -> Copies]
  /\ verdict \in [Workers -> {"none", "completed", "failed"}]
  /\ done \in [Actions -> SUBSET Steps]
  /\ approved \in [Actions -> SUBSET Checkpoints]

(* No two goroutines work on one run, whatever checkpoints are approved    *)
(* and aborted at the same time and whenever the daemon is restarted: the  *)
(* run's statements are compare-and-sets only where it changes hands.      *)
OneRunner ==
  \A v, w \in Workers : Works(v) /\ Works(w) /\ job[v] = job[w] => v = w

(* The two tables agree although no transaction spans them: a run that is  *)
(* underway or parked belongs to an action in execution, so that it is     *)
(* never resumed for one that has ended, and an action's outcome is the    *)
(* outcome of its run.                                                     *)
RunMatchesAction ==
  \A a \in Actions :
    /\ row[a].status \in Live => action[a] = "executing"
    /\ action[a] = "done" => row[a].status = "completed"
    /\ action[a] = "failed" => row[a].status \in Ended \ {"completed"}

(* A window the runner opened is never left behind: while the daemon       *)
(* serves, it belongs to a run underway or parked, or to a goroutine that  *)
(* is about to write it down or to give it back.  Only an abort may leave  *)
(* one, when the run it read has opened its window since.                  *)
WindowIsOwned ==
  daemon = "up" /\ window # NoWindow /\ window.by = "smith"
    => \/ window.lease \in LiveLeases
       \/ \E w \in Workers : Works(w) /\ mem[w].lease = window.lease
       \/ \E a \in Actions : row[a].status = "aborted" /\ row[a].lease = window.lease

(* No step runs before all the steps ahead of it have succeeded, across    *)
(* failures that an operator lets pass, pauses, crashes and resumptions.   *)
NoStepSkipped ==
  \A w \in Workers : pc[w] = "step" => 1..(mem[w].step - 1) \subseteq done[job[w]]

(* build_refresh.go says of its checkpoints that they are judgment points  *)
(* a human must make: no step behind one runs before an operator has       *)
(* approved it.                                                            *)
CheckpointNeedsApproval ==
  \A w \in Workers :
    pc[w] = "step" => {s \in Checkpoints : s < mem[w].step} \subseteq approved[job[w]]

(* A run underway does not stay underway: it ends or is parked, although   *)
(* the daemon is stopped and crashes in between.                           *)
RunsEnd ==
  \A a \in Actions : a \in Resumable ~> a \notin Resumable
=============================================================================
