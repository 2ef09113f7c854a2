------------------------- MODULE ProcedureRunsProofs -------------------------
(***************************************************************************)
(* Proofs about ProcedureRuns for any number of actions, goroutines,       *)
(* leases and restarts and for any procedure.  The inductive invariant is  *)
(* local: what a goroutine at each label knows of its run and of the       *)
(* window, and what the two tables say of one action.  Goroutines do not   *)
(* interfere because at most one of them works for an action.              *)
(***************************************************************************)
EXTENDS ProcedureRuns, FiniteSetTheorems, TLAPS

USE ActionsAssumption, StepsAssumption, StartsAssumption,
    GateAssumption, WindowsAssumption

-----------------------------------------------------------------------------
(* The labels by what their goroutine knows.                               *)
Fresh == {"dispatch", "create", "resume"}
Driving == {"check", "loop", "saveLease", "step", "saveStep", "pause",
            "release", "saveEnd"}
Aborting == {"abortRead", "abortRelease", "abortFinish"}

(* A goroutine has a job unless it is idle, and none outlives its process. *)
WorkerHasJob(w) ==
  /\ pc[w] = "idle" <=> job[w] = None
  /\ pc[w] \in Fresh \cup {"idle"} => mem[w] = NoCopy
  /\ daemon = "down" => pc[w] = "idle"

(* What it knows of its action and of its run.                             *)
WorkerKnowsRun(w) ==
  /\ pc[w] = "dispatch" => action[job[w]] = "approved"
  /\ pc[w] \in {"create", "resume", "finish", "abortRelease", "abortFinish"} \cup Driving
       => action[job[w]] = "executing"
  /\ pc[w] = "create" => row[job[w]].status = "none"
  /\ pc[w] \in {"resume"} \cup Driving => row[job[w]].status = "running"
  /\ pc[w] = "finish" => row[job[w]].status \in Ended \cup {"running"}
  /\ pc[w] \in {"abortRelease", "abortFinish"} => row[job[w]].status = "aborted"
  /\ pc[w] = "abortRead" => row[job[w]].status # "none"

(* How its run ended, once the daemon's statements have succeeded.         *)
WorkerKnowsEnd(w) ==
  /\ pc[w] \in {"release", "saveEnd", "finish"} => verdict[w] \in {"completed", "failed"}
  /\ pc[w] = "finish" /\ daemon = "up" =>
       IF verdict[w] = "completed" THEN row[job[w]].status = "completed"
       ELSE row[job[w]].status \in Ended \ {"completed"}

(* What it knows of the window: a row's lease is set once.                 *)
WorkerKnowsLease(w) ==
  /\ pc[w] \in Driving => row[job[w]].lease \in {NoLease, mem[w].lease}
  /\ pc[w] \in Aborting => mem[w].lease \in {NoLease, row[job[w]].lease}
  /\ pc[w] \in {"saveEnd", "finish"} => ~HoldsWindow(mem[w].lease)
  /\ HasPreconditions /\ mem[w].step = 1 => mem[w].lease = NoLease
  /\ pc[w] = "saveLease" => mem[w].step \in NeedsWindow

(* The steps ahead of the one it is at have succeeded.                     *)
WorkerKnowsSteps(w) ==
  /\ job[w] # None => 1..(mem[w].step - 1) \subseteq done[job[w]]
  /\ pc[w] = "step" => mem[w].step \in Steps

(* What the rows of an action say.                                         *)
RowIsCreated(a) ==
  /\ row[a].status = "none" => row[a] = NoRow
  /\ action[a] \in {"pending", "approved", "rejected", "superseded"}
       => row[a].status = "none"
  /\ HasPreconditions /\ row[a].step = 1 => row[a].lease = NoLease
RowCountsDone(a) == 1..(row[a].step - 1) \subseteq done[a]

(* A daemon that is not up may start again.                                *)
MayStart == daemon # "up" => starts < MaxStarts

RunInv ==
  /\ TypeOK
  /\ MayStart
  /\ OneRunner
  /\ RunMatchesAction
  /\ \A w \in Workers : WorkerHasJob(w)
  /\ \A w \in Workers : WorkerKnowsRun(w)
  /\ \A w \in Workers : WorkerKnowsEnd(w)
  /\ \A w \in Workers : WorkerKnowsLease(w)
  /\ \A w \in Workers : WorkerKnowsSteps(w)
  /\ \A a \in Actions : RowIsCreated(a)
  /\ \A a \in Actions : RowCountsDone(a)

-----------------------------------------------------------------------------
(* The type invariant, action by action.                                   *)
LEMMA RunTypeStep ==
  ASSUME TypeOK, MayStart,
         \A w \in Workers : WorkerHasJob(w), \A w \in Workers : WorkerKnowsSteps(w),
         [Next]_vars
  PROVE  TypeOK'
<1> USE DEF TypeOK, GateTypeOK, gateVars, storeVars, workerVars, history, Labels,
            Rows, Copies, NoRow, NoCopy, Live, Ended, Steps, Windows, Holders,
            WorkerHasJob, Fresh
<1>1. ASSUME NEW w \in Workers, Execute(w) PROVE TypeOK'
  BY <1>1 DEF Execute, Goto
<1>2. ASSUME NEW w \in Workers, CreateRun(w) PROVE TypeOK'
  BY <1>2 DEF CreateRun, Goto
<1>3. ASSUME NEW w \in Workers, EndEarly(w) PROVE TypeOK'
  BY <1>3 DEF EndEarly, End
<1>4. ASSUME NEW w \in Workers, LoadRun(w) PROVE TypeOK'
  BY <1>4 DEF LoadRun, Goto
<1>5. ASSUME NEW w \in Workers, Proceed(w) PROVE TypeOK'
  BY <1>5 DEF Proceed, Goto
<1>6. ASSUME NEW w \in Workers, PreconditionFails(w) PROVE TypeOK'
  BY <1>6 DEF PreconditionFails, Goto, SaveRun
<1>7. ASSUME NEW w \in Workers, OpenWindow(w) PROVE TypeOK'
  BY <1>7 DEF OpenWindow, Goto, Enter, Persist, MustEnter, Unused
<1>8. ASSUME NEW w \in Workers, WindowRefused(w) PROVE TypeOK'
  BY <1>8 DEF WindowRefused, Goto, MustEnter
<1>9. ASSUME NEW w \in Workers, SaveLease(w) PROVE TypeOK'
  BY <1>9 DEF SaveLease, Goto, SaveRun
<1>10. ASSUME NEW w \in Workers, BeginStep(w) PROVE TypeOK'
  BY <1>10 DEF BeginStep, Goto, MustEnter
<1>11. ASSUME NEW w \in Workers, StepDone(w) PROVE TypeOK'
  <2>1. mem[w].step \in Steps /\ job[w] \in Actions
    BY <1>11 DEF StepDone, Goto, WorkerKnowsSteps
  <2>2. mem[w].step + 1 \in 1..(Last + 1)
    BY <2>1
  <2> QED
    BY <2>1, <2>2, <1>11 DEF StepDone, Goto
<1>12. ASSUME NEW w \in Workers, StepFails(w) PROVE TypeOK'
  <2>1. pc' \in [Workers -> Labels]
    BY <1>12 DEF StepFails
  <2>2. verdict' \in [Workers -> {"none", "completed", "failed"}]
    BY <1>12 DEF StepFails
  <2> QED
    BY <2>1, <2>2, <1>12 DEF StepFails
<1>13. ASSUME NEW w \in Workers, SaveStep(w) PROVE TypeOK'
  BY <1>13 DEF SaveStep, Goto, SaveRun
<1>14. ASSUME NEW w \in Workers, Pause(w) PROVE TypeOK'
  BY <1>14 DEF Pause, SaveRun, End
<1>15. ASSUME NEW w \in Workers, AllDone(w) PROVE TypeOK'
  BY <1>15 DEF AllDone, Goto
<1>16. ASSUME NEW w \in Workers, Release(w) PROVE TypeOK'
  BY <1>16 DEF Release, Goto, Exit, Persist
<1>17. ASSUME NEW w \in Workers, SaveEnd(w) PROVE TypeOK'
  BY <1>17 DEF SaveEnd, Goto, SaveRun
<1>18. ASSUME NEW w \in Workers, Finish(w) PROVE TypeOK'
  BY <1>18 DEF Finish, End, Outcome
<1>19. ASSUME NEW w \in Workers, AbortTakes(w) PROVE TypeOK'
  BY <1>19 DEF AbortTakes, Goto
<1>20. ASSUME NEW w \in Workers, AbortRefused(w) PROVE TypeOK'
  BY <1>20 DEF AbortRefused, End
<1>21. ASSUME NEW w \in Workers, AbortRelease(w) PROVE TypeOK'
  BY <1>21 DEF AbortRelease, Goto, Exit, Persist
<1>22. ASSUME NEW w \in Workers, AbortFinish(w) PROVE TypeOK'
  <2>1. action' \in {action, [action EXCEPT ![job[w]] = "failed"]}
    BY <1>22 DEF AbortFinish
  <2>2. action' \in [Actions -> {"pending", "approved", "executing", "done", "failed",
                                 "rejected", "superseded"}]
    BY <2>1
  <2> QED
    BY <2>2, <1>22 DEF AbortFinish, End
<1>23. ASSUME NEW w \in Workers, NEW a \in Actions, Approve(w, a) PROVE TypeOK'
  BY <1>23 DEF Approve, Spawn
<1>24. ASSUME NEW w \in Workers, NEW a \in Actions, ApproveCheckpoint(w, a)
       PROVE TypeOK'
  <2>1. ({row[a].step - 1} \cap Checkpoints) \in SUBSET Checkpoints
    OBVIOUS
  <2>2. approved' \in [Actions -> SUBSET Checkpoints]
    BY <2>1, <1>24 DEF ApproveCheckpoint
  <2> QED
    BY <2>2, <1>24 DEF ApproveCheckpoint, Spawn, IsParked
<1>25. ASSUME NEW w \in Workers, NEW a \in Actions, AbortCheckpoint(w, a)
       PROVE TypeOK'
  BY <1>25 DEF AbortCheckpoint, Spawn
<1>26. ASSUME NEW a \in Actions, NEW s \in {"rejected", "superseded"}, Decline(a, s)
       PROVE TypeOK'
  BY <1>26 DEF Decline
<1>27. ASSUME OperatorEnters PROVE TypeOK'
  BY <1>27 DEF OperatorEnters, Enter, Persist, Unused
<1>28. ASSUME WindowEnds PROVE TypeOK'
  BY <1>28 DEF WindowEnds, Close, Persist
<1>29. ASSUME Stop PROVE TypeOK'
  BY <1>29 DEF Stop
<1>30. ASSUME Die PROVE TypeOK'
  BY <1>30 DEF Die
<1>31. ASSUME Boot PROVE TypeOK'
  <2>1. starts' \in 0..MaxStarts
    BY <1>31 DEF Boot, MayStart
  <2>2. window' \in Windows \cup {NoWindow} /\ saved' \in Windows \cup {NoWindow}
    BY <1>31 DEF Boot, Reopen, Persist
  <2>3. job' \in [Workers -> Actions \cup {None}]
    BY <1>31 DEF Boot, Resumable
  <2>4. pc' \in [Workers -> Labels]
    BY <1>31 DEF Boot
  <2> QED
    BY <2>1, <2>2, <2>3, <2>4, <1>31 DEF Boot
<1>32. ASSUME UNCHANGED vars PROVE TypeOK'
  BY <1>32 DEF vars
<1> HIDE DEF TypeOK, GateTypeOK, gateVars, storeVars, workerVars, history, Labels,
             Rows, Copies, NoRow, NoCopy, Live, Ended, Steps, Windows, Holders,
             WorkerHasJob, Fresh
<1> QED
  BY <1>1, <1>2, <1>3, <1>4, <1>5, <1>6, <1>7, <1>8, <1>9, <1>10, <1>11,
     <1>12, <1>13, <1>14, <1>15, <1>16, <1>17, <1>18, <1>19, <1>20, <1>21, <1>22,
     <1>23, <1>24, <1>25, <1>26, <1>27, <1>28, <1>29, <1>30, <1>31, <1>32
    DEF Next, Step

(* Goroutines have jobs while they run.                                     *)
LEMMA WorkerHasJobStep ==
  ASSUME TypeOK, MayStart, \A w \in Workers : WorkerHasJob(w),
         [Next]_vars
  PROVE  MayStart' /\ \A v \in Workers : WorkerHasJob(v)'
<1> USE DEF TypeOK, GateTypeOK, gateVars, storeVars, workerVars, history, Live,
            Ended, NoRow, NoCopy, MayStart, WorkerHasJob, Fresh
<1>1. ASSUME NEW w \in Workers, Execute(w)
      PROVE MayStart' /\ \A v \in Workers : WorkerHasJob(v)'
  BY <1>1 DEF Execute, Goto
<1>2. ASSUME NEW w \in Workers, CreateRun(w)
      PROVE MayStart' /\ \A v \in Workers : WorkerHasJob(v)'
  BY <1>2 DEF CreateRun, Goto
<1>3. ASSUME NEW w \in Workers, EndEarly(w)
      PROVE MayStart' /\ \A v \in Workers : WorkerHasJob(v)'
  BY <1>3 DEF EndEarly, End
<1>4. ASSUME NEW w \in Workers, LoadRun(w)
      PROVE MayStart' /\ \A v \in Workers : WorkerHasJob(v)'
  BY <1>4 DEF LoadRun, Goto
<1>5. ASSUME NEW w \in Workers, Proceed(w)
      PROVE MayStart' /\ \A v \in Workers : WorkerHasJob(v)'
  BY <1>5 DEF Proceed, Goto
<1>6. ASSUME NEW w \in Workers, PreconditionFails(w)
      PROVE MayStart' /\ \A v \in Workers : WorkerHasJob(v)'
  BY <1>6 DEF PreconditionFails, Goto, SaveRun
<1>7. ASSUME NEW w \in Workers, OpenWindow(w)
      PROVE MayStart' /\ \A v \in Workers : WorkerHasJob(v)'
  BY <1>7 DEF OpenWindow, Goto, Enter, Persist, MustEnter, Unused
<1>8. ASSUME NEW w \in Workers, WindowRefused(w)
      PROVE MayStart' /\ \A v \in Workers : WorkerHasJob(v)'
  BY <1>8 DEF WindowRefused, Goto, MustEnter
<1>9. ASSUME NEW w \in Workers, SaveLease(w)
      PROVE MayStart' /\ \A v \in Workers : WorkerHasJob(v)'
  BY <1>9 DEF SaveLease, Goto, SaveRun
<1>10. ASSUME NEW w \in Workers, BeginStep(w)
       PROVE MayStart' /\ \A v \in Workers : WorkerHasJob(v)'
  BY <1>10 DEF BeginStep, Goto, MustEnter
<1>11. ASSUME NEW w \in Workers, StepDone(w)
       PROVE MayStart' /\ \A v \in Workers : WorkerHasJob(v)'
  BY <1>11 DEF StepDone, Goto
<1>12. ASSUME NEW w \in Workers, StepFails(w)
       PROVE MayStart' /\ \A v \in Workers : WorkerHasJob(v)'
  BY <1>12 DEF StepFails
<1>13. ASSUME NEW w \in Workers, SaveStep(w)
       PROVE MayStart' /\ \A v \in Workers : WorkerHasJob(v)'
  BY <1>13 DEF SaveStep, Goto, SaveRun
<1>14. ASSUME NEW w \in Workers, Pause(w)
       PROVE MayStart' /\ \A v \in Workers : WorkerHasJob(v)'
  BY <1>14 DEF Pause, SaveRun, End
<1>15. ASSUME NEW w \in Workers, AllDone(w)
       PROVE MayStart' /\ \A v \in Workers : WorkerHasJob(v)'
  BY <1>15 DEF AllDone, Goto
<1>16. ASSUME NEW w \in Workers, Release(w)
       PROVE MayStart' /\ \A v \in Workers : WorkerHasJob(v)'
  BY <1>16 DEF Release, Goto, Exit, Persist
<1>17. ASSUME NEW w \in Workers, SaveEnd(w)
       PROVE MayStart' /\ \A v \in Workers : WorkerHasJob(v)'
  BY <1>17 DEF SaveEnd, Goto, SaveRun
<1>18. ASSUME NEW w \in Workers, Finish(w)
       PROVE MayStart' /\ \A v \in Workers : WorkerHasJob(v)'
  BY <1>18 DEF Finish, End, Outcome
<1>19. ASSUME NEW w \in Workers, AbortTakes(w)
       PROVE MayStart' /\ \A v \in Workers : WorkerHasJob(v)'
  BY <1>19 DEF AbortTakes, Goto
<1>20. ASSUME NEW w \in Workers, AbortRefused(w)
       PROVE MayStart' /\ \A v \in Workers : WorkerHasJob(v)'
  BY <1>20 DEF AbortRefused, End
<1>21. ASSUME NEW w \in Workers, AbortRelease(w)
       PROVE MayStart' /\ \A v \in Workers : WorkerHasJob(v)'
  BY <1>21 DEF AbortRelease, Goto, Exit, Persist
<1>22. ASSUME NEW w \in Workers, AbortFinish(w)
       PROVE MayStart' /\ \A v \in Workers : WorkerHasJob(v)'
  BY <1>22 DEF AbortFinish, End
<1>23. ASSUME NEW w \in Workers, NEW a \in Actions, Approve(w, a)
       PROVE MayStart' /\ \A v \in Workers : WorkerHasJob(v)'
  BY <1>23 DEF Approve, Spawn
<1>24. ASSUME NEW w \in Workers, NEW a \in Actions, ApproveCheckpoint(w, a)
       PROVE MayStart' /\ \A v \in Workers : WorkerHasJob(v)'
  BY <1>24 DEF ApproveCheckpoint, Spawn, IsParked
<1>25. ASSUME NEW w \in Workers, NEW a \in Actions, AbortCheckpoint(w, a)
       PROVE MayStart' /\ \A v \in Workers : WorkerHasJob(v)'
  BY <1>25 DEF AbortCheckpoint, Spawn
<1>26. ASSUME NEW a \in Actions, NEW s \in {"rejected", "superseded"}, Decline(a, s)
       PROVE MayStart' /\ \A v \in Workers : WorkerHasJob(v)'
  BY <1>26 DEF Decline
<1>27. ASSUME OperatorEnters PROVE MayStart' /\ \A v \in Workers : WorkerHasJob(v)'
  BY <1>27 DEF OperatorEnters, Enter, Persist, Unused
<1>28. ASSUME WindowEnds PROVE MayStart' /\ \A v \in Workers : WorkerHasJob(v)'
  BY <1>28 DEF WindowEnds, Close, Persist
<1>29. ASSUME Stop PROVE MayStart' /\ \A v \in Workers : WorkerHasJob(v)'
  BY <1>29 DEF Stop
<1>30. ASSUME Die PROVE MayStart' /\ \A v \in Workers : WorkerHasJob(v)'
  BY <1>30 DEF Die
<1>31. ASSUME Boot PROVE MayStart' /\ \A v \in Workers : WorkerHasJob(v)'
  BY <1>31 DEF Boot, Reopen, Persist, Resumable
<1>32. ASSUME UNCHANGED vars PROVE MayStart' /\ \A v \in Workers : WorkerHasJob(v)'
  BY <1>32 DEF vars
<1> QED
  BY <1>1, <1>2, <1>3, <1>4, <1>5, <1>6, <1>7, <1>8, <1>9, <1>10, <1>11,
     <1>12, <1>13, <1>14, <1>15, <1>16, <1>17, <1>18, <1>19, <1>20, <1>21, <1>22,
     <1>23, <1>24, <1>25, <1>26, <1>27, <1>28, <1>29, <1>30, <1>31, <1>32
    DEF Next, Step

(* A goroutine only takes up an action nobody works for.                   *)
LEMMA OneRunnerStep ==
  ASSUME TypeOK, OneRunner, RunMatchesAction,
         \A w \in Workers : WorkerHasJob(w), \A w \in Workers : WorkerKnowsRun(w),
         [Next]_vars
  PROVE  OneRunner'
<1> USE DEF TypeOK, GateTypeOK, gateVars, storeVars, workerVars, history, Live,
            Ended, NoRow, NoCopy, OneRunner, RunMatchesAction, Works,
            WorkerHasJob, WorkerKnowsRun, Driving, Labels
<1>1. ASSUME NEW w \in Workers, Execute(w) PROVE OneRunner'
  BY <1>1 DEF Execute, Goto
<1>2. ASSUME NEW w \in Workers, CreateRun(w) PROVE OneRunner'
  BY <1>2 DEF CreateRun, Goto
<1>3. ASSUME NEW w \in Workers, EndEarly(w) PROVE OneRunner'
  BY <1>3 DEF EndEarly, End
<1>4. ASSUME NEW w \in Workers, LoadRun(w) PROVE OneRunner'
  BY <1>4 DEF LoadRun, Goto
<1>5. ASSUME NEW w \in Workers, Proceed(w) PROVE OneRunner'
  BY <1>5 DEF Proceed, Goto
<1>6. ASSUME NEW w \in Workers, PreconditionFails(w) PROVE OneRunner'
  BY <1>6 DEF PreconditionFails, Goto, SaveRun
<1>7. ASSUME NEW w \in Workers, OpenWindow(w) PROVE OneRunner'
  BY <1>7 DEF OpenWindow, Goto, Enter, Persist, MustEnter, Unused
<1>8. ASSUME NEW w \in Workers, WindowRefused(w) PROVE OneRunner'
  BY <1>8 DEF WindowRefused, Goto, MustEnter
<1>9. ASSUME NEW w \in Workers, SaveLease(w) PROVE OneRunner'
  BY <1>9 DEF SaveLease, Goto, SaveRun
<1>10. ASSUME NEW w \in Workers, BeginStep(w) PROVE OneRunner'
  BY <1>10 DEF BeginStep, Goto, MustEnter
<1>11. ASSUME NEW w \in Workers, StepDone(w) PROVE OneRunner'
  BY <1>11 DEF StepDone, Goto
<1>12. ASSUME NEW w \in Workers, StepFails(w) PROVE OneRunner'
  BY <1>12 DEF StepFails
<1>13. ASSUME NEW w \in Workers, SaveStep(w) PROVE OneRunner'
  BY <1>13 DEF SaveStep, Goto, SaveRun
<1>14. ASSUME NEW w \in Workers, Pause(w) PROVE OneRunner'
  BY <1>14 DEF Pause, SaveRun, End
<1>15. ASSUME NEW w \in Workers, AllDone(w) PROVE OneRunner'
  BY <1>15 DEF AllDone, Goto
<1>16. ASSUME NEW w \in Workers, Release(w) PROVE OneRunner'
  BY <1>16 DEF Release, Goto, Exit, Persist
<1>17. ASSUME NEW w \in Workers, SaveEnd(w) PROVE OneRunner'
  BY <1>17 DEF SaveEnd, Goto, SaveRun
<1>18. ASSUME NEW w \in Workers, Finish(w) PROVE OneRunner'
  BY <1>18 DEF Finish, End, Outcome
<1>19. ASSUME NEW w \in Workers, AbortTakes(w) PROVE OneRunner'
  BY <1>19 DEF AbortTakes, Goto
<1>20. ASSUME NEW w \in Workers, AbortRefused(w) PROVE OneRunner'
  BY <1>20 DEF AbortRefused, End
<1>21. ASSUME NEW w \in Workers, AbortRelease(w) PROVE OneRunner'
  BY <1>21 DEF AbortRelease, Goto, Exit, Persist
<1>22. ASSUME NEW w \in Workers, AbortFinish(w) PROVE OneRunner'
  BY <1>22 DEF AbortFinish, End
<1>23. ASSUME NEW w \in Workers, NEW a \in Actions, Approve(w, a) PROVE OneRunner'
  BY <1>23 DEF Approve, Spawn
<1>24. ASSUME NEW w \in Workers, NEW a \in Actions, ApproveCheckpoint(w, a)
       PROVE OneRunner'
  BY <1>24 DEF ApproveCheckpoint, Spawn, IsParked
<1>25. ASSUME NEW w \in Workers, NEW a \in Actions, AbortCheckpoint(w, a)
       PROVE OneRunner'
  BY <1>25 DEF AbortCheckpoint, Spawn
<1>26. ASSUME NEW a \in Actions, NEW s \in {"rejected", "superseded"}, Decline(a, s)
       PROVE OneRunner'
  BY <1>26 DEF Decline
<1>27. ASSUME OperatorEnters PROVE OneRunner'
  BY <1>27 DEF OperatorEnters, Enter, Persist, Unused
<1>28. ASSUME WindowEnds PROVE OneRunner'
  BY <1>28 DEF WindowEnds, Close, Persist
<1>29. ASSUME Stop PROVE OneRunner'
  BY <1>29 DEF Stop
<1>30. ASSUME Die PROVE OneRunner'
  BY <1>30 DEF Die
<1>31. ASSUME Boot PROVE OneRunner'
  BY <1>31 DEF Boot, Reopen, Persist, Resumable
<1>32. ASSUME UNCHANGED vars PROVE OneRunner'
  BY <1>32 DEF vars
<1> QED
  BY <1>1, <1>2, <1>3, <1>4, <1>5, <1>6, <1>7, <1>8, <1>9, <1>10, <1>11,
     <1>12, <1>13, <1>14, <1>15, <1>16, <1>17, <1>18, <1>19, <1>20, <1>21, <1>22,
     <1>23, <1>24, <1>25, <1>26, <1>27, <1>28, <1>29, <1>30, <1>31, <1>32
    DEF Next, Step

(* What a goroutine knows of its run stays true while others act.          *)
LEMMA KnowsRunStep ==
  ASSUME TypeOK, OneRunner, RunMatchesAction, \A w \in Workers : WorkerHasJob(w),
         \A w \in Workers : WorkerKnowsRun(w), \A w \in Workers : WorkerKnowsEnd(w),
         \A a \in Actions : RowIsCreated(a),
         [Next]_vars
  PROVE  \A v \in Workers : WorkerKnowsRun(v)'
<1> SUFFICES ASSUME NEW v \in Workers PROVE WorkerKnowsRun(v)'
  OBVIOUS
<1> USE DEF TypeOK, GateTypeOK, gateVars, storeVars, workerVars, history, Live,
            Ended, NoRow, NoCopy, WorkerKnowsEnd, OneRunner, Works,
            RunMatchesAction, WorkerHasJob, WorkerKnowsRun, RowIsCreated,
            Driving, Labels
<1>1. ASSUME NEW w \in Workers, Execute(w) PROVE WorkerKnowsRun(v)'
  BY <1>1 DEF Execute, Goto
<1>2. ASSUME NEW w \in Workers, CreateRun(w) PROVE WorkerKnowsRun(v)'
  BY <1>2 DEF CreateRun, Goto
<1>3. ASSUME NEW w \in Workers, EndEarly(w) PROVE WorkerKnowsRun(v)'
  BY <1>3 DEF EndEarly, End
<1>4. ASSUME NEW w \in Workers, LoadRun(w) PROVE WorkerKnowsRun(v)'
  BY <1>4 DEF LoadRun, Goto
<1>5. ASSUME NEW w \in Workers, Proceed(w) PROVE WorkerKnowsRun(v)'
  BY <1>5 DEF Proceed, Goto
<1>6. ASSUME NEW w \in Workers, PreconditionFails(w) PROVE WorkerKnowsRun(v)'
  BY <1>6 DEF PreconditionFails, Goto, SaveRun
<1>7. ASSUME NEW w \in Workers, OpenWindow(w) PROVE WorkerKnowsRun(v)'
  BY <1>7 DEF OpenWindow, Goto, Enter, Persist, MustEnter, Unused
<1>8. ASSUME NEW w \in Workers, WindowRefused(w) PROVE WorkerKnowsRun(v)'
  BY <1>8 DEF WindowRefused, Goto, MustEnter
<1>9. ASSUME NEW w \in Workers, SaveLease(w) PROVE WorkerKnowsRun(v)'
  BY <1>9 DEF SaveLease, Goto, SaveRun
<1>10. ASSUME NEW w \in Workers, BeginStep(w) PROVE WorkerKnowsRun(v)'
  BY <1>10 DEF BeginStep, Goto, MustEnter
<1>11. ASSUME NEW w \in Workers, StepDone(w) PROVE WorkerKnowsRun(v)'
  BY <1>11 DEF StepDone, Goto
<1>12. ASSUME NEW w \in Workers, StepFails(w) PROVE WorkerKnowsRun(v)'
  BY <1>12 DEF StepFails
<1>13. ASSUME NEW w \in Workers, SaveStep(w) PROVE WorkerKnowsRun(v)'
  BY <1>13 DEF SaveStep, Goto, SaveRun
<1>14. ASSUME NEW w \in Workers, Pause(w) PROVE WorkerKnowsRun(v)'
  BY <1>14 DEF Pause, SaveRun, End
<1>15. ASSUME NEW w \in Workers, AllDone(w) PROVE WorkerKnowsRun(v)'
  BY <1>15 DEF AllDone, Goto
<1>16. ASSUME NEW w \in Workers, Release(w) PROVE WorkerKnowsRun(v)'
  BY <1>16 DEF Release, Goto, Exit, Persist
<1>17. ASSUME NEW w \in Workers, SaveEnd(w) PROVE WorkerKnowsRun(v)'
  BY <1>17 DEF SaveEnd, Goto, SaveRun
<1>18. ASSUME NEW w \in Workers, Finish(w) PROVE WorkerKnowsRun(v)'
  BY <1>18 DEF Finish, End, Outcome
<1>19. ASSUME NEW w \in Workers, AbortTakes(w) PROVE WorkerKnowsRun(v)'
  BY <1>19 DEF AbortTakes, Goto
<1>20. ASSUME NEW w \in Workers, AbortRefused(w) PROVE WorkerKnowsRun(v)'
  BY <1>20 DEF AbortRefused, End
<1>21. ASSUME NEW w \in Workers, AbortRelease(w) PROVE WorkerKnowsRun(v)'
  BY <1>21 DEF AbortRelease, Goto, Exit, Persist
<1>22. ASSUME NEW w \in Workers, AbortFinish(w) PROVE WorkerKnowsRun(v)'
  BY <1>22 DEF AbortFinish, End
<1>23. ASSUME NEW w \in Workers, NEW a \in Actions, Approve(w, a)
       PROVE WorkerKnowsRun(v)'
  BY <1>23 DEF Approve, Spawn
<1>24. ASSUME NEW w \in Workers, NEW a \in Actions, ApproveCheckpoint(w, a)
       PROVE WorkerKnowsRun(v)'
  BY <1>24 DEF ApproveCheckpoint, Spawn, IsParked
<1>25. ASSUME NEW w \in Workers, NEW a \in Actions, AbortCheckpoint(w, a)
       PROVE WorkerKnowsRun(v)'
  BY <1>25 DEF AbortCheckpoint, Spawn
<1>26. ASSUME NEW a \in Actions, NEW s \in {"rejected", "superseded"}, Decline(a, s)
       PROVE WorkerKnowsRun(v)'
  BY <1>26 DEF Decline
<1>27. ASSUME OperatorEnters PROVE WorkerKnowsRun(v)'
  BY <1>27 DEF OperatorEnters, Enter, Persist, Unused
<1>28. ASSUME WindowEnds PROVE WorkerKnowsRun(v)'
  BY <1>28 DEF WindowEnds, Close, Persist
<1>29. ASSUME Stop PROVE WorkerKnowsRun(v)'
  BY <1>29 DEF Stop
<1>30. ASSUME Die PROVE WorkerKnowsRun(v)'
  BY <1>30 DEF Die
<1>31. ASSUME Boot PROVE WorkerKnowsRun(v)'
  BY <1>31 DEF Boot, Reopen, Persist, Resumable
<1>32. ASSUME UNCHANGED vars PROVE WorkerKnowsRun(v)'
  BY <1>32 DEF vars
<1> HIDE DEF TypeOK, GateTypeOK, gateVars, storeVars, workerVars, history, Live,
             Ended, NoRow, NoCopy, WorkerKnowsEnd, OneRunner, Works,
             RunMatchesAction, WorkerHasJob, WorkerKnowsRun, RowIsCreated,
             Driving, Labels
<1> QED
  BY <1>1, <1>2, <1>3, <1>4, <1>5, <1>6, <1>7, <1>8, <1>9, <1>10, <1>11,
     <1>12, <1>13, <1>14, <1>15, <1>16, <1>17, <1>18, <1>19, <1>20, <1>21, <1>22,
     <1>23, <1>24, <1>25, <1>26, <1>27, <1>28, <1>29, <1>30, <1>31, <1>32
    DEF Next, Step

(* What it knows of its verdict, too: the statements succeed while up.     *)
LEMMA KnowsEndStep ==
  ASSUME TypeOK, OneRunner, \A w \in Workers : WorkerHasJob(w),
         \A w \in Workers : WorkerKnowsRun(w),
         \A w \in Workers : WorkerKnowsEnd(w),
         [Next]_vars
  PROVE  \A v \in Workers : WorkerKnowsEnd(v)'
<1> SUFFICES ASSUME NEW v \in Workers PROVE WorkerKnowsEnd(v)'
  OBVIOUS
<1> USE DEF TypeOK, GateTypeOK, gateVars, storeVars, workerVars, history, Live,
            Ended, NoRow, NoCopy, OneRunner, Works, WorkerHasJob, WorkerKnowsRun,
            WorkerKnowsEnd, Driving, Labels
<1>1. ASSUME NEW w \in Workers, Execute(w) PROVE WorkerKnowsEnd(v)'
  BY <1>1 DEF Execute, Goto
<1>2. ASSUME NEW w \in Workers, CreateRun(w) PROVE WorkerKnowsEnd(v)'
  BY <1>2 DEF CreateRun, Goto
<1>3. ASSUME NEW w \in Workers, EndEarly(w) PROVE WorkerKnowsEnd(v)'
  BY <1>3 DEF EndEarly, End
<1>4. ASSUME NEW w \in Workers, LoadRun(w) PROVE WorkerKnowsEnd(v)'
  BY <1>4 DEF LoadRun, Goto
<1>5. ASSUME NEW w \in Workers, Proceed(w) PROVE WorkerKnowsEnd(v)'
  BY <1>5 DEF Proceed, Goto
<1>6. ASSUME NEW w \in Workers, PreconditionFails(w) PROVE WorkerKnowsEnd(v)'
  BY <1>6 DEF PreconditionFails, Goto, SaveRun
<1>7. ASSUME NEW w \in Workers, OpenWindow(w) PROVE WorkerKnowsEnd(v)'
  BY <1>7 DEF OpenWindow, Goto, Enter, Persist, MustEnter, Unused
<1>8. ASSUME NEW w \in Workers, WindowRefused(w) PROVE WorkerKnowsEnd(v)'
  BY <1>8 DEF WindowRefused, Goto, MustEnter
<1>9. ASSUME NEW w \in Workers, SaveLease(w) PROVE WorkerKnowsEnd(v)'
  BY <1>9 DEF SaveLease, Goto, SaveRun
<1>10. ASSUME NEW w \in Workers, BeginStep(w) PROVE WorkerKnowsEnd(v)'
  BY <1>10 DEF BeginStep, Goto, MustEnter
<1>11. ASSUME NEW w \in Workers, StepDone(w) PROVE WorkerKnowsEnd(v)'
  BY <1>11 DEF StepDone, Goto
<1>12. ASSUME NEW w \in Workers, StepFails(w) PROVE WorkerKnowsEnd(v)'
  BY <1>12 DEF StepFails
<1>13. ASSUME NEW w \in Workers, SaveStep(w) PROVE WorkerKnowsEnd(v)'
  BY <1>13 DEF SaveStep, Goto, SaveRun
<1>14. ASSUME NEW w \in Workers, Pause(w) PROVE WorkerKnowsEnd(v)'
  BY <1>14 DEF Pause, SaveRun, End
<1>15. ASSUME NEW w \in Workers, AllDone(w) PROVE WorkerKnowsEnd(v)'
  BY <1>15 DEF AllDone, Goto
<1>16. ASSUME NEW w \in Workers, Release(w) PROVE WorkerKnowsEnd(v)'
  BY <1>16 DEF Release, Goto, Exit, Persist
<1>17. ASSUME NEW w \in Workers, SaveEnd(w) PROVE WorkerKnowsEnd(v)'
  BY <1>17 DEF SaveEnd, Goto, SaveRun
<1>18. ASSUME NEW w \in Workers, Finish(w) PROVE WorkerKnowsEnd(v)'
  BY <1>18 DEF Finish, End, Outcome
<1>19. ASSUME NEW w \in Workers, AbortTakes(w) PROVE WorkerKnowsEnd(v)'
  BY <1>19 DEF AbortTakes, Goto
<1>20. ASSUME NEW w \in Workers, AbortRefused(w) PROVE WorkerKnowsEnd(v)'
  BY <1>20 DEF AbortRefused, End
<1>21. ASSUME NEW w \in Workers, AbortRelease(w) PROVE WorkerKnowsEnd(v)'
  BY <1>21 DEF AbortRelease, Goto, Exit, Persist
<1>22. ASSUME NEW w \in Workers, AbortFinish(w) PROVE WorkerKnowsEnd(v)'
  BY <1>22 DEF AbortFinish, End
<1>23. ASSUME NEW w \in Workers, NEW a \in Actions, Approve(w, a)
       PROVE WorkerKnowsEnd(v)'
  BY <1>23 DEF Approve, Spawn
<1>24. ASSUME NEW w \in Workers, NEW a \in Actions, ApproveCheckpoint(w, a)
       PROVE WorkerKnowsEnd(v)'
  BY <1>24 DEF ApproveCheckpoint, Spawn, IsParked
<1>25. ASSUME NEW w \in Workers, NEW a \in Actions, AbortCheckpoint(w, a)
       PROVE WorkerKnowsEnd(v)'
  BY <1>25 DEF AbortCheckpoint, Spawn
<1>26. ASSUME NEW a \in Actions, NEW s \in {"rejected", "superseded"}, Decline(a, s)
       PROVE WorkerKnowsEnd(v)'
  BY <1>26 DEF Decline
<1>27. ASSUME OperatorEnters PROVE WorkerKnowsEnd(v)'
  BY <1>27 DEF OperatorEnters, Enter, Persist, Unused
<1>28. ASSUME WindowEnds PROVE WorkerKnowsEnd(v)'
  BY <1>28 DEF WindowEnds, Close, Persist
<1>29. ASSUME Stop PROVE WorkerKnowsEnd(v)'
  BY <1>29 DEF Stop
<1>30. ASSUME Die PROVE WorkerKnowsEnd(v)'
  BY <1>30 DEF Die
<1>31. ASSUME Boot PROVE WorkerKnowsEnd(v)'
  BY <1>31 DEF Boot, Reopen, Persist, Resumable
<1>32. ASSUME UNCHANGED vars PROVE WorkerKnowsEnd(v)'
  BY <1>32 DEF vars
<1> HIDE DEF TypeOK, GateTypeOK, gateVars, storeVars, workerVars, history, Live,
             Ended, NoRow, NoCopy, OneRunner, Works, WorkerHasJob,
             WorkerKnowsRun, WorkerKnowsEnd, Driving, Labels
<1> QED
  BY <1>1, <1>2, <1>3, <1>4, <1>5, <1>6, <1>7, <1>8, <1>9, <1>10, <1>11,
     <1>12, <1>13, <1>14, <1>15, <1>16, <1>17, <1>18, <1>19, <1>20, <1>21, <1>22,
     <1>23, <1>24, <1>25, <1>26, <1>27, <1>28, <1>29, <1>30, <1>31, <1>32
    DEF Next, Step

(* And of its lease: one that is drawn is in use nowhere else.             *)
LEMMA KnowsLeaseStep ==
  ASSUME TypeOK, OneRunner, \A w \in Workers : WorkerHasJob(w),
         \A w \in Workers : WorkerKnowsRun(w),
         \A w \in Workers : WorkerKnowsLease(w),
         \A w \in Workers : WorkerKnowsSteps(w),
         \A a \in Actions : RowIsCreated(a),
         [Next]_vars
  PROVE  \A v \in Workers : WorkerKnowsLease(v)'
<1> SUFFICES ASSUME NEW v \in Workers PROVE WorkerKnowsLease(v)'
  OBVIOUS
<1> USE DEF TypeOK, GateTypeOK, gateVars, storeVars, workerVars, history, Live,
            Ended, NoRow, NoCopy, OneRunner, Works, WorkerHasJob, WorkerKnowsRun,
            WorkerKnowsLease, WorkerKnowsSteps, RowIsCreated, Driving, Aborting,
            Labels, HoldsWindow, Windows, Copies, Rows
<1>1. ASSUME NEW w \in Workers, Execute(w) PROVE WorkerKnowsLease(v)'
  BY <1>1 DEF Execute, Goto
<1>2. ASSUME NEW w \in Workers, CreateRun(w) PROVE WorkerKnowsLease(v)'
  BY <1>2 DEF CreateRun, Goto
<1>3. ASSUME NEW w \in Workers, EndEarly(w) PROVE WorkerKnowsLease(v)'
  BY <1>3 DEF EndEarly, End
<1>4. ASSUME NEW w \in Workers, LoadRun(w) PROVE WorkerKnowsLease(v)'
  BY <1>4 DEF LoadRun, Goto
<1>5. ASSUME NEW w \in Workers, Proceed(w) PROVE WorkerKnowsLease(v)'
  BY <1>5 DEF Proceed, Goto
<1>6. ASSUME NEW w \in Workers, PreconditionFails(w) PROVE WorkerKnowsLease(v)'
  BY <1>6 DEF PreconditionFails, Goto, SaveRun
<1>7. ASSUME NEW w \in Workers, OpenWindow(w) PROVE WorkerKnowsLease(v)'
  <2>1. PICK l \in Leases :
           /\ Unused(l)
           /\ window' = [lease |-> l, by |-> "smith"]
           /\ mem' = [mem EXCEPT ![w].lease = l]
    BY <1>7 DEF OpenWindow, Enter
  <2>2. /\ l # NoLease
        /\ \A u \in Workers : mem[u].lease # l
        /\ [lease |-> l, by |-> "smith"].lease = l
    BY <2>1 DEF Unused
  <2>3. /\ pc[w] = "loop" /\ pc' = [pc EXCEPT ![w] = "saveLease"]
        /\ mem[w].step \in NeedsWindow /\ mem[w].lease = NoLease
        /\ UNCHANGED <<row, action, job, verdict, daemon>>
    BY <1>7 DEF OpenWindow, Goto, MustEnter
  <2>4. CASE v = w
    BY <2>1, <2>2, <2>3, <2>4, RegistryAssumption
  <2>5. CASE v # w
    BY <2>1, <2>2, <2>3, <2>5
  <2> QED
    BY <2>4, <2>5
<1>8. ASSUME NEW w \in Workers, WindowRefused(w) PROVE WorkerKnowsLease(v)'
  BY <1>8 DEF WindowRefused, Goto, MustEnter
<1>9. ASSUME NEW w \in Workers, SaveLease(w) PROVE WorkerKnowsLease(v)'
  BY <1>9 DEF SaveLease, Goto, SaveRun
<1>10. ASSUME NEW w \in Workers, BeginStep(w) PROVE WorkerKnowsLease(v)'
  BY <1>10 DEF BeginStep, Goto, MustEnter
<1>11. ASSUME NEW w \in Workers, StepDone(w) PROVE WorkerKnowsLease(v)'
  BY <1>11 DEF StepDone, Goto
<1>12. ASSUME NEW w \in Workers, StepFails(w) PROVE WorkerKnowsLease(v)'
  BY <1>12 DEF StepFails
<1>13. ASSUME NEW w \in Workers, SaveStep(w) PROVE WorkerKnowsLease(v)'
  BY <1>13 DEF SaveStep, Goto, SaveRun
<1>14. ASSUME NEW w \in Workers, Pause(w) PROVE WorkerKnowsLease(v)'
  BY <1>14 DEF Pause, SaveRun, End
<1>15. ASSUME NEW w \in Workers, AllDone(w) PROVE WorkerKnowsLease(v)'
  BY <1>15 DEF AllDone, Goto
<1>16. ASSUME NEW w \in Workers, Release(w) PROVE WorkerKnowsLease(v)'
  BY <1>16 DEF Release, Goto, Exit, Persist
<1>17. ASSUME NEW w \in Workers, SaveEnd(w) PROVE WorkerKnowsLease(v)'
  BY <1>17 DEF SaveEnd, Goto, SaveRun
<1>18. ASSUME NEW w \in Workers, Finish(w) PROVE WorkerKnowsLease(v)'
  BY <1>18 DEF Finish, End, Outcome
<1>19. ASSUME NEW w \in Workers, AbortTakes(w) PROVE WorkerKnowsLease(v)'
  BY <1>19 DEF AbortTakes, Goto
<1>20. ASSUME NEW w \in Workers, AbortRefused(w) PROVE WorkerKnowsLease(v)'
  BY <1>20 DEF AbortRefused, End
<1>21. ASSUME NEW w \in Workers, AbortRelease(w) PROVE WorkerKnowsLease(v)'
  BY <1>21 DEF AbortRelease, Goto, Exit, Persist
<1>22. ASSUME NEW w \in Workers, AbortFinish(w) PROVE WorkerKnowsLease(v)'
  BY <1>22 DEF AbortFinish, End
<1>23. ASSUME NEW w \in Workers, NEW a \in Actions, Approve(w, a)
       PROVE WorkerKnowsLease(v)'
  BY <1>23 DEF Approve, Spawn
<1>24. ASSUME NEW w \in Workers, NEW a \in Actions, ApproveCheckpoint(w, a)
       PROVE WorkerKnowsLease(v)'
  BY <1>24 DEF ApproveCheckpoint, Spawn, IsParked
<1>25. ASSUME NEW w \in Workers, NEW a \in Actions, AbortCheckpoint(w, a)
       PROVE WorkerKnowsLease(v)'
  BY <1>25 DEF AbortCheckpoint, Spawn
<1>26. ASSUME NEW a \in Actions, NEW s \in {"rejected", "superseded"}, Decline(a, s)
       PROVE WorkerKnowsLease(v)'
  BY <1>26 DEF Decline
<1>27. ASSUME OperatorEnters PROVE WorkerKnowsLease(v)'
  BY <1>27 DEF OperatorEnters, Enter, Persist, Unused
<1>28. ASSUME WindowEnds PROVE WorkerKnowsLease(v)'
  BY <1>28 DEF WindowEnds, Close, Persist
<1>29. ASSUME Stop PROVE WorkerKnowsLease(v)'
  BY <1>29 DEF Stop
<1>30. ASSUME Die PROVE WorkerKnowsLease(v)'
  BY <1>30 DEF Die
<1>31. ASSUME Boot PROVE WorkerKnowsLease(v)'
  BY <1>31 DEF Boot, Reopen, Persist, Resumable
<1>32. ASSUME UNCHANGED vars PROVE WorkerKnowsLease(v)'
  BY <1>32 DEF vars
<1> HIDE DEF TypeOK, GateTypeOK, gateVars, storeVars, workerVars, history, Live,
             Ended, NoRow, NoCopy, OneRunner, Works, WorkerHasJob,
             WorkerKnowsRun, WorkerKnowsLease, WorkerKnowsSteps, RowIsCreated,
             Driving, Aborting, Labels, HoldsWindow, Windows, Copies, Rows
<1> QED
  BY <1>1, <1>2, <1>3, <1>4, <1>5, <1>6, <1>7, <1>8, <1>9, <1>10, <1>11,
     <1>12, <1>13, <1>14, <1>15, <1>16, <1>17, <1>18, <1>19, <1>20, <1>21, <1>22,
     <1>23, <1>24, <1>25, <1>26, <1>27, <1>28, <1>29, <1>30, <1>31, <1>32
    DEF Next, Step

(* A goroutine only moves past a step that has succeeded.                  *)
LEMMA KnowsStepsStep ==
  ASSUME TypeOK, \A w \in Workers : WorkerHasJob(w),
         \A w \in Workers : WorkerKnowsLease(w),
         \A w \in Workers : WorkerKnowsSteps(w),
         \A a \in Actions : RowCountsDone(a),
         [Next]_vars
  PROVE  \A v \in Workers : WorkerKnowsSteps(v)'
<1> SUFFICES ASSUME NEW v \in Workers PROVE WorkerKnowsSteps(v)'
  OBVIOUS
<1> USE DEF TypeOK, GateTypeOK, gateVars, storeVars, workerVars, history, Live,
            Ended, NoRow, NoCopy, WorkerHasJob, WorkerKnowsLease,
            WorkerKnowsSteps, RowCountsDone, Steps, Copies, Rows
<1>1. ASSUME NEW w \in Workers, Execute(w) PROVE WorkerKnowsSteps(v)'
  BY <1>1 DEF Execute, Goto
<1>2. ASSUME NEW w \in Workers, CreateRun(w) PROVE WorkerKnowsSteps(v)'
  BY <1>2 DEF CreateRun, Goto
<1>3. ASSUME NEW w \in Workers, EndEarly(w) PROVE WorkerKnowsSteps(v)'
  BY <1>3 DEF EndEarly, End
<1>4. ASSUME NEW w \in Workers, LoadRun(w) PROVE WorkerKnowsSteps(v)'
  BY <1>4 DEF LoadRun, Goto
<1>5. ASSUME NEW w \in Workers, Proceed(w) PROVE WorkerKnowsSteps(v)'
  BY <1>5 DEF Proceed, Goto
<1>6. ASSUME NEW w \in Workers, PreconditionFails(w) PROVE WorkerKnowsSteps(v)'
  BY <1>6 DEF PreconditionFails, Goto, SaveRun
<1>7. ASSUME NEW w \in Workers, OpenWindow(w) PROVE WorkerKnowsSteps(v)'
  BY <1>7 DEF OpenWindow, Goto, Enter, Persist, MustEnter, Unused
<1>8. ASSUME NEW w \in Workers, WindowRefused(w) PROVE WorkerKnowsSteps(v)'
  BY <1>8 DEF WindowRefused, Goto, MustEnter
<1>9. ASSUME NEW w \in Workers, SaveLease(w) PROVE WorkerKnowsSteps(v)'
  BY <1>9 DEF SaveLease, Goto, SaveRun
<1>10. ASSUME NEW w \in Workers, BeginStep(w) PROVE WorkerKnowsSteps(v)'
  BY <1>10 DEF BeginStep, Goto, MustEnter
<1>11. ASSUME NEW w \in Workers, StepDone(w) PROVE WorkerKnowsSteps(v)'
  BY <1>11 DEF StepDone, Goto
<1>12. ASSUME NEW w \in Workers, StepFails(w) PROVE WorkerKnowsSteps(v)'
  BY <1>12 DEF StepFails
<1>13. ASSUME NEW w \in Workers, SaveStep(w) PROVE WorkerKnowsSteps(v)'
  BY <1>13 DEF SaveStep, Goto, SaveRun
<1>14. ASSUME NEW w \in Workers, Pause(w) PROVE WorkerKnowsSteps(v)'
  BY <1>14 DEF Pause, SaveRun, End
<1>15. ASSUME NEW w \in Workers, AllDone(w) PROVE WorkerKnowsSteps(v)'
  BY <1>15 DEF AllDone, Goto
<1>16. ASSUME NEW w \in Workers, Release(w) PROVE WorkerKnowsSteps(v)'
  BY <1>16 DEF Release, Goto, Exit, Persist
<1>17. ASSUME NEW w \in Workers, SaveEnd(w) PROVE WorkerKnowsSteps(v)'
  BY <1>17 DEF SaveEnd, Goto, SaveRun
<1>18. ASSUME NEW w \in Workers, Finish(w) PROVE WorkerKnowsSteps(v)'
  BY <1>18 DEF Finish, End, Outcome
<1>19. ASSUME NEW w \in Workers, AbortTakes(w) PROVE WorkerKnowsSteps(v)'
  BY <1>19 DEF AbortTakes, Goto
<1>20. ASSUME NEW w \in Workers, AbortRefused(w) PROVE WorkerKnowsSteps(v)'
  BY <1>20 DEF AbortRefused, End
<1>21. ASSUME NEW w \in Workers, AbortRelease(w) PROVE WorkerKnowsSteps(v)'
  BY <1>21 DEF AbortRelease, Goto, Exit, Persist
<1>22. ASSUME NEW w \in Workers, AbortFinish(w) PROVE WorkerKnowsSteps(v)'
  BY <1>22 DEF AbortFinish, End
<1>23. ASSUME NEW w \in Workers, NEW a \in Actions, Approve(w, a)
       PROVE WorkerKnowsSteps(v)'
  BY <1>23 DEF Approve, Spawn
<1>24. ASSUME NEW w \in Workers, NEW a \in Actions, ApproveCheckpoint(w, a)
       PROVE WorkerKnowsSteps(v)'
  BY <1>24 DEF ApproveCheckpoint, Spawn, IsParked
<1>25. ASSUME NEW w \in Workers, NEW a \in Actions, AbortCheckpoint(w, a)
       PROVE WorkerKnowsSteps(v)'
  BY <1>25 DEF AbortCheckpoint, Spawn
<1>26. ASSUME NEW a \in Actions, NEW s \in {"rejected", "superseded"}, Decline(a, s)
       PROVE WorkerKnowsSteps(v)'
  BY <1>26 DEF Decline
<1>27. ASSUME OperatorEnters PROVE WorkerKnowsSteps(v)'
  BY <1>27 DEF OperatorEnters, Enter, Persist, Unused
<1>28. ASSUME WindowEnds PROVE WorkerKnowsSteps(v)'
  BY <1>28 DEF WindowEnds, Close, Persist
<1>29. ASSUME Stop PROVE WorkerKnowsSteps(v)'
  BY <1>29 DEF Stop
<1>30. ASSUME Die PROVE WorkerKnowsSteps(v)'
  BY <1>30 DEF Die
<1>31. ASSUME Boot PROVE WorkerKnowsSteps(v)'
  BY <1>31 DEF Boot, Reopen, Persist, Resumable
<1>32. ASSUME UNCHANGED vars PROVE WorkerKnowsSteps(v)'
  BY <1>32 DEF vars
<1> HIDE DEF TypeOK, GateTypeOK, gateVars, storeVars, workerVars, history, Live,
             Ended, NoRow, NoCopy, WorkerHasJob, WorkerKnowsLease,
             WorkerKnowsSteps, RowCountsDone, Steps, Copies, Rows
<1> QED
  BY <1>1, <1>2, <1>3, <1>4, <1>5, <1>6, <1>7, <1>8, <1>9, <1>10, <1>11,
     <1>12, <1>13, <1>14, <1>15, <1>16, <1>17, <1>18, <1>19, <1>20, <1>21, <1>22,
     <1>23, <1>24, <1>25, <1>26, <1>27, <1>28, <1>29, <1>30, <1>31, <1>32
    DEF Next, Step

(* And no row is ahead of its goroutine.                                   *)
LEMMA RowCountsDoneStep ==
  ASSUME TypeOK, \A w \in Workers : WorkerHasJob(w),
         \A w \in Workers : WorkerKnowsSteps(w),
         \A a \in Actions : RowCountsDone(a),
         [Next]_vars
  PROVE  \A b \in Actions : RowCountsDone(b)'
<1> SUFFICES ASSUME NEW b \in Actions PROVE RowCountsDone(b)'
  OBVIOUS
<1> USE DEF TypeOK, GateTypeOK, gateVars, storeVars, workerVars, history, Live,
            Ended, NoRow, NoCopy, WorkerHasJob, WorkerKnowsSteps, RowCountsDone,
            Steps, Copies, Rows
<1>1. ASSUME NEW w \in Workers, Execute(w) PROVE RowCountsDone(b)'
  BY <1>1 DEF Execute, Goto
<1>2. ASSUME NEW w \in Workers, CreateRun(w) PROVE RowCountsDone(b)'
  BY <1>2 DEF CreateRun, Goto
<1>3. ASSUME NEW w \in Workers, EndEarly(w) PROVE RowCountsDone(b)'
  BY <1>3 DEF EndEarly, End
<1>4. ASSUME NEW w \in Workers, LoadRun(w) PROVE RowCountsDone(b)'
  BY <1>4 DEF LoadRun, Goto
<1>5. ASSUME NEW w \in Workers, Proceed(w) PROVE RowCountsDone(b)'
  BY <1>5 DEF Proceed, Goto
<1>6. ASSUME NEW w \in Workers, PreconditionFails(w) PROVE RowCountsDone(b)'
  BY <1>6 DEF PreconditionFails, Goto, SaveRun
<1>7. ASSUME NEW w \in Workers, OpenWindow(w) PROVE RowCountsDone(b)'
  BY <1>7 DEF OpenWindow, Goto, Enter, Persist, MustEnter, Unused
<1>8. ASSUME NEW w \in Workers, WindowRefused(w) PROVE RowCountsDone(b)'
  BY <1>8 DEF WindowRefused, Goto, MustEnter
<1>9. ASSUME NEW w \in Workers, SaveLease(w) PROVE RowCountsDone(b)'
  BY <1>9 DEF SaveLease, Goto, SaveRun
<1>10. ASSUME NEW w \in Workers, BeginStep(w) PROVE RowCountsDone(b)'
  BY <1>10 DEF BeginStep, Goto, MustEnter
<1>11. ASSUME NEW w \in Workers, StepDone(w) PROVE RowCountsDone(b)'
  BY <1>11 DEF StepDone, Goto
<1>12. ASSUME NEW w \in Workers, StepFails(w) PROVE RowCountsDone(b)'
  BY <1>12 DEF StepFails
<1>13. ASSUME NEW w \in Workers, SaveStep(w) PROVE RowCountsDone(b)'
  BY <1>13 DEF SaveStep, Goto, SaveRun
<1>14. ASSUME NEW w \in Workers, Pause(w) PROVE RowCountsDone(b)'
  BY <1>14 DEF Pause, SaveRun, End
<1>15. ASSUME NEW w \in Workers, AllDone(w) PROVE RowCountsDone(b)'
  BY <1>15 DEF AllDone, Goto
<1>16. ASSUME NEW w \in Workers, Release(w) PROVE RowCountsDone(b)'
  BY <1>16 DEF Release, Goto, Exit, Persist
<1>17. ASSUME NEW w \in Workers, SaveEnd(w) PROVE RowCountsDone(b)'
  BY <1>17 DEF SaveEnd, Goto, SaveRun
<1>18. ASSUME NEW w \in Workers, Finish(w) PROVE RowCountsDone(b)'
  BY <1>18 DEF Finish, End, Outcome
<1>19. ASSUME NEW w \in Workers, AbortTakes(w) PROVE RowCountsDone(b)'
  BY <1>19 DEF AbortTakes, Goto
<1>20. ASSUME NEW w \in Workers, AbortRefused(w) PROVE RowCountsDone(b)'
  BY <1>20 DEF AbortRefused, End
<1>21. ASSUME NEW w \in Workers, AbortRelease(w) PROVE RowCountsDone(b)'
  BY <1>21 DEF AbortRelease, Goto, Exit, Persist
<1>22. ASSUME NEW w \in Workers, AbortFinish(w) PROVE RowCountsDone(b)'
  BY <1>22 DEF AbortFinish, End
<1>23. ASSUME NEW w \in Workers, NEW a \in Actions, Approve(w, a)
       PROVE RowCountsDone(b)'
  BY <1>23 DEF Approve, Spawn
<1>24. ASSUME NEW w \in Workers, NEW a \in Actions, ApproveCheckpoint(w, a)
       PROVE RowCountsDone(b)'
  BY <1>24 DEF ApproveCheckpoint, Spawn, IsParked
<1>25. ASSUME NEW w \in Workers, NEW a \in Actions, AbortCheckpoint(w, a)
       PROVE RowCountsDone(b)'
  BY <1>25 DEF AbortCheckpoint, Spawn
<1>26. ASSUME NEW a \in Actions, NEW s \in {"rejected", "superseded"}, Decline(a, s)
       PROVE RowCountsDone(b)'
  BY <1>26 DEF Decline
<1>27. ASSUME OperatorEnters PROVE RowCountsDone(b)'
  BY <1>27 DEF OperatorEnters, Enter, Persist, Unused
<1>28. ASSUME WindowEnds PROVE RowCountsDone(b)'
  BY <1>28 DEF WindowEnds, Close, Persist
<1>29. ASSUME Stop PROVE RowCountsDone(b)'
  BY <1>29 DEF Stop
<1>30. ASSUME Die PROVE RowCountsDone(b)'
  BY <1>30 DEF Die
<1>31. ASSUME Boot PROVE RowCountsDone(b)'
  BY <1>31 DEF Boot, Reopen, Persist, Resumable
<1>32. ASSUME UNCHANGED vars PROVE RowCountsDone(b)'
  BY <1>32 DEF vars
<1> HIDE DEF TypeOK, GateTypeOK, gateVars, storeVars, workerVars, history, Live,
             Ended, NoRow, NoCopy, WorkerHasJob, WorkerKnowsSteps, RowCountsDone,
             Steps, Copies, Rows
<1> QED
  BY <1>1, <1>2, <1>3, <1>4, <1>5, <1>6, <1>7, <1>8, <1>9, <1>10, <1>11,
     <1>12, <1>13, <1>14, <1>15, <1>16, <1>17, <1>18, <1>19, <1>20, <1>21, <1>22,
     <1>23, <1>24, <1>25, <1>26, <1>27, <1>28, <1>29, <1>30, <1>31, <1>32
    DEF Next, Step

(* A row appears with its action's execution.                              *)
LEMMA RowIsCreatedStep ==
  ASSUME TypeOK, \A w \in Workers : WorkerHasJob(w),
         \A w \in Workers : WorkerKnowsRun(w), \A w \in Workers : WorkerKnowsEnd(w),
         \A w \in Workers : WorkerKnowsLease(w), \A a \in Actions : RowIsCreated(a),
         [Next]_vars
  PROVE  \A b \in Actions : RowIsCreated(b)'
<1> SUFFICES ASSUME NEW b \in Actions PROVE RowIsCreated(b)'
  OBVIOUS
<1> USE DEF TypeOK, GateTypeOK, gateVars, storeVars, workerVars, history, Live,
            Ended, NoRow, NoCopy, WorkerHasJob, WorkerKnowsRun, WorkerKnowsEnd,
            WorkerKnowsLease, RowIsCreated, Driving, Labels
<1>1. ASSUME NEW w \in Workers, Execute(w) PROVE RowIsCreated(b)'
  BY <1>1 DEF Execute, Goto
<1>2. ASSUME NEW w \in Workers, CreateRun(w) PROVE RowIsCreated(b)'
  BY <1>2 DEF CreateRun, Goto
<1>3. ASSUME NEW w \in Workers, EndEarly(w) PROVE RowIsCreated(b)'
  BY <1>3 DEF EndEarly, End
<1>4. ASSUME NEW w \in Workers, LoadRun(w) PROVE RowIsCreated(b)'
  BY <1>4 DEF LoadRun, Goto
<1>5. ASSUME NEW w \in Workers, Proceed(w) PROVE RowIsCreated(b)'
  BY <1>5 DEF Proceed, Goto
<1>6. ASSUME NEW w \in Workers, PreconditionFails(w) PROVE RowIsCreated(b)'
  BY <1>6 DEF PreconditionFails, Goto, SaveRun
<1>7. ASSUME NEW w \in Workers, OpenWindow(w) PROVE RowIsCreated(b)'
  BY <1>7 DEF OpenWindow, Goto, Enter, Persist, MustEnter, Unused
<1>8. ASSUME NEW w \in Workers, WindowRefused(w) PROVE RowIsCreated(b)'
  BY <1>8 DEF WindowRefused, Goto, MustEnter
<1>9. ASSUME NEW w \in Workers, SaveLease(w) PROVE RowIsCreated(b)'
  BY <1>9 DEF SaveLease, Goto, SaveRun
<1>10. ASSUME NEW w \in Workers, BeginStep(w) PROVE RowIsCreated(b)'
  BY <1>10 DEF BeginStep, Goto, MustEnter
<1>11. ASSUME NEW w \in Workers, StepDone(w) PROVE RowIsCreated(b)'
  BY <1>11 DEF StepDone, Goto
<1>12. ASSUME NEW w \in Workers, StepFails(w) PROVE RowIsCreated(b)'
  BY <1>12 DEF StepFails
<1>13. ASSUME NEW w \in Workers, SaveStep(w) PROVE RowIsCreated(b)'
  BY <1>13 DEF SaveStep, Goto, SaveRun
<1>14. ASSUME NEW w \in Workers, Pause(w) PROVE RowIsCreated(b)'
  BY <1>14 DEF Pause, SaveRun, End
<1>15. ASSUME NEW w \in Workers, AllDone(w) PROVE RowIsCreated(b)'
  BY <1>15 DEF AllDone, Goto
<1>16. ASSUME NEW w \in Workers, Release(w) PROVE RowIsCreated(b)'
  BY <1>16 DEF Release, Goto, Exit, Persist
<1>17. ASSUME NEW w \in Workers, SaveEnd(w) PROVE RowIsCreated(b)'
  BY <1>17 DEF SaveEnd, Goto, SaveRun
<1>18. ASSUME NEW w \in Workers, Finish(w) PROVE RowIsCreated(b)'
  BY <1>18 DEF Finish, End, Outcome
<1>19. ASSUME NEW w \in Workers, AbortTakes(w) PROVE RowIsCreated(b)'
  BY <1>19 DEF AbortTakes, Goto
<1>20. ASSUME NEW w \in Workers, AbortRefused(w) PROVE RowIsCreated(b)'
  BY <1>20 DEF AbortRefused, End
<1>21. ASSUME NEW w \in Workers, AbortRelease(w) PROVE RowIsCreated(b)'
  BY <1>21 DEF AbortRelease, Goto, Exit, Persist
<1>22. ASSUME NEW w \in Workers, AbortFinish(w) PROVE RowIsCreated(b)'
  BY <1>22 DEF AbortFinish, End
<1>23. ASSUME NEW w \in Workers, NEW a \in Actions, Approve(w, a)
       PROVE RowIsCreated(b)'
  BY <1>23 DEF Approve, Spawn
<1>24. ASSUME NEW w \in Workers, NEW a \in Actions, ApproveCheckpoint(w, a)
       PROVE RowIsCreated(b)'
  BY <1>24 DEF ApproveCheckpoint, Spawn, IsParked
<1>25. ASSUME NEW w \in Workers, NEW a \in Actions, AbortCheckpoint(w, a)
       PROVE RowIsCreated(b)'
  BY <1>25 DEF AbortCheckpoint, Spawn
<1>26. ASSUME NEW a \in Actions, NEW s \in {"rejected", "superseded"}, Decline(a, s)
       PROVE RowIsCreated(b)'
  BY <1>26 DEF Decline
<1>27. ASSUME OperatorEnters PROVE RowIsCreated(b)'
  BY <1>27 DEF OperatorEnters, Enter, Persist, Unused
<1>28. ASSUME WindowEnds PROVE RowIsCreated(b)'
  BY <1>28 DEF WindowEnds, Close, Persist
<1>29. ASSUME Stop PROVE RowIsCreated(b)'
  BY <1>29 DEF Stop
<1>30. ASSUME Die PROVE RowIsCreated(b)'
  BY <1>30 DEF Die
<1>31. ASSUME Boot PROVE RowIsCreated(b)'
  BY <1>31 DEF Boot, Reopen, Persist, Resumable
<1>32. ASSUME UNCHANGED vars PROVE RowIsCreated(b)'
  BY <1>32 DEF vars
<1> HIDE DEF TypeOK, GateTypeOK, gateVars, storeVars, workerVars, history, Live,
             Ended, NoRow, NoCopy, WorkerHasJob, WorkerKnowsRun, WorkerKnowsEnd,
             WorkerKnowsLease, RowIsCreated, Driving, Labels
<1> QED
  BY <1>1, <1>2, <1>3, <1>4, <1>5, <1>6, <1>7, <1>8, <1>9, <1>10, <1>11,
     <1>12, <1>13, <1>14, <1>15, <1>16, <1>17, <1>18, <1>19, <1>20, <1>21, <1>22,
     <1>23, <1>24, <1>25, <1>26, <1>27, <1>28, <1>29, <1>30, <1>31, <1>32
    DEF Next, Step

(* The two tables keep agreeing, statement by statement.                   *)
LEMMA RunMatchesStep ==
  ASSUME TypeOK, OneRunner, RunMatchesAction, \A w \in Workers : WorkerHasJob(w),
         \A w \in Workers : WorkerKnowsRun(w), \A w \in Workers : WorkerKnowsEnd(w),
         \A a \in Actions : RowIsCreated(a),
         [Next]_vars
  PROVE  RunMatchesAction'
<1> USE DEF TypeOK, GateTypeOK, gateVars, storeVars, workerVars, history, Live,
            Ended, NoRow, NoCopy, OneRunner, Works, RunMatchesAction,
            WorkerHasJob, WorkerKnowsRun, WorkerKnowsEnd, RowIsCreated, Driving,
            Labels
<1>1. ASSUME NEW w \in Workers, Execute(w) PROVE RunMatchesAction'
  BY <1>1 DEF Execute, Goto
<1>2. ASSUME NEW w \in Workers, CreateRun(w) PROVE RunMatchesAction'
  BY <1>2 DEF CreateRun, Goto
<1>3. ASSUME NEW w \in Workers, EndEarly(w) PROVE RunMatchesAction'
  BY <1>3 DEF EndEarly, End
<1>4. ASSUME NEW w \in Workers, LoadRun(w) PROVE RunMatchesAction'
  BY <1>4 DEF LoadRun, Goto
<1>5. ASSUME NEW w \in Workers, Proceed(w) PROVE RunMatchesAction'
  BY <1>5 DEF Proceed, Goto
<1>6. ASSUME NEW w \in Workers, PreconditionFails(w) PROVE RunMatchesAction'
  BY <1>6 DEF PreconditionFails, Goto, SaveRun
<1>7. ASSUME NEW w \in Workers, OpenWindow(w) PROVE RunMatchesAction'
  BY <1>7 DEF OpenWindow, Goto, Enter, Persist, MustEnter, Unused
<1>8. ASSUME NEW w \in Workers, WindowRefused(w) PROVE RunMatchesAction'
  BY <1>8 DEF WindowRefused, Goto, MustEnter
<1>9. ASSUME NEW w \in Workers, SaveLease(w) PROVE RunMatchesAction'
  BY <1>9 DEF SaveLease, Goto, SaveRun
<1>10. ASSUME NEW w \in Workers, BeginStep(w) PROVE RunMatchesAction'
  BY <1>10 DEF BeginStep, Goto, MustEnter
<1>11. ASSUME NEW w \in Workers, StepDone(w) PROVE RunMatchesAction'
  BY <1>11 DEF StepDone, Goto
<1>12. ASSUME NEW w \in Workers, StepFails(w) PROVE RunMatchesAction'
  BY <1>12 DEF StepFails
<1>13. ASSUME NEW w \in Workers, SaveStep(w) PROVE RunMatchesAction'
  BY <1>13 DEF SaveStep, Goto, SaveRun
<1>14. ASSUME NEW w \in Workers, Pause(w) PROVE RunMatchesAction'
  BY <1>14 DEF Pause, SaveRun, End
<1>15. ASSUME NEW w \in Workers, AllDone(w) PROVE RunMatchesAction'
  BY <1>15 DEF AllDone, Goto
<1>16. ASSUME NEW w \in Workers, Release(w) PROVE RunMatchesAction'
  BY <1>16 DEF Release, Goto, Exit, Persist
<1>17. ASSUME NEW w \in Workers, SaveEnd(w) PROVE RunMatchesAction'
  BY <1>17 DEF SaveEnd, Goto, SaveRun
<1>18. ASSUME NEW w \in Workers, Finish(w) PROVE RunMatchesAction'
  BY <1>18 DEF Finish, End, Outcome
<1>19. ASSUME NEW w \in Workers, AbortTakes(w) PROVE RunMatchesAction'
  BY <1>19 DEF AbortTakes, Goto
<1>20. ASSUME NEW w \in Workers, AbortRefused(w) PROVE RunMatchesAction'
  BY <1>20 DEF AbortRefused, End
<1>21. ASSUME NEW w \in Workers, AbortRelease(w) PROVE RunMatchesAction'
  BY <1>21 DEF AbortRelease, Goto, Exit, Persist
<1>22. ASSUME NEW w \in Workers, AbortFinish(w) PROVE RunMatchesAction'
  BY <1>22 DEF AbortFinish, End
<1>23. ASSUME NEW w \in Workers, NEW a \in Actions, Approve(w, a)
       PROVE RunMatchesAction'
  BY <1>23 DEF Approve, Spawn
<1>24. ASSUME NEW w \in Workers, NEW a \in Actions, ApproveCheckpoint(w, a)
       PROVE RunMatchesAction'
  BY <1>24 DEF ApproveCheckpoint, Spawn, IsParked
<1>25. ASSUME NEW w \in Workers, NEW a \in Actions, AbortCheckpoint(w, a)
       PROVE RunMatchesAction'
  BY <1>25 DEF AbortCheckpoint, Spawn
<1>26. ASSUME NEW a \in Actions, NEW s \in {"rejected", "superseded"}, Decline(a, s)
       PROVE RunMatchesAction'
  BY <1>26 DEF Decline
<1>27. ASSUME OperatorEnters PROVE RunMatchesAction'
  BY <1>27 DEF OperatorEnters, Enter, Persist, Unused
<1>28. ASSUME WindowEnds PROVE RunMatchesAction'
  BY <1>28 DEF WindowEnds, Close, Persist
<1>29. ASSUME Stop PROVE RunMatchesAction'
  BY <1>29 DEF Stop
<1>30. ASSUME Die PROVE RunMatchesAction'
  BY <1>30 DEF Die
<1>31. ASSUME Boot PROVE RunMatchesAction'
  BY <1>31 DEF Boot, Reopen, Persist, Resumable
<1>32. ASSUME UNCHANGED vars PROVE RunMatchesAction'
  BY <1>32 DEF vars
<1> QED
  BY <1>1, <1>2, <1>3, <1>4, <1>5, <1>6, <1>7, <1>8, <1>9, <1>10, <1>11,
     <1>12, <1>13, <1>14, <1>15, <1>16, <1>17, <1>18, <1>19, <1>20, <1>21, <1>22,
     <1>23, <1>24, <1>25, <1>26, <1>27, <1>28, <1>29, <1>30, <1>31, <1>32
    DEF Next, Step

(* A window is handed from goroutine to row and back, and never dropped.   *)
LEMMA WindowIsOwnedStep ==
  ASSUME RunInv, WindowIsOwned,
         [Next]_vars
  PROVE  WindowIsOwned'
<1> USE DEF TypeOK, GateTypeOK, gateVars, storeVars, workerVars, history, Live,
            Ended, NoRow, NoCopy, WindowIsOwned, Works, LiveLeases, HoldsWindow,
            WorkerHasJob, WorkerKnowsRun, WorkerKnowsLease, RunInv, OneRunner,
            RowIsCreated, Driving, Aborting, Fresh, Windows, Copies, Rows
<1>1. ASSUME NEW w \in Workers, Execute(w) PROVE WindowIsOwned'
  BY <1>1 DEF Execute, Goto
<1>2. ASSUME NEW w \in Workers, CreateRun(w) PROVE WindowIsOwned'
  <2>1. /\ pc[w] = "create" /\ job[w] \in Actions
        /\ row[job[w]].status = "none"
        /\ row' = [row EXCEPT ![job[w]] = [NoRow EXCEPT !.status = "running"]]
        /\ pc' = [pc EXCEPT ![w] = "check"]
        /\ UNCHANGED <<window, mem, daemon>>
    BY <1>2 DEF CreateRun, Goto
  <2>2. LiveLeases \subseteq LiveLeases'
    BY <2>1
  <2>3. \A a \in Actions : row[a].status = "aborted" => row'[a] = row[a]
    BY <2>1
  <2>4. \A u \in Workers : Works(u) => Works(u)' /\ mem'[u] = mem[u]
    BY <2>1
  <2> HIDE DEF LiveLeases, Works, RunInv
  <2> QED
    BY <2>1, <2>2, <2>3, <2>4
<1>3. ASSUME NEW w \in Workers, EndEarly(w) PROVE WindowIsOwned'
  BY <1>3 DEF EndEarly, End
<1>4. ASSUME NEW w \in Workers, LoadRun(w) PROVE WindowIsOwned'
  BY <1>4 DEF LoadRun, Goto
<1>5. ASSUME NEW w \in Workers, Proceed(w) PROVE WindowIsOwned'
  BY <1>5 DEF Proceed, Goto
<1>6. ASSUME NEW w \in Workers, PreconditionFails(w) PROVE WindowIsOwned'
  <2> SUFFICES ASSUME daemon = "up", window # NoWindow PROVE WindowIsOwned'
    BY <1>6 DEF PreconditionFails
  <2>1. /\ pc[w] = "check" /\ job[w] \in Actions
        /\ row' = [row EXCEPT ![job[w]] =
             [status |-> "precondition_failed", step |-> mem[w].step, lease |-> mem[w].lease]]
        /\ pc' = [pc EXCEPT ![w] = "finish"]
        /\ mem[w].lease = NoLease
        /\ UNCHANGED <<window, mem, daemon>>
    BY <1>6 DEF PreconditionFails, Goto, SaveRun
  <2>2. /\ row[job[w]].lease = NoLease
        /\ row[job[w]].status = "running" /\ window.lease # NoLease
    BY <2>1
  <2>3. window.lease \in LiveLeases => window.lease \in LiveLeases'
    BY <2>1, <2>2
  <2>4. \A a \in Actions : row[a].status = "aborted" => row'[a] = row[a]
    BY <2>1, <2>2
  <2>5. \A u \in Workers : Works(u) => Works(u)' /\ mem'[u] = mem[u]
    BY <2>1
  <2> HIDE DEF LiveLeases, Works, RunInv
  <2> QED
    BY <2>1, <2>3, <2>4, <2>5
<1>7. ASSUME NEW w \in Workers, OpenWindow(w) PROVE WindowIsOwned'
  BY <1>7 DEF OpenWindow, Goto, Enter, Persist, MustEnter, Unused
<1>8. ASSUME NEW w \in Workers, WindowRefused(w) PROVE WindowIsOwned'
  BY <1>8 DEF WindowRefused, Goto, MustEnter
<1>9. ASSUME NEW w \in Workers, SaveLease(w) PROVE WindowIsOwned'
  BY <1>9 DEF SaveLease, Goto, SaveRun
<1>10. ASSUME NEW w \in Workers, BeginStep(w) PROVE WindowIsOwned'
  BY <1>10 DEF BeginStep, Goto, MustEnter
<1>11. ASSUME NEW w \in Workers, StepDone(w) PROVE WindowIsOwned'
  BY <1>11 DEF StepDone, Goto
<1>12. ASSUME NEW w \in Workers, StepFails(w) PROVE WindowIsOwned'
  BY <1>12 DEF StepFails
<1>13. ASSUME NEW w \in Workers, SaveStep(w) PROVE WindowIsOwned'
  BY <1>13 DEF SaveStep, Goto, SaveRun
<1>14. ASSUME NEW w \in Workers, Pause(w) PROVE WindowIsOwned'
  <2> SUFFICES ASSUME daemon = "up", window # NoWindow PROVE WindowIsOwned'
    BY <1>14 DEF Pause
  <2>1. /\ pc[w] = "pause" /\ job[w] \in Actions
        /\ row' = [row EXCEPT ![job[w]] =
             [status |-> "awaiting", step |-> mem[w].step, lease |-> mem[w].lease]]
        /\ pc' = [pc EXCEPT ![w] = "idle"]
        /\ mem' = [mem EXCEPT ![w] = NoCopy]
        /\ UNCHANGED <<window, daemon>>
    BY <1>14 DEF Pause, SaveRun, End
  <2>2. /\ row[job[w]].lease \in {NoLease, mem[w].lease}
        /\ row[job[w]].status = "running" /\ window.lease # NoLease
    BY <2>1
  <2>3. mem[w].lease \in LiveLeases'
    BY <2>1
  <2>4. window.lease \in LiveLeases => window.lease \in LiveLeases'
    BY <2>1, <2>2, <2>3
  <2>5. \A a \in Actions : row[a].status = "aborted" => row'[a] = row[a]
    BY <2>1, <2>2
  <2>6. \A u \in Workers : u # w /\ Works(u) => Works(u)' /\ mem'[u] = mem[u]
    BY <2>1
  <2> HIDE DEF LiveLeases, Works, RunInv
  <2> QED
    BY <2>1, <2>3, <2>4, <2>5, <2>6
<1>15. ASSUME NEW w \in Workers, AllDone(w) PROVE WindowIsOwned'
  BY <1>15 DEF AllDone, Goto
<1>16. ASSUME NEW w \in Workers, Release(w) PROVE WindowIsOwned'
  BY <1>16 DEF Release, Goto, Exit, Persist
<1>17. ASSUME NEW w \in Workers, SaveEnd(w) PROVE WindowIsOwned'
  BY <1>17 DEF SaveEnd, Goto, SaveRun
<1>18. ASSUME NEW w \in Workers, Finish(w) PROVE WindowIsOwned'
  BY <1>18 DEF Finish, End, Outcome
<1>19. ASSUME NEW w \in Workers, AbortTakes(w) PROVE WindowIsOwned'
  BY <1>19 DEF AbortTakes, Goto
<1>20. ASSUME NEW w \in Workers, AbortRefused(w) PROVE WindowIsOwned'
  BY <1>20 DEF AbortRefused, End
<1>21. ASSUME NEW w \in Workers, AbortRelease(w) PROVE WindowIsOwned'
  BY <1>21 DEF AbortRelease, Goto, Exit, Persist
<1>22. ASSUME NEW w \in Workers, AbortFinish(w) PROVE WindowIsOwned'
  BY <1>22 DEF AbortFinish, End
<1>23. ASSUME NEW w \in Workers, NEW a \in Actions, Approve(w, a)
       PROVE WindowIsOwned'
  BY <1>23 DEF Approve, Spawn
<1>24. ASSUME NEW w \in Workers, NEW a \in Actions, ApproveCheckpoint(w, a)
       PROVE WindowIsOwned'
  BY <1>24 DEF ApproveCheckpoint, Spawn, IsParked
<1>25. ASSUME NEW w \in Workers, NEW a \in Actions, AbortCheckpoint(w, a)
       PROVE WindowIsOwned'
  BY <1>25 DEF AbortCheckpoint, Spawn
<1>26. ASSUME NEW a \in Actions, NEW s \in {"rejected", "superseded"}, Decline(a, s)
       PROVE WindowIsOwned'
  BY <1>26 DEF Decline
<1>27. ASSUME OperatorEnters PROVE WindowIsOwned'
  BY <1>27 DEF OperatorEnters, Enter, Persist, Unused
<1>28. ASSUME WindowEnds PROVE WindowIsOwned'
  BY <1>28 DEF WindowEnds, Close, Persist
<1>29. ASSUME Stop PROVE WindowIsOwned'
  BY <1>29 DEF Stop
<1>30. ASSUME Die PROVE WindowIsOwned'
  BY <1>30 DEF Die
<1>31. ASSUME Boot PROVE WindowIsOwned'
  BY <1>31 DEF Boot, Reopen, Persist, Resumable
<1>32. ASSUME UNCHANGED vars PROVE WindowIsOwned'
  BY <1>32 DEF vars
<1> HIDE DEF TypeOK, GateTypeOK, gateVars, storeVars, workerVars, history, Live,
             Ended, NoRow, NoCopy, WindowIsOwned, Works, LiveLeases, HoldsWindow,
             WorkerHasJob, WorkerKnowsRun, WorkerKnowsLease, RunInv, OneRunner,
             RowIsCreated, Driving, Aborting, Fresh, Windows, Copies, Rows
<1> QED
  BY <1>1, <1>2, <1>3, <1>4, <1>5, <1>6, <1>7, <1>8, <1>9, <1>10, <1>11,
     <1>12, <1>13, <1>14, <1>15, <1>16, <1>17, <1>18, <1>19, <1>20, <1>21, <1>22,
     <1>23, <1>24, <1>25, <1>26, <1>27, <1>28, <1>29, <1>30, <1>31, <1>32
    DEF Next, Step

-----------------------------------------------------------------------------
(* Nothing runs and nothing is stored when the daemon is first started.    *)
LEMMA RunInvInit ==
  ASSUME Init
  PROVE  RunInv /\ WindowIsOwned
<1> USE DEF Init, GateInit, NoRow, NoCopy
<1>1. TypeOK /\ MayStart
  BY DEF TypeOK, GateTypeOK, MayStart, Labels, Rows, Copies, Steps
<1>2. OneRunner /\ RunMatchesAction /\ WindowIsOwned
  BY DEF OneRunner, Works, RunMatchesAction, Live, WindowIsOwned
<1>3. \A w \in Workers : WorkerHasJob(w)
  BY DEF WorkerHasJob
<1>4. \A w \in Workers :
        WorkerKnowsRun(w) /\ WorkerKnowsEnd(w) /\ WorkerKnowsLease(w)
  BY DEF WorkerKnowsRun, WorkerKnowsEnd, WorkerKnowsLease, Driving, Aborting
<1>5. \A w \in Workers : WorkerKnowsSteps(w)
  BY DEF WorkerKnowsSteps
<1>6. \A a \in Actions : RowIsCreated(a) /\ RowCountsDone(a)
  BY DEF RowIsCreated, RowCountsDone
<1> QED
  BY <1>1, <1>2, <1>3, <1>4, <1>5, <1>6 DEF RunInv

(* The inductive invariant is kept by every step.                          *)
LEMMA RunInvStep ==
  ASSUME RunInv, [Next]_vars
  PROVE  RunInv'
<1> USE DEF RunInv
<1>1. TypeOK'
  BY RunTypeStep
<1>2. MayStart' /\ \A w \in Workers : WorkerHasJob(w)'
  BY WorkerHasJobStep
<1>3. OneRunner' /\ RunMatchesAction'
  BY OneRunnerStep, RunMatchesStep
<1>4. \A w \in Workers : WorkerKnowsRun(w)'
  BY KnowsRunStep
<1>5. \A w \in Workers : WorkerKnowsEnd(w)'
  BY KnowsEndStep
<1>6. \A w \in Workers : WorkerKnowsLease(w)'
  BY KnowsLeaseStep
<1>7. \A w \in Workers : WorkerKnowsSteps(w)'
  BY KnowsStepsStep
<1>8. \A a \in Actions : RowIsCreated(a)'
  BY RowIsCreatedStep
<1>9. \A a \in Actions : RowCountsDone(a)'
  BY RowCountsDoneStep
<1> QED
  BY <1>1, <1>2, <1>3, <1>4, <1>5, <1>6, <1>7, <1>8, <1>9

(* The inductive invariant holds throughout.                               *)
THEOREM RunInvariant == Spec => [](RunInv /\ WindowIsOwned)
<1>1. Init => RunInv /\ WindowIsOwned
  BY RunInvInit
<1>2. RunInv /\ WindowIsOwned /\ [Next]_vars => (RunInv /\ WindowIsOwned)'
  BY RunInvStep, WindowIsOwnedStep
<1> QED
  BY <1>1, <1>2, PTL DEF Spec

-----------------------------------------------------------------------------
(* Every variable keeps its type.                                          *)
THEOREM ProcedureTypes == Spec => []TypeOK
<1>1. RunInv => TypeOK
  BY DEF RunInv
<1> QED
  BY <1>1, RunInvariant, PTL

(* However often checkpoints are approved and aborted and the daemon is    *)
(* started again, one goroutine at a time works for a run                  *)
(* (ApproveProcedureCheckpoint, resumeProcedureRuns).                      *)
THEOREM SingleRunner == Spec => []OneRunner
<1>1. RunInv => OneRunner
  BY DEF RunInv
<1> QED
  BY <1>1, RunInvariant, PTL

(* smith_actions and smith_procedure_runs agree between any two statements *)
(* of executeAction, runProcedureSteps and finishExecution.                *)
THEOREM TablesAgree == Spec => []RunMatchesAction
<1>1. RunInv => RunMatchesAction
  BY DEF RunInv
<1> QED
  BY <1>1, RunInvariant, PTL

(* A window that a run has entered belongs to it until it is given back    *)
(* (failProcedureRun, pauseProcedureRun, Gate.ReconcileOnBoot).            *)
THEOREM WindowsAreReturned == Spec => []WindowIsOwned
BY RunInvariant, PTL

(* No step of a procedure runs ahead of one that has not succeeded         *)
(* (runProcedureSteps and its resumption at CurrentStep).                  *)
THEOREM StepsInOrder == Spec => []NoStepSkipped
<1>1. RunInv => NoStepSkipped
  <2> SUFFICES ASSUME RunInv, NEW w \in Workers, pc[w] = "step"
               PROVE  1..(mem[w].step - 1) \subseteq done[job[w]]
    BY DEF NoStepSkipped
  <2> QED
    BY DEF RunInv, WorkerHasJob, WorkerKnowsSteps
<1> QED
  BY <1>1, RunInvariant, PTL

-----------------------------------------------------------------------------
(* Checkpoints that nobody has approved, of those before step n.           *)
Unapproved(A, n) == Cardinality({s \in Checkpoints : s < n} \ A)

(* What a crash between runProcedureSteps' two statements can cost: the    *)
(* pause of one checkpoint for every time the daemon is started again, at  *)
(* the labels by whether the last step's pause is still to come.           *)
Behind == {"check", "loop", "saveLease", "step", "release", "saveEnd"}
RowOwes(a) == Unapproved(approved[a], row[a].step - 1) <= starts
WorkerOwes(w) ==
  /\ pc[w] = "resume" => Unapproved(approved[job[w]], row[job[w]].step) <= starts
  /\ pc[w] \in Behind => Unapproved(approved[job[w]], mem[w].step) <= starts
  /\ pc[w] \in {"saveStep", "pause"}
       => Unapproved(approved[job[w]], mem[w].step - 1) <= starts

(* Each start of the daemon lets a run pass one checkpoint at most without *)
(* an operator's approval.                                                 *)
RestartsSkipOne ==
  \A w \in Workers : pc[w] = "step" => Unapproved(approved[job[w]], mem[w].step) <= starts

(* There are finitely many checkpoints.                                    *)
LEMMA UnapprovedFinite ==
  ASSUME NEW A, NEW n
  PROVE  IsFiniteSet({s \in Checkpoints : s < n} \ A)
<1>1. IsFiniteSet(1..Last)
  BY FS_Interval
<1> QED
  BY <1>1, FS_Subset

(* They are counted by a number.                                           *)
LEMMA UnapprovedType ==
  ASSUME NEW A \in SUBSET Checkpoints, NEW n \in Int
  PROVE  Unapproved(A, n) \in Nat
BY UnapprovedFinite, FS_CardinalityType DEF Unapproved

(* Fewer of them lie before an earlier step and once more are approved.    *)
LEMMA UnapprovedMonotone ==
  ASSUME NEW A \in SUBSET Checkpoints, NEW B \in SUBSET Checkpoints, A \subseteq B,
         NEW m \in Int, NEW n \in Int, m <= n
  PROVE  Unapproved(B, m) <= Unapproved(A, n)
<1>1. \A s \in Checkpoints : s \in Int /\ (s < m => s < n)
  BY StepsAssumption
<1>2. {s \in Checkpoints : s < m} \ B \subseteq {s \in Checkpoints : s < n} \ A
  BY <1>1
<1> QED
  BY <1>2, UnapprovedFinite, FS_Subset DEF Unapproved

(* None lies before the first step.                                        *)
LEMMA UnapprovedAtStart ==
  ASSUME NEW A, NEW n \in {0, 1}
  PROVE  Unapproved(A, n) = 0
<1>1. \A s \in Checkpoints : ~(s < n)
  BY StepsAssumption
<1>2. {s \in Checkpoints : s < n} \ A = {}
  BY <1>1
<1> QED
  BY <1>2, FS_EmptySet DEF Unapproved

(* One step further lies one more at most...                               *)
LEMMA UnapprovedNext ==
  ASSUME NEW A \in SUBSET Checkpoints, NEW n \in Int
  PROVE  Unapproved(A, n + 1) <= Unapproved(A, n) + 1
<1> DEFINE S == {s \in Checkpoints : s < n} \ A
           T == {s \in Checkpoints : s < n + 1} \ A
<1>1. IsFiniteSet(S) /\ IsFiniteSet(T)
  BY UnapprovedFinite
<1>2. T \subseteq S \cup {n}
  <2>1. \A s \in Checkpoints : s < n + 1 => s < n \/ s = n
    BY StepsAssumption
  <2> QED
    BY <2>1
<1> HIDE DEF S, T
<1>3. IsFiniteSet(S \cup {n}) /\ Cardinality(S \cup {n}) <= Cardinality(S) + 1
  <2>1. /\ IsFiniteSet(S \cup {n})
        /\ Cardinality(S \cup {n}) = IF n \in S THEN Cardinality(S) ELSE Cardinality(S) + 1
    BY <1>1, FS_AddElement
  <2>2. Cardinality(S) \in Nat
    BY <1>1, FS_CardinalityType
  <2> QED
    BY ONLY <2>1, <2>2
<1>4. Cardinality(T) <= Cardinality(S \cup {n})
  BY <1>2, <1>3, FS_Subset
<1>5. Cardinality(S) \in Nat /\ Cardinality(T) \in Nat /\ Cardinality(S \cup {n}) \in Nat
  BY <1>1, <1>3, FS_CardinalityType
<1>6. Cardinality(T) <= Cardinality(S) + 1
  BY <1>3, <1>4, <1>5
<1> QED
  BY <1>6 DEF Unapproved, S, T

(* ... and none when the step between is no checkpoint or is approved.     *)
LEMMA UnapprovedPasses ==
  ASSUME NEW A \in SUBSET Checkpoints, NEW n \in Int, n \in Checkpoints => n \in A
  PROVE  Unapproved(A, n + 1) <= Unapproved(A, n)
<1>1. \A s \in Checkpoints : s < n + 1 => s < n \/ s \in A
  BY StepsAssumption
<1>2. {s \in Checkpoints : s < n + 1} \ A \subseteq {s \in Checkpoints : s < n} \ A
  BY <1>1
<1> QED
  BY <1>2, UnapprovedFinite, FS_Subset DEF Unapproved

(* What rows owe changes with the statements that save them.               *)
LEMMA RowOwesStep ==
  ASSUME TypeOK, \A w \in Workers : WorkerHasJob(w),
         \A w \in Workers : WorkerOwes(w), \A a \in Actions : RowOwes(a),
         [Next]_vars
  PROVE  \A b \in Actions : RowOwes(b)'
<1> SUFFICES ASSUME NEW b \in Actions PROVE RowOwes(b)'
  OBVIOUS
<1> USE DEF TypeOK, gateVars, storeVars, workerVars, history, Live,
            Ended, NoRow, NoCopy, WorkerHasJob, Fresh, Steps, Copies, Rows, Behind
<1>1. ASSUME NEW w \in Workers, Execute(w) PROVE RowOwes(b)'
  BY <1>1 DEF Execute, Goto, RowOwes
<1>2. ASSUME NEW w \in Workers, CreateRun(w) PROVE RowOwes(b)'
  <2>1. /\ row'[b] = row[b] \/ row'[b].step = 1
        /\ UNCHANGED <<approved, starts>>
    BY <1>2 DEF CreateRun
  <2>2. Unapproved(approved[b], 0) = 0
    BY UnapprovedAtStart
  <2> QED
    BY <2>1, <2>2 DEF RowOwes
<1>3. ASSUME NEW w \in Workers, EndEarly(w) PROVE RowOwes(b)'
  BY <1>3 DEF EndEarly, End, RowOwes
<1>4. ASSUME NEW w \in Workers, LoadRun(w) PROVE RowOwes(b)'
  BY <1>4 DEF LoadRun, Goto, RowOwes
<1>5. ASSUME NEW w \in Workers, Proceed(w) PROVE RowOwes(b)'
  BY <1>5 DEF Proceed, Goto, RowOwes
<1>6. ASSUME NEW w \in Workers, PreconditionFails(w) PROVE RowOwes(b)'
  <2>1. /\ w \in Workers /\ job[w] \in Actions
        /\ row'[b] = row[b] \/ (b = job[w] /\ row'[b].step = mem[w].step)
        /\ UNCHANGED <<approved, starts>>
    BY <1>6 DEF PreconditionFails, Goto, SaveRun
  <2>2. b = job[w] => Unapproved(approved[b], mem[w].step - 1) <= starts
    <3>1. SUFFICES ASSUME b = job[w] PROVE Unapproved(approved[b], mem[w].step - 1) <= starts
      OBVIOUS
    <3>2. Unapproved(approved[b], mem[w].step) <= starts
      BY <3>1, <1>6 DEF PreconditionFails, Goto, SaveRun, WorkerOwes
    <3> QED
      BY <3>2, UnapprovedMonotone, UnapprovedType
  <2> QED
    BY <2>1, <2>2 DEF RowOwes
<1>7. ASSUME NEW w \in Workers, OpenWindow(w) PROVE RowOwes(b)'
  BY <1>7 DEF OpenWindow, Goto, Enter, Persist, MustEnter, Unused, RowOwes
<1>8. ASSUME NEW w \in Workers, WindowRefused(w) PROVE RowOwes(b)'
  BY <1>8 DEF WindowRefused, Goto, MustEnter, RowOwes
<1>9. ASSUME NEW w \in Workers, SaveLease(w) PROVE RowOwes(b)'
  <2>1. /\ w \in Workers /\ job[w] \in Actions
        /\ row'[b] = row[b] \/ (b = job[w] /\ row'[b].step = mem[w].step)
        /\ UNCHANGED <<approved, starts>>
    BY <1>9 DEF SaveLease, Goto, SaveRun
  <2>2. b = job[w] => Unapproved(approved[b], mem[w].step - 1) <= starts
    <3>1. SUFFICES ASSUME b = job[w] PROVE Unapproved(approved[b], mem[w].step - 1) <= starts
      OBVIOUS
    <3>2. Unapproved(approved[b], mem[w].step) <= starts
      BY <3>1, <1>9 DEF SaveLease, Goto, SaveRun, WorkerOwes
    <3> QED
      BY <3>2, UnapprovedMonotone, UnapprovedType
  <2> QED
    BY <2>1, <2>2 DEF RowOwes
<1>10. ASSUME NEW w \in Workers, BeginStep(w) PROVE RowOwes(b)'
  BY <1>10 DEF BeginStep, Goto, MustEnter, RowOwes
<1>11. ASSUME NEW w \in Workers, StepDone(w) PROVE RowOwes(b)'
  BY <1>11 DEF StepDone, Goto, RowOwes
<1>12. ASSUME NEW w \in Workers, StepFails(w) PROVE RowOwes(b)'
  BY <1>12 DEF StepFails, RowOwes
<1>13. ASSUME NEW w \in Workers, SaveStep(w) PROVE RowOwes(b)'
  <2>1. /\ w \in Workers /\ job[w] \in Actions
        /\ row'[b] = row[b] \/ (b = job[w] /\ row'[b].step = mem[w].step)
        /\ UNCHANGED <<approved, starts>>
    BY <1>13 DEF SaveStep, Goto, SaveRun
  <2>2. b = job[w] => Unapproved(approved[b], mem[w].step - 1) <= starts
    BY <1>13 DEF SaveStep, Goto, SaveRun, WorkerOwes
  <2> QED
    BY <2>1, <2>2 DEF RowOwes
<1>14. ASSUME NEW w \in Workers, Pause(w) PROVE RowOwes(b)'
  <2>1. /\ w \in Workers /\ job[w] \in Actions
        /\ row'[b] = row[b] \/ (b = job[w] /\ row'[b].step = mem[w].step)
        /\ UNCHANGED <<approved, starts>>
    BY <1>14 DEF Pause, SaveRun, End
  <2>2. b = job[w] => Unapproved(approved[b], mem[w].step - 1) <= starts
    BY <1>14 DEF Pause, SaveRun, End, WorkerOwes
  <2> QED
    BY <2>1, <2>2 DEF RowOwes
<1>15. ASSUME NEW w \in Workers, AllDone(w) PROVE RowOwes(b)'
  BY <1>15 DEF AllDone, Goto, RowOwes
<1>16. ASSUME NEW w \in Workers, Release(w) PROVE RowOwes(b)'
  BY <1>16 DEF Release, Goto, Exit, Persist, RowOwes
<1>17. ASSUME NEW w \in Workers, SaveEnd(w) PROVE RowOwes(b)'
  <2>1. /\ w \in Workers /\ job[w] \in Actions
        /\ row'[b] = row[b] \/ (b = job[w] /\ row'[b].step = mem[w].step)
        /\ UNCHANGED <<approved, starts>>
    BY <1>17 DEF SaveEnd, Goto, SaveRun
  <2>2. b = job[w] => Unapproved(approved[b], mem[w].step - 1) <= starts
    <3>1. SUFFICES ASSUME b = job[w] PROVE Unapproved(approved[b], mem[w].step - 1) <= starts
      OBVIOUS
    <3>2. Unapproved(approved[b], mem[w].step) <= starts
      BY <3>1, <1>17 DEF SaveEnd, Goto, SaveRun, WorkerOwes
    <3> QED
      BY <3>2, UnapprovedMonotone, UnapprovedType
  <2> QED
    BY <2>1, <2>2 DEF RowOwes
<1>18. ASSUME NEW w \in Workers, Finish(w) PROVE RowOwes(b)'
  BY <1>18 DEF Finish, End, Outcome, RowOwes
<1>19. ASSUME NEW w \in Workers, AbortTakes(w) PROVE RowOwes(b)'
  BY <1>19 DEF AbortTakes, Goto, RowOwes
<1>20. ASSUME NEW w \in Workers, AbortRefused(w) PROVE RowOwes(b)'
  BY <1>20 DEF AbortRefused, End, RowOwes
<1>21. ASSUME NEW w \in Workers, AbortRelease(w) PROVE RowOwes(b)'
  BY <1>21 DEF AbortRelease, Goto, Exit, Persist, RowOwes
<1>22. ASSUME NEW w \in Workers, AbortFinish(w) PROVE RowOwes(b)'
  BY <1>22 DEF AbortFinish, End, RowOwes
<1>23. ASSUME NEW w \in Workers, NEW a \in Actions, Approve(w, a) PROVE RowOwes(b)'
  BY <1>23 DEF Approve, Spawn, RowOwes
<1>24. ASSUME NEW w \in Workers, NEW a \in Actions, ApproveCheckpoint(w, a)
       PROVE RowOwes(b)'
  <2>1. /\ approved[b] \subseteq approved'[b] /\ approved'[b] \in SUBSET Checkpoints
        /\ row'[b].step = row[b].step /\ starts' = starts
    BY <1>24 DEF ApproveCheckpoint
  <2>2. Unapproved(approved'[b], row[b].step - 1) <= Unapproved(approved[b], row[b].step - 1)
    BY <2>1, UnapprovedMonotone
  <2> QED
    BY <2>1, <2>2, UnapprovedType DEF RowOwes
<1>25. ASSUME NEW w \in Workers, NEW a \in Actions, AbortCheckpoint(w, a)
       PROVE RowOwes(b)'
  BY <1>25 DEF AbortCheckpoint, Spawn, RowOwes
<1>26. ASSUME NEW a \in Actions, NEW s \in {"rejected", "superseded"}, Decline(a, s)
       PROVE RowOwes(b)'
  BY <1>26 DEF Decline, RowOwes
<1>27. ASSUME OperatorEnters PROVE RowOwes(b)'
  BY <1>27 DEF OperatorEnters, Enter, Persist, Unused, RowOwes
<1>28. ASSUME WindowEnds PROVE RowOwes(b)'
  BY <1>28 DEF WindowEnds, Close, Persist, RowOwes
<1>29. ASSUME Stop PROVE RowOwes(b)'
  BY <1>29 DEF Stop, RowOwes
<1>30. ASSUME Die PROVE RowOwes(b)'
  BY <1>30 DEF Die, RowOwes
<1>31. ASSUME Boot PROVE RowOwes(b)'
  <2>1. UNCHANGED <<row, approved>> /\ starts' = starts + 1
    BY <1>31 DEF Boot
  <2> QED
    BY <2>1, UnapprovedType DEF RowOwes
<1>32. ASSUME UNCHANGED vars PROVE RowOwes(b)'
  BY <1>32 DEF vars, RowOwes
<1> HIDE DEF TypeOK, gateVars, storeVars, workerVars, history, Live,
             Ended, NoRow, NoCopy, WorkerHasJob, Fresh, Steps, Copies, Rows, Behind
<1> QED
  BY <1>1, <1>2, <1>3, <1>4, <1>5, <1>6, <1>7, <1>8, <1>9, <1>10, <1>11,
     <1>12, <1>13, <1>14, <1>15, <1>16, <1>17, <1>18, <1>19, <1>20, <1>21, <1>22,
     <1>23, <1>24, <1>25, <1>26, <1>27, <1>28, <1>29, <1>30, <1>31, <1>32
    DEF Next, Step

(* What goroutines owe: a goroutine that resumes a run has lost the pause   *)
(* of the step it resumes behind, if it had one.                           *)
LEMMA WorkerOwesStep ==
  ASSUME TypeOK, MayStart, OneRunner, \A w \in Workers : WorkerHasJob(w),
         \A w \in Workers : WorkerKnowsRun(w), \A w \in Workers : WorkerKnowsSteps(w),
         \A w \in Workers : WorkerOwes(w), \A a \in Actions : RowOwes(a),
         [Next]_vars
  PROVE  \A v \in Workers : WorkerOwes(v)'
<1> SUFFICES ASSUME NEW v \in Workers PROVE WorkerOwes(v)'
  OBVIOUS
<1> USE DEF TypeOK, gateVars, storeVars, workerVars, history, Live,
            Ended, NoRow, NoCopy, WorkerHasJob, Fresh, Steps, Copies, Rows,
            Behind, OneRunner, Works
<1>1. ASSUME NEW w \in Workers, Execute(w) PROVE WorkerOwes(v)'
  BY <1>1 DEF Execute, Goto, WorkerOwes
<1>2. ASSUME NEW w \in Workers, CreateRun(w) PROVE WorkerOwes(v)'
  <2>1. /\ pc[w] = "create" /\ pc' = [pc EXCEPT ![w] = "check"] /\ mem[w].step = 1
        /\ UNCHANGED <<job, mem, approved, starts>>
        /\ \A a \in Actions : a # job[w] => row'[a] = row[a]
    BY <1>2 DEF CreateRun, Goto
  <2>2. CASE v = w
    BY <2>1, <2>2, UnapprovedAtStart DEF WorkerOwes
  <2>3. CASE v # w
    BY <2>1, <2>3 DEF WorkerOwes
  <2> QED
    BY <2>2, <2>3
<1>3. ASSUME NEW w \in Workers, EndEarly(w) PROVE WorkerOwes(v)'
  BY <1>3 DEF EndEarly, End, WorkerOwes
<1>4. ASSUME NEW w \in Workers, LoadRun(w) PROVE WorkerOwes(v)'
  BY <1>4 DEF LoadRun, Goto, WorkerOwes
<1>5. ASSUME NEW w \in Workers, Proceed(w) PROVE WorkerOwes(v)'
  BY <1>5 DEF Proceed, Goto, WorkerOwes
<1>6. ASSUME NEW w \in Workers, PreconditionFails(w) PROVE WorkerOwes(v)'
  <2>1. /\ pc[w] = "check" /\ pc' = [pc EXCEPT ![w] = "finish"]
        /\ UNCHANGED <<job, mem, approved, starts>>
        /\ \A a \in Actions : a # job[w] => row'[a] = row[a]
    BY <1>6 DEF PreconditionFails, Goto, SaveRun
  <2>2. CASE v = w
    BY <2>1, <2>2 DEF WorkerOwes
  <2>3. CASE v # w
    BY <2>1, <2>3 DEF WorkerOwes
  <2> QED
    BY <2>2, <2>3
<1>7. ASSUME NEW w \in Workers, OpenWindow(w) PROVE WorkerOwes(v)'
  BY <1>7 DEF OpenWindow, Goto, Enter, Persist, MustEnter, Unused, WorkerOwes
<1>8. ASSUME NEW w \in Workers, WindowRefused(w) PROVE WorkerOwes(v)'
  BY <1>8 DEF WindowRefused, Goto, MustEnter, WorkerOwes
<1>9. ASSUME NEW w \in Workers, SaveLease(w) PROVE WorkerOwes(v)'
  <2>1. /\ pc[w] = "saveLease" /\ pc' = [pc EXCEPT ![w] = "step"]
        /\ UNCHANGED <<job, mem, approved, starts>>
        /\ \A a \in Actions : a # job[w] => row'[a] = row[a]
    BY <1>9 DEF SaveLease, Goto, SaveRun
  <2>2. CASE v = w
    BY <2>1, <2>2 DEF WorkerOwes
  <2>3. CASE v # w
    BY <2>1, <2>3 DEF WorkerOwes
  <2> QED
    BY <2>2, <2>3
<1>10. ASSUME NEW w \in Workers, BeginStep(w) PROVE WorkerOwes(v)'
  BY <1>10 DEF BeginStep, Goto, MustEnter, WorkerOwes
<1>11. ASSUME NEW w \in Workers, StepDone(w) PROVE WorkerOwes(v)'
  <2>1. /\ pc[w] = "step" /\ pc' = [pc EXCEPT ![w] = "saveStep"]
        /\ mem' = [mem EXCEPT ![w].step = @ + 1]
        /\ UNCHANGED <<row, job, approved, starts>>
    BY <1>11 DEF StepDone, Goto
  <2>2. CASE v = w
    BY <2>1, <2>2 DEF WorkerOwes
  <2>3. CASE v # w
    BY <2>1, <2>3 DEF WorkerOwes
  <2> QED
    BY <2>2, <2>3
<1>12. ASSUME NEW w \in Workers, StepFails(w) PROVE WorkerOwes(v)'
  <2>1. /\ pc[w] = "step"
        /\ pc' = [pc EXCEPT ![w] = "pause"] \/ pc' = [pc EXCEPT ![w] = "release"]
        /\ UNCHANGED <<row, job, mem, approved, starts>>
    BY <1>12 DEF StepFails
  <2>2. CASE v = w
    <3>1. Unapproved(approved[job[w]], mem[w].step) <= starts
      BY <2>1 DEF WorkerOwes
    <3>2. Unapproved(approved[job[w]], mem[w].step - 1) <= starts
      BY <2>1, <3>1, UnapprovedMonotone, UnapprovedType
    <3> QED
      BY <2>1, <2>2, <3>1, <3>2 DEF WorkerOwes
  <2>3. CASE v # w
    BY <2>1, <2>3 DEF WorkerOwes
  <2> QED
    BY <2>2, <2>3
<1>13. ASSUME NEW w \in Workers, SaveStep(w) PROVE WorkerOwes(v)'
  <2> DEFINE k == mem[w].step - 1
  <2>1. /\ pc[w] = "saveStep"
        /\ pc' = [pc EXCEPT ![w] = IF k \in Checkpoints THEN "pause" ELSE "loop"]
        /\ UNCHANGED <<job, mem, approved, starts>>
        /\ \A a \in Actions : a # job[w] => row'[a] = row[a]
    BY <1>13 DEF SaveStep, Goto, SaveRun
  <2>2. CASE v = w
    <3>1. /\ k \in Nat /\ mem[w].step = k + 1
          /\ job[w] \in Actions /\ approved[job[w]] \in SUBSET Checkpoints
      BY <2>1
    <3>2. Unapproved(approved[job[w]], k) <= starts
      BY <2>1 DEF WorkerOwes
    <3>3. k \notin Checkpoints => Unapproved(approved[job[w]], k + 1) <= starts
      BY <3>1, <3>2, UnapprovedPasses, UnapprovedType
    <3> QED
      BY <2>1, <2>2, <3>1, <3>2, <3>3 DEF WorkerOwes
  <2>3. CASE v # w
    BY <2>1, <2>3 DEF WorkerOwes
  <2> QED
    BY <2>2, <2>3
<1>14. ASSUME NEW w \in Workers, Pause(w) PROVE WorkerOwes(v)'
  <2>1. /\ pc[w] = "pause" /\ pc' = [pc EXCEPT ![w] = "idle"]
        /\ \A u \in Workers : u # w => job'[u] = job[u] /\ mem'[u] = mem[u]
        /\ UNCHANGED <<approved, starts>>
        /\ \A a \in Actions : a # job[w] => row'[a] = row[a]
    BY <1>14 DEF Pause, End, SaveRun
  <2>2. CASE v = w
    BY <2>1, <2>2 DEF WorkerOwes
  <2>3. CASE v # w
    BY <2>1, <2>3 DEF WorkerOwes
  <2> QED
    BY <2>2, <2>3
<1>15. ASSUME NEW w \in Workers, AllDone(w) PROVE WorkerOwes(v)'
  BY <1>15 DEF AllDone, Goto, WorkerOwes
<1>16. ASSUME NEW w \in Workers, Release(w) PROVE WorkerOwes(v)'
  BY <1>16 DEF Release, Goto, Exit, Persist, WorkerOwes
<1>17. ASSUME NEW w \in Workers, SaveEnd(w) PROVE WorkerOwes(v)'
  <2>1. /\ pc[w] = "saveEnd" /\ pc' = [pc EXCEPT ![w] = "finish"]
        /\ UNCHANGED <<job, mem, approved, starts>>
        /\ \A a \in Actions : a # job[w] => row'[a] = row[a]
    BY <1>17 DEF SaveEnd, Goto, SaveRun
  <2>2. CASE v = w
    BY <2>1, <2>2 DEF WorkerOwes
  <2>3. CASE v # w
    BY <2>1, <2>3 DEF WorkerOwes
  <2> QED
    BY <2>2, <2>3
<1>18. ASSUME NEW w \in Workers, Finish(w) PROVE WorkerOwes(v)'
  BY <1>18 DEF Finish, End, Outcome, WorkerOwes
<1>19. ASSUME NEW w \in Workers, AbortTakes(w) PROVE WorkerOwes(v)'
  <2>1. /\ pc[w] = "abortRead" /\ pc' = [pc EXCEPT ![w] = "abortRelease"]
        /\ UNCHANGED <<job, mem, approved, starts>>
        /\ \A b \in Actions : row'[b].step = row[b].step
    BY <1>19 DEF AbortTakes, Goto
  <2> QED
    BY <2>1 DEF WorkerOwes
<1>20. ASSUME NEW w \in Workers, AbortRefused(w) PROVE WorkerOwes(v)'
  BY <1>20 DEF AbortRefused, End, WorkerOwes
<1>21. ASSUME NEW w \in Workers, AbortRelease(w) PROVE WorkerOwes(v)'
  BY <1>21 DEF AbortRelease, Goto, Exit, Persist, WorkerOwes
<1>22. ASSUME NEW w \in Workers, AbortFinish(w) PROVE WorkerOwes(v)'
  BY <1>22 DEF AbortFinish, End, WorkerOwes
<1>23. ASSUME NEW w \in Workers, NEW a \in Actions, Approve(w, a)
       PROVE WorkerOwes(v)'
  BY <1>23 DEF Approve, Spawn, WorkerOwes
<1>24. ASSUME NEW w \in Workers, NEW a \in Actions, ApproveCheckpoint(w, a)
       PROVE WorkerOwes(v)'
  <2>1. /\ pc[w] = "idle" /\ pc' = [pc EXCEPT ![w] = "resume"]
        /\ job' = [job EXCEPT ![w] = a] /\ mem' = [mem EXCEPT ![w] = NoCopy]
        /\ \A b \in Actions : row'[b].step = row[b].step
        /\ approved' = [approved EXCEPT ![a] = approved[a] \cup ({row[a].step - 1} \cap Checkpoints)]
        /\ starts' = starts
    BY <1>24 DEF ApproveCheckpoint, Spawn
  <2> DEFINE k == row[a].step - 1
  <2>2. k \in Nat /\ row[a].step = k + 1
    OBVIOUS
  <2>3. approved'[a] \in SUBSET Checkpoints /\ (k \in Checkpoints => k \in approved'[a])
    BY <2>1
  <2>4. CASE v = w
    <3>1. Unapproved(approved[a], k) <= starts
      BY DEF RowOwes
    <3>2. Unapproved(approved'[a], k) <= Unapproved(approved[a], k)
      BY <2>1, <2>2, <2>3, UnapprovedMonotone
    <3>3. Unapproved(approved'[a], k + 1) <= Unapproved(approved'[a], k)
      BY <2>2, <2>3, UnapprovedPasses
    <3>4. Unapproved(approved'[a], row[a].step) <= starts
      BY <2>2, <2>3, <3>1, <3>2, <3>3, UnapprovedType
    <3> QED
      BY <2>1, <2>4, <3>4 DEF WorkerOwes
  <2>5. CASE v # w
    <3>1. CASE pc[v] = "idle"
      BY <2>1, <2>5, <3>1 DEF WorkerOwes
    <3>2. CASE pc[v] # "idle"
      <4>1. job[v] \in Actions /\ mem[v].step \in Nat /\ row[job[v]].step \in Nat
        BY <3>2
      <4>2. /\ approved[job[v]] \subseteq approved'[job[v]]
            /\ approved'[job[v]] \in SUBSET Checkpoints
        BY <4>1, <2>1
      <4>3. \A n \in Int :
              Unapproved(approved'[job[v]], n) <= Unapproved(approved[job[v]], n)
        BY <4>1, <4>2, UnapprovedMonotone
      <4>4. \A n \in Int :
              /\ Unapproved(approved'[job[v]], n) \in Nat
              /\ Unapproved(approved[job[v]], n) \in Nat
        BY <4>1, <4>2, UnapprovedType
      <4>5. /\ pc'[v] = pc[v] /\ job'[v] = job[v] /\ mem'[v] = mem[v]
            /\ row'[job[v]].step = row[job[v]].step
        BY <2>1, <2>5, <4>1
      <4>6. starts \in Int /\ starts' = starts
        BY <2>1
      <4>7. \A n \in Int : Unapproved(approved[job[v]], n) <= starts
                        => Unapproved(approved'[job[v]], n) <= starts'
        BY ONLY <4>3, <4>4, <4>6
      <4>8. mem[v].step \in Int /\ mem[v].step - 1 \in Int /\ row[job[v]].step \in Int
        BY <4>1
      <4>9. WorkerOwes(v)
        OBVIOUS
      <4> HIDE DEF TypeOK, WorkerHasJob
      <4> QED
        BY ONLY <4>5, <4>7, <4>8, <4>9 DEF WorkerOwes
    <3> QED
      BY <3>1, <3>2
  <2> QED
    BY <2>4, <2>5
<1>25. ASSUME NEW w \in Workers, NEW a \in Actions, AbortCheckpoint(w, a)
       PROVE WorkerOwes(v)'
  BY <1>25 DEF AbortCheckpoint, Spawn, WorkerOwes
<1>26. ASSUME NEW a \in Actions, NEW s \in {"rejected", "superseded"}, Decline(a, s)
       PROVE WorkerOwes(v)'
  BY <1>26 DEF Decline, WorkerOwes
<1>27. ASSUME OperatorEnters PROVE WorkerOwes(v)'
  BY <1>27 DEF OperatorEnters, Enter, Persist, Unused, WorkerOwes
<1>28. ASSUME WindowEnds PROVE WorkerOwes(v)'
  BY <1>28 DEF WindowEnds, Close, Persist, WorkerOwes
<1>29. ASSUME Stop PROVE WorkerOwes(v)'
  BY <1>29 DEF Stop, WorkerOwes
<1>30. ASSUME Die PROVE WorkerOwes(v)'
  BY <1>30 DEF Die, WorkerOwes
<1>31. ASSUME Boot PROVE WorkerOwes(v)'
  <2>1. /\ UNCHANGED <<row, approved>> /\ starts' = starts + 1
        /\ pc'[v] = "idle" \/ (pc'[v] = "resume" /\ job'[v] \in Actions)
    BY <1>31 DEF Boot, Resumable
  <2>2. CASE pc'[v] = "idle"
    BY <2>2 DEF WorkerOwes
  <2>3. CASE pc'[v] = "resume" /\ job'[v] \in Actions
    <3> DEFINE a == job'[v]
               k == row[a].step - 1
    <3>1. k \in Nat /\ row[a].step = k + 1 /\ approved[a] \in SUBSET Checkpoints
      BY <2>3
    <3>2. Unapproved(approved[a], k) <= starts
      BY <2>3 DEF RowOwes
    <3>3. Unapproved(approved[a], k + 1) <= Unapproved(approved[a], k) + 1
      BY <3>1, UnapprovedNext
    <3>4. Unapproved(approved[a], row[a].step) <= starts + 1
      BY <3>1, <3>2, <3>3, UnapprovedType
    <3> QED
      BY <2>1, <2>3, <3>4 DEF WorkerOwes
  <2> QED
    BY <2>1, <2>2, <2>3
<1>32. ASSUME UNCHANGED vars PROVE WorkerOwes(v)'
  BY <1>32 DEF vars, WorkerOwes
<1> HIDE DEF TypeOK, gateVars, storeVars, workerVars, history, Live,
             Ended, NoRow, NoCopy, WorkerHasJob, Fresh, Steps, Copies, Rows,
             Behind, OneRunner, Works
<1> QED
  BY <1>1, <1>2, <1>3, <1>4, <1>5, <1>6, <1>7, <1>8, <1>9, <1>10, <1>11,
     <1>12, <1>13, <1>14, <1>15, <1>16, <1>17, <1>18, <1>19, <1>20, <1>21, <1>22,
     <1>23, <1>24, <1>25, <1>26, <1>27, <1>28, <1>29, <1>30, <1>31, <1>32
    DEF Next, Step

(* A checkpoint's pause is lost only where the daemon dies between the     *)
(* statement that counts its step and the one that parks the run           *)
(* (runProcedureSteps): once for every start of the daemon.  Without one   *)
(* every checkpoint is approved before a step behind it runs.              *)
THEOREM CheckpointsSkippedByRestarts ==
  Spec => [](RestartsSkipOne /\ (starts = 0 => CheckpointNeedsApproval))
<1> DEFINE Owes == (\A w \in Workers : WorkerOwes(w)) /\ (\A a \in Actions : RowOwes(a))
<1>1. Init => Owes
  <2>1. \A A : Unapproved(A, 0) = 0
    BY UnapprovedAtStart
  <2> QED
    BY <2>1 DEF Init, NoRow, WorkerOwes, RowOwes, Behind
<1>2. RunInv /\ Owes /\ [Next]_vars => Owes'
  BY RowOwesStep, WorkerOwesStep DEF RunInv
<1>3. RunInv /\ Owes => RestartsSkipOne /\ (starts = 0 => CheckpointNeedsApproval)
  <2> SUFFICES ASSUME RunInv, Owes
               PROVE  RestartsSkipOne /\ (starts = 0 => CheckpointNeedsApproval)
    OBVIOUS
  <2>1. RestartsSkipOne
    BY DEF RestartsSkipOne, WorkerOwes, Behind
  <2>2. ASSUME starts = 0, NEW w \in Workers, pc[w] = "step"
        PROVE  {s \in Checkpoints : s < mem[w].step} \subseteq approved[job[w]]
    <3> DEFINE S == {s \in Checkpoints : s < mem[w].step} \ approved[job[w]]
    <3>1. job[w] \in Actions /\ mem[w].step \in Int /\ approved[job[w]] \in SUBSET Checkpoints
      BY <2>2 DEF RunInv, TypeOK, WorkerHasJob, Copies
    <3>2. Cardinality(S) <= 0 /\ Cardinality(S) \in Nat
      BY <2>1, <2>2, <3>1, UnapprovedType DEF RestartsSkipOne, Unapproved
    <3>3. IsFiniteSet(S)
      BY UnapprovedFinite
    <3> HIDE DEF S
    <3>4. S = {}
      BY <3>2, <3>3, FS_EmptySet
    <3> USE DEF S
    <3> QED
      BY <3>4
  <2> QED
    BY <2>1, <2>2 DEF CheckpointNeedsApproval
<1> QED
  BY <1>1, <1>2, <1>3, RunInvariant, PTL DEF Spec

-----------------------------------------------------------------------------
(* Why a goroutine ends.                                                   *)

(* The parts of a goroutine's work in their order; the loop of             *)
(* runProcedureSteps is one of them.                                       *)
Phase == [dispatch |-> 0, create |-> 1, resume |-> 1, check |-> 2,
          saveStep |-> 3, loop |-> 3, saveLease |-> 3, step |-> 3,
          pause |-> 4, release |-> 4, abortRead |-> 4,
          saveEnd |-> 5, abortRelease |-> 5, finish |-> 6, abortFinish |-> 6, idle |-> 7]
(* The places of the loop after a step has been counted, in their order.   *)
Place == [saveStep |-> 0, loop |-> 1, saveLease |-> 2, step |-> 3]
(* Either the goroutine is further on, or it has counted another of the    *)
(* procedure's steps, or is nearer to counting it.                         *)
Advances(w) ==
  \/ Phase[pc[w]] < Phase[pc'[w]]
  \/ /\ {pc[w], pc'[w]} \subseteq DOMAIN Place
     /\ \/ mem[w].step < mem'[w].step
        \/ mem'[w].step = mem[w].step /\ Place[pc[w]] < Place[pc'[w]]

(* Every step of a goroutine brings it closer to its end.                  *)
LEMMA StepAdvances ==
  ASSUME TypeOK, NEW w \in Workers, Step(w)
  PROVE  Advances(w)
<1>1. pc \in [Workers -> Labels] /\ mem \in [Workers -> Copies]
  BY DEF TypeOK
<1>2. CASE Execute(w) \/ CreateRun(w) \/ LoadRun(w)
  <2>1. \/ pc[w] = "dispatch" /\ pc'[w] = "create"
        \/ pc[w] \in {"create", "resume"} /\ pc'[w] = "check"
    BY <1>1, <1>2 DEF Execute, CreateRun, LoadRun, Goto
  <2> QED
    BY ONLY <2>1 DEF Advances, Phase
<1>3. CASE EndEarly(w) \/ Pause(w) \/ Finish(w) \/ AbortRefused(w) \/ AbortFinish(w)
  <2>1. /\ pc[w] \in {"dispatch", "create", "resume", "pause", "finish", "abortRead",
                      "abortFinish"}
        /\ pc'[w] = "idle"
    BY <1>1, <1>3 DEF EndEarly, Pause, Finish, AbortRefused, AbortFinish, End
  <2> QED
    BY ONLY <2>1 DEF Advances, Phase
<1>4. CASE Proceed(w) \/ PreconditionFails(w)
  <2>1. pc[w] = "check" /\ pc'[w] \in {"loop", "finish"}
    BY <1>1, <1>4 DEF Proceed, PreconditionFails, Goto
  <2> QED
    BY ONLY <2>1 DEF Advances, Phase
<1>5. CASE OpenWindow(w) \/ SaveLease(w) \/ BeginStep(w)
  <2>1. /\ \/ pc[w] = "loop" /\ pc'[w] \in {"saveLease", "step"}
           \/ pc[w] = "saveLease" /\ pc'[w] = "step"
        /\ mem'[w].step = mem[w].step
    BY <1>1, <1>5 DEF OpenWindow, SaveLease, BeginStep, Goto, Copies
  <2> QED
    BY ONLY <2>1 DEF Advances, Phase, Place
<1>6. CASE StepDone(w)
  <2>1. pc[w] = "step" /\ pc'[w] = "saveStep" /\ mem'[w].step = mem[w].step + 1
    BY <1>1, <1>6 DEF StepDone, Goto, Copies
  <2>2. mem[w].step < mem'[w].step
    BY <1>1, <2>1, StepsAssumption DEF Copies
  <2> QED
    BY ONLY <2>1, <2>2 DEF Advances, Place
<1>7. CASE SaveStep(w)
  <2>1. /\ pc[w] = "saveStep" /\ pc'[w] \in {"pause", "loop"}
        /\ mem'[w].step = mem[w].step
    BY <1>1, <1>7 DEF SaveStep, Goto
  <2> QED
    BY ONLY <2>1 DEF Advances, Phase, Place
<1>8. CASE WindowRefused(w) \/ AllDone(w) \/ StepFails(w)
  <2>1. pc[w] \in {"loop", "step"} /\ pc'[w] \in {"release", "pause"}
    BY <1>1, <1>8 DEF WindowRefused, AllDone, StepFails, Goto
  <2> QED
    BY ONLY <2>1 DEF Advances, Phase
<1>9. CASE Release(w) \/ SaveEnd(w) \/ AbortTakes(w) \/ AbortRelease(w)
  <2>1. \/ pc[w] = "release" /\ pc'[w] = "saveEnd"
        \/ pc[w] = "saveEnd" /\ pc'[w] = "finish"
        \/ pc[w] = "abortRead" /\ pc'[w] = "abortRelease"
        \/ pc[w] = "abortRelease" /\ pc'[w] = "abortFinish"
    BY <1>1, <1>9 DEF Release, SaveEnd, AbortTakes, AbortRelease, Goto
  <2> QED
    BY ONLY <2>1 DEF Advances, Phase
<1> QED
  BY <1>2, <1>3, <1>4, <1>5, <1>6, <1>7, <1>8, <1>9 DEF Step

(* No other goroutine, client or user of the window changes where a        *)
(* goroutine is; the end of the daemon's process ends it.                  *)
LEMMA RunnersAdvanceStep ==
  ASSUME TypeOK, \A v \in Workers : WorkerHasJob(v),
         Next, NEW w \in Workers, pc[w] # "idle", pc'[w] # pc[w] \/ mem'[w] # mem[w]
  PROVE  Advances(w)
<1>1. pc \in [Workers -> Labels] /\ mem \in [Workers -> Copies]
  BY DEF TypeOK
<1>2. CASE \E v \in Workers : Step(v)
  <2>1. PICK v \in Workers : Step(v)
    BY <1>2
  <2>2. CASE v # w
    BY <1>1, <2>1, <2>2 DEF Step, Execute, CreateRun, EndEarly, LoadRun, Proceed,
       PreconditionFails, OpenWindow, WindowRefused, SaveLease, BeginStep, StepDone,
       StepFails, SaveStep, Pause, AllDone, Release, SaveEnd, Finish, AbortTakes,
       AbortRefused, AbortRelease, AbortFinish, Goto, End
  <2> QED
    BY <2>1, <2>2, StepAdvances
<1>3. CASE \E v \in Workers, a \in Actions :
             Approve(v, a) \/ ApproveCheckpoint(v, a) \/ AbortCheckpoint(v, a)
  BY <1>1, <1>3 DEF Approve, ApproveCheckpoint, AbortCheckpoint, Spawn
<1>4. CASE \E a \in Actions, s \in {"rejected", "superseded"} : Decline(a, s)
  BY <1>4 DEF Decline, workerVars
<1>5. CASE OperatorEnters \/ WindowEnds \/ Stop
  BY <1>5 DEF OperatorEnters, WindowEnds, Stop, workerVars
<1>6. CASE Die
  <2>1. pc'[w] = "idle" /\ pc[w] \in Labels \ {"idle"}
    BY <1>1, <1>6 DEF Die
  <2> QED
    BY ONLY <2>1 DEF Advances, Phase, Labels
<1>7. CASE Boot
  <2>1. daemon = "down"
    BY <1>7 DEF Boot
  <2> QED
    BY <2>1 DEF WorkerHasJob
<1> QED
  BY <1>2, <1>3, <1>4, <1>5, <1>6, <1>7 DEF Next

(* Whatever fails, is refused, parked or aborted, no goroutine goes in     *)
(* circles: each of its steps, and whatever else happens to it, brings it  *)
(* closer to its end, and the procedure's steps are only counted upwards   *)
(* (runProcedureSteps).  With the fairness assumed this is why RunsEnd     *)
(* holds.                                                                  *)
THEOREM RunnersAdvance ==
  Spec => [][\A w \in Workers :
               Step(w) \/ (pc[w] # "idle" /\ (pc'[w] # pc[w] \/ mem'[w] # mem[w]))
                 => Advances(w)]_vars
<1>1. RunInv /\ [Next]_vars =>
        [\A w \in Workers :
           Step(w) \/ (pc[w] # "idle" /\ (pc'[w] # pc[w] \/ mem'[w] # mem[w]))
             => Advances(w)]_vars
  BY StepAdvances, RunnersAdvanceStep DEF RunInv
<1> QED
  BY <1>1, RunInvariant, PTL DEF Spec
=============================================================================
