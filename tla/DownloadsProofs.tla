--------------------------- MODULE DownloadsProofs ---------------------------
(***************************************************************************)
(* Proofs about the model downloads, for any jobs, files, handlers and     *)
(* workers, any API calls and restarts at any point.                       *)
(***************************************************************************)
EXTENDS Downloads, TLAPS

(* What a worker's locals say at each place of its loop: a worker has a    *)
(* job, one that fetches has a file, one that registers has none left, and *)
(* one that was stopped knows what for.                                    *)
Fetching == {"attempt", "copy", "verify", "hash", "rename", "mark"}
Sound(s) ==
  /\ s.pc # "none" <=> s.job # None
  /\ s.pc \in Fetching => s.todo # {}
  /\ s.pc \in {"register", "reread", "catalog"} => s.todo = {}
  /\ s.pc \in {"sweep", "settle"} => s.verdict # "none"

WorkersSound ==
  /\ worker \in [Workers -> WorkerStates]
  /\ \A w \in Workers : Sound(worker[w])

StoreTyped ==
  /\ row \in [Jobs -> RowStates]
  /\ verified \in [Jobs -> SUBSET Files]
  /\ registered \subseteq Jobs
  /\ parts \subseteq Files /\ finals \subseteq Files
  /\ active \in [Jobs -> Workers \cup {None}]
  /\ intent \in [Jobs -> {"none", "paused", "cancelled"}]
  /\ dead \subseteq Workers

CallsTyped ==
  /\ call \in [Clients -> Calls]
  /\ \A c \in Clients : ~CallAt(c, "idle") <=> call[c].job # None

Typed == StoreTyped /\ WorkersSound /\ CallsTyped

(* The types the proofs work with give the type invariant.                 *)
LEMMA TypedIsTypeOK == Typed => TypeOK
  BY DEF Typed, StoreTyped, WorkersSound, CallsTyped, TypeOK, Sound, Live

-----------------------------------------------------------------------------
(* The steps of a worker change no other worker, and keep its own sound.   *)

(* A worker only acts when it lives, on a job, and on a file of its own.   *)
LEMMA WorkerActs ==
  ASSUME WorkersSound, NEW w \in Workers, Live(w)
  PROVE  /\ Job(w) \in Jobs
         /\ worker[w].pc \in Fetching => File(w) \in worker[w].todo /\ File(w) \in Files
<1>1. Job(w) \in Jobs /\ worker[w].todo \subseteq Files
  BY DEF WorkersSound, Sound, WorkerStates, Live, Job
<1>2. worker[w].pc \in Fetching => File(w) \in worker[w].todo
  BY DEF WorkersSound, Sound, File
<1> QED
  BY <1>1, <1>2

(* The worker that acts has the locals t afterwards.                        *)
Becomes(w, t) ==
  /\ worker' = [worker EXCEPT ![w] = t]
  /\ t \in WorkerStates /\ Sound(t)
  /\ t.job = Job(w) /\ t.pc # "none"
Moves(w) == \E t \in WorkerStates : Becomes(w, t)

(* A worker that leaves its loop is sound.                                 *)
LEMMA LeaveMoves ==
  ASSUME WorkersSound, NEW w \in Workers, Live(w),
         NEW l \in {"unwind", "register", "fail", "exit"}, Leave(w, l)
  PROVE  Moves(w)
<1> DEFINE t == Fresh(l, Job(w))
<1>1. worker' = [worker EXCEPT ![w] = t]
  BY DEF Leave
<1>2. t \in WorkerStates /\ t.job = Job(w) /\ t.pc = l /\ t.todo = {}
  BY WorkerActs, AttemptsAssumption DEF Fresh, WorkerStates, WorkerLabels
<1>3. Sound(t)
  BY <1>2, WorkerActs, NoneAssumption DEF Sound, Fetching
<1> QED
  BY <1>1, <1>2, <1>3 DEF Moves, Becomes

(* A worker that goes on with the same locals is sound.                    *)
LEMMA GotoMoves ==
  ASSUME WorkersSound, NEW w \in Workers, Live(w),
         NEW l \in WorkerLabels \ {"none", "sweep"}, Goto(w, l),
         l \in Fetching => worker[w].todo # {},
         l \in {"register", "reread", "catalog"} => worker[w].todo = {},
         l = "settle" => worker[w].verdict # "none"
  PROVE  Moves(w)
<1> DEFINE t == [worker[w] EXCEPT !.pc = l]
<1>1. worker' = [worker EXCEPT ![w] = t]
  BY DEF Goto, WorkersSound
<1>2. /\ t \in WorkerStates /\ t.job = Job(w) /\ t.pc = l
      /\ t.todo = worker[w].todo /\ t.verdict = worker[w].verdict
  BY DEF WorkersSound, WorkerStates, Job
<1>3. Sound(t)
  BY <1>2, WorkerActs, NoneAssumption DEF Sound
<1> QED
  BY <1>1, <1>2, <1>3 DEF Moves, Becomes

(* A failed attempt is counted, or ends the loop.                          *)
LEMMA AttemptMoves ==
  ASSUME WorkersSound, NEW w \in Workers, worker[w].pc \in {"attempt", "copy"},
         AttemptFails(w)
  PROVE  Moves(w)
<1>1. Live(w) /\ worker[w].todo # {}
  BY DEF Live, WorkersSound, Sound, Fetching
<1>2. CASE worker[w].tries + 1 = MaxAttempts
  BY <1>1, <1>2, LeaveMoves DEF AttemptFails
<1>3. CASE worker[w].tries + 1 # MaxAttempts
  <2> DEFINE t == [worker[w] EXCEPT !.pc = "attempt", !.tries = worker[w].tries + 1]
  <2>1. worker' = [worker EXCEPT ![w] = t]
    BY <1>3 DEF AttemptFails, WorkersSound
  <2>2. worker[w].tries + 1 \in 0..(MaxAttempts - 1)
    BY <1>3, AttemptsAssumption DEF WorkersSound, WorkerStates
  <2>3. /\ t \in WorkerStates /\ t.job = Job(w) /\ t.pc = "attempt"
        /\ t.todo = worker[w].todo
    BY <2>2 DEF WorkersSound, WorkerStates, WorkerLabels, Job
  <2>4. Sound(t)
    BY <1>1, <2>3, WorkerActs, NoneAssumption DEF Sound
  <2> QED
    BY <2>1, <2>3, <2>4 DEF Moves, Becomes
<1> QED
  BY <1>2, <1>3

(* Listing the files gives the worker the ones to fetch.                   *)
LEMMA ListFilesMoves ==
  ASSUME WorkersSound, NEW w \in Workers, ListFiles(w)
  PROVE  Moves(w)
<1>1. Live(w)
  BY DEF ListFiles, At, Live
<1>2. CASE w \in dead
  BY <1>1, <1>2, LeaveMoves DEF ListFiles
<1>3. CASE w \notin dead
  <2> DEFINE files == Listed(Job(w)) \ verified[Job(w)]
             t == [worker[w] EXCEPT !.pc = "next", !.todo = files]
  <2>1. worker' = [worker EXCEPT ![w] = t]
    BY <1>3 DEF ListFiles, WorkersSound
  <2>2. files \in SUBSET Files
    BY <1>1, WorkerActs, FilesAssumption DEF Listed
  <2> HIDE DEF files
  <2>3. t \in WorkerStates /\ t.job = Job(w) /\ t.pc = "next"
    BY <2>2 DEF WorkersSound, WorkerStates, WorkerLabels, Job
  <2>4. Sound(t)
    BY <1>1, <2>3, WorkerActs, NoneAssumption DEF Sound, Fetching
  <2> QED
    BY <2>1, <2>3, <2>4 DEF Moves, Becomes
<1> QED
  BY <1>2, <1>3

(* Going to the next file, or out of the loop.                             *)
LEMMA NextFileMoves ==
  ASSUME WorkersSound, NEW w \in Workers, NextFile(w)
  PROVE  Moves(w)
<1>1. Live(w)
  BY DEF NextFile, At, Live
<1>2. CASE Leave(w, "register") \/ Leave(w, "fail")
  BY <1>1, <1>2, LeaveMoves
<1>3. CASE ~(Leave(w, "register") \/ Leave(w, "fail"))
  <2> DEFINE t == [worker[w] EXCEPT !.pc = "attempt", !.tries = 0]
  <2>1. worker' = [worker EXCEPT ![w] = t] /\ worker[w].todo # {}
    BY <1>3 DEF NextFile, WorkersSound
  <2>2. 0 \in 0..(MaxAttempts - 1)
    BY AttemptsAssumption
  <2>3. /\ t \in WorkerStates /\ t.job = Job(w) /\ t.pc = "attempt"
        /\ t.todo = worker[w].todo
    BY <2>2 DEF WorkersSound, WorkerStates, WorkerLabels, Job
  <2>4. Sound(t)
    BY <1>1, <2>1, <2>3, WorkerActs, NoneAssumption DEF Sound
  <2> QED
    BY <2>1, <2>3, <2>4 DEF Moves, Becomes
<1> QED
  BY <1>2, <1>3

(* A verified file is no longer to be fetched.                             *)
LEMMA MarkVerifiedMoves ==
  ASSUME WorkersSound, NEW w \in Workers, MarkVerified(w)
  PROVE  Moves(w)
<1>1. Live(w)
  BY DEF MarkVerified, At, Live
<1> DEFINE t == [worker[w] EXCEPT !.pc = "next", !.todo = worker[w].todo \ {File(w)}]
<1>2. worker' = [worker EXCEPT ![w] = t]
  BY DEF MarkVerified, WorkersSound
<1>3. t \in WorkerStates /\ t.job = Job(w) /\ t.pc = "next"
  BY DEF WorkersSound, WorkerStates, WorkerLabels, Job
<1>4. Sound(t)
  BY <1>1, <1>3, WorkerActs, NoneAssumption DEF Sound, Fetching
<1> QED
  BY <1>2, <1>3, <1>4 DEF Moves, Becomes

(* A stopped worker knows what it was stopped for.                         *)
LEMMA UnwindMoves ==
  ASSUME WorkersSound, NEW w \in Workers, Unwind(w),
         intent \in [Jobs -> {"none", "paused", "cancelled"}]
  PROVE  Moves(w)
<1>1. Live(w)
  BY DEF Unwind, At, Live
<1> DEFINE v == IF intent[Job(w)] = "none" THEN "paused" ELSE intent[Job(w)]
           t == [worker[w] EXCEPT !.pc = "sweep", !.verdict = v]
<1>2. worker' = [worker EXCEPT ![w] = t]
  BY DEF Unwind, WorkersSound
<1>3. v \in {"paused", "cancelled"}
  BY <1>1, WorkerActs
<1> HIDE DEF v
<1>4. /\ t \in WorkerStates /\ t.job = Job(w) /\ t.pc = "sweep"
      /\ t.verdict = v
  BY <1>3 DEF WorkersSound, WorkerStates, WorkerLabels, Job
<1>5. Sound(t)
  BY <1>1, <1>3, <1>4, WorkerActs, NoneAssumption DEF Sound, Fetching
<1> QED
  BY <1>2, <1>4, <1>5 DEF Moves, Becomes

(* Every step of a worker but its last.                                     *)
LEMMA WorkerMoves ==
  ASSUME Typed, NEW w \in Workers, WorkerStep(w)
  PROVE  /\ Live(w)
         /\ Moves(w) \/ (Exit(w) /\ worker' = [worker EXCEPT ![w] = NoWorker])
<1>1. WorkersSound /\ intent \in [Jobs -> {"none", "paused", "cancelled"}]
  BY DEF Typed, StoreTyped
<1>2. Live(w)
  BY DEF Live, WorkerStep, Begin, ListFiles, NextFile, Attempt,
     Copy, Verify, Hash, Rename, MarkVerified, Unwind, Sweep, Settle, Fail, Register,
     RereadFiles, RegisterModel, FinishDone, Exit, At
<1>3. /\ worker[w].pc \in Fetching => worker[w].todo # {}
      /\ worker[w].pc \in {"register", "reread", "catalog"} => worker[w].todo = {}
      /\ worker[w].pc = "sweep" => worker[w].verdict # "none"
  BY <1>1 DEF WorkersSound, Sound
<1> USE <1>1, <1>2, <1>3, LeaveMoves, GotoMoves DEF WorkerLabels, Fetching, At
<1>4. CASE Begin(w)
  BY <1>4 DEF Begin
<1>5. CASE ListFiles(w)
  BY <1>5, ListFilesMoves
<1>6. CASE NextFile(w)
  BY <1>6, NextFileMoves
<1>7. CASE Attempt(w)
  BY <1>7, AttemptMoves DEF Attempt
<1>8. CASE Copy(w)
  BY <1>8, AttemptMoves DEF Copy
<1>9. CASE Verify(w)
  BY <1>9 DEF Verify
<1>10. CASE Hash(w)
  BY <1>10 DEF Hash, HashFails
<1>11. CASE Rename(w)
  BY <1>11 DEF Rename
<1>12. CASE MarkVerified(w)
  BY <1>12, MarkVerifiedMoves
<1>13. CASE Unwind(w)
  BY <1>13, UnwindMoves
<1>14. CASE Settle(w) \/ Fail(w) \/ FinishDone(w)
  BY <1>14 DEF Settle, Fail, FinishDone
<1>15. CASE Register(w) \/ RereadFiles(w) \/ Sweep(w)
  BY <1>15 DEF Register, RereadFiles, Sweep
<1>16. CASE RegisterModel(w)
  BY <1>16 DEF RegisterModel
<1>17. CASE Exit(w)
  BY <1>17 DEF Exit
<1> QED
  BY <1>4, <1>5, <1>6, <1>7, <1>8, <1>9, <1>10, <1>11, <1>12, <1>13, <1>14,
     <1>15, <1>16, <1>17 DEF WorkerStep

(* Every step of a worker keeps all the workers sound.                     *)
LEMMA WorkersSoundStep ==
  ASSUME Typed, NEW w \in Workers, WorkerStep(w)
  PROVE  WorkersSound'
<1>1. WorkersSound
  BY DEF Typed
<1>2. CASE Moves(w)
  BY <1>1, <1>2 DEF Moves, Becomes, WorkersSound
<1>3. CASE worker' = [worker EXCEPT ![w] = NoWorker]
  <2>1. NoWorker \in WorkerStates /\ Sound(NoWorker)
    BY AttemptsAssumption
       DEF NoWorker, Fresh, WorkerStates, WorkerLabels, Sound, Fetching
  <2> QED
    BY <1>1, <1>3, <2>1 DEF WorkersSound
<1> QED
  BY <1>2, <1>3, WorkerMoves

-----------------------------------------------------------------------------
(* Types.                                                                   *)

(* Every step of a worker keeps the types of rows, files and maps.         *)
LEMMA StoreTypedStep ==
  ASSUME Typed, NEW w \in Workers, WorkerStep(w)
  PROVE  StoreTyped'
<1> USE DEF stored, disk, memory, At
<1>1. StoreTyped /\ WorkersSound
  BY DEF Typed
<1>2. Live(w) /\ Job(w) \in Jobs
  BY <1>1, WorkerMoves, WorkerActs
<1>3. worker[w].pc \in Fetching => File(w) \in Files
  BY <1>1, <1>2, WorkerActs
<1>4. worker[w].pc = "settle" => worker[w].verdict \in {"paused", "cancelled"}
  BY <1>1 DEF WorkersSound, Sound, WorkerStates
<1>5. CASE Begin(w) \/ Verify(w) \/ Fail(w) \/ Register(w) \/ FinishDone(w)
  BY <1>1, <1>2, <1>5
     DEF Begin, Verify, Fail, Register, FinishDone, SetRow, StoreTyped, RowStates
<1>6. CASE Settle(w)
  BY <1>1, <1>2, <1>4, <1>6 DEF Settle, SetRow, StoreTyped, RowStates
<1>7. CASE ListFiles(w) \/ NextFile(w) \/ RereadFiles(w)
  BY <1>1, <1>7 DEF ListFiles, NextFile, RereadFiles, StoreTyped
<1>8. CASE Attempt(w) \/ Copy(w)
  BY <1>1, <1>2, <1>3, <1>8 DEF Attempt, Copy, AttemptFails, StoreTyped, Fetching
<1>9. CASE Hash(w)
  BY <1>1, <1>2, <1>9 DEF Hash, HashFails, StoreTyped
<1>10. CASE Rename(w)
  BY <1>1, <1>3, <1>10 DEF Rename, StoreTyped, Fetching
<1>11. CASE MarkVerified(w)
  BY <1>1, <1>2, <1>3, <1>11 DEF MarkVerified, StoreTyped, Fetching
<1>12. CASE Unwind(w) \/ Sweep(w)
  BY <1>1, <1>2, <1>12 DEF Unwind, Sweep, StoreTyped
<1>13. CASE RegisterModel(w)
  BY <1>1, <1>2, <1>13 DEF RegisterModel, StoreTyped
<1>14. CASE Exit(w)
  BY <1>1, <1>2, <1>14 DEF Exit, StoreTyped
<1> QED
  BY <1>5, <1>6, <1>7, <1>8, <1>9, <1>10, <1>11, <1>12, <1>13, <1>14 DEF WorkerStep

(* Every step of an API call keeps the types.                              *)
LEMMA ClientTypes ==
  ASSUME Typed, NEW c \in Clients, ClientStep(c)
  PROVE  Typed'
<1> USE DEF stored, disk, memory, CallAt
<1>1. StoreTyped /\ WorkersSound /\ CallsTyped
  BY DEF Typed
<1>2. ~CallAt(c, "idle") => call[c].job \in Jobs
  BY <1>1 DEF CallsTyped, Calls
<1>3. ASSUME UNCHANGED worker
      PROVE  WorkersSound'
  BY <1>1, <1>3 DEF WorkersSound
<1>4. ASSUME NEW j \in Jobs, NEW k \in DOMAIN Offered \cup {"create"},
             NEW l \in CallLabels \ {"idle"}, Ask(c, k, j, l)
      PROVE  CallsTyped'
  BY <1>1, <1>4, NoneAssumption DEF Ask, CallsTyped, Calls
<1>5. ASSUME ~CallAt(c, "idle"), NEW l \in CallLabels \ {"idle"}, CallTo(c, l)
      PROVE  CallsTyped'
  BY <1>1, <1>2, <1>5 DEF CallTo, CallsTyped, Calls
<1>6. ASSUME Return(c)
      PROVE  CallsTyped'
  BY <1>1, <1>6 DEF Return, NoCall, CallsTyped, Calls, CallLabels
<1> USE <1>1, <1>3 DEF Typed, StoreTyped, RowStates, CallLabels
<1>7. ASSUME NEW j \in Jobs,
             StartJob(c, j) \/ ApproveJob(c, j) \/ Resume(c, j)
               \/ Pause(c, j) \/ Cancel(c, j) \/ Delete(c, j)
      PROVE  Typed'
  BY <1>4, <1>7
     DEF StartJob, CreateJob, ApproveJob, Resume, Pause, Cancel, Delete, SetIntent, Offered
<1>8. CASE QueueJob(c)
  BY <1>2, <1>5, <1>6, <1>8 DEF QueueJob, SetRow
<1>9. CASE StartCheck(c)
  BY <1>5, <1>6, <1>9 DEF StartCheck
<1>10. CASE CancelActive(c)
  BY <1>2, <1>5, <1>6, <1>10 DEF CancelActive
<1>11. CASE TidyParts(c)
  BY <1>5, <1>11 DEF TidyParts
<1>12. CASE MarkCancelled(c)
  BY <1>2, <1>6, <1>12 DEF MarkCancelled, SetRow
<1>13. CASE DropRow(c)
  BY <1>2, <1>6, <1>13 DEF DropRow, SetRow
<1>14. ASSUME NEW w \in Workers, StartGo(c, w)
      PROVE  Typed'
  <2> DEFINE t == Fresh("begin", call[c].job)
  <2>1. t \in WorkerStates /\ Sound(t)
    BY <1>2, <1>14, AttemptsAssumption, NoneAssumption
       DEF StartGo, Fresh, WorkerStates, WorkerLabels, Sound, Fetching
  <2>2. worker' = [worker EXCEPT ![w] = t]
    BY <1>14 DEF StartGo
  <2> HIDE DEF t
  <2>3. WorkersSound'
    BY <2>1, <2>2 DEF WorkersSound
  <2> QED
    BY <2>3, <1>2, <1>6, <1>14 DEF StartGo
<1> QED
  BY <1>7, <1>8, <1>9, <1>10, <1>11, <1>12, <1>13, <1>14 DEF ClientStep

(* Every step of the system keeps the types.                               *)
LEMMA TypesStep ==
  ASSUME Typed, [Next]_vars
  PROVE  Typed'
<1> USE DEF Typed, stored, disk, memory
<1>1. CASE UNCHANGED vars
  BY <1>1 DEF vars, StoreTyped, WorkersSound, CallsTyped, CallAt
<1>2. ASSUME NEW j \in Jobs, ProposeJob(j)
      PROVE  Typed'
  BY <1>2 DEF ProposeJob, CreateJob, StoreTyped, RowStates, WorkersSound, CallsTyped, CallAt
<1>3. ASSUME NEW c \in Clients, ClientStep(c)
      PROVE  Typed'
  BY <1>3, ClientTypes
<1>4. ASSUME NEW w \in Workers, WorkerStep(w)
      PROVE  Typed'
  <2>1. UNCHANGED call
    BY <1>4 DEF WorkerStep, Begin, ListFiles, NextFile, Attempt,
     Copy, Verify, Hash, Rename, MarkVerified, Unwind, Sweep, Settle, Fail, Register,
     RereadFiles, RegisterModel, FinishDone, Exit
  <2> QED
    BY <2>1, <1>4, StoreTypedStep, WorkersSoundStep DEF CallsTyped, CallAt
<1>5. CASE Restart
  <2>1. StoreTyped'
    BY <1>5 DEF Restart, BootReconcile, StoreTyped, RowStates
  <2>2. WorkersSound' /\ CallsTyped'
    BY <1>5, AttemptsAssumption
       DEF Restart, WorkersSound, CallsTyped, CallAt, NoWorker, NoCall, Fresh,
           WorkerStates, WorkerLabels, Sound, Fetching, Calls, CallLabels
  <2> QED
    BY <2>1, <2>2
<1> QED
  BY <1>1, <1>2, <1>3, <1>4, <1>5 DEF Next

-----------------------------------------------------------------------------
(* The frames that the invariants share.                                    *)

(* A step of one worker leaves the others alone.                           *)
LEMMA OthersKept ==
  ASSUME Typed, NEW w \in Workers, WorkerStep(w), NEW v \in Workers, v # w
  PROVE  worker'[v] = worker[v]
BY WorkerMoves DEF Moves, Becomes, Typed, WorkersSound

(* A worker that is alive after a step was alive on the same job before it, *)
(* or has just been started.                                               *)
LEMMA LifeKept ==
  ASSUME Typed, [Next]_vars, NEW v \in Workers
  PROVE  \/ (worker'[v].pc # "none" <=> Live(v)) /\ worker'[v].job = Job(v)
         \/ worker'[v] = NoWorker /\ (Exit(v) \/ Restart)
         \/ \E c \in Clients : StartGo(c, v)
<1> USE DEF stored, disk, memory, Live, Job
<1>1. CASE UNCHANGED worker
  BY <1>1
<1>2. ASSUME NEW w \in Workers, WorkerStep(w)
      PROVE  \/ (worker'[v].pc # "none" <=> Live(v)) /\ worker'[v].job = Job(v)
             \/ worker'[v] = NoWorker /\ Exit(v)
  <2>1. CASE v # w
    BY <1>2, <2>1, OthersKept
  <2>2. CASE v = w
    BY <1>2, <2>2, WorkerMoves DEF Moves, Becomes, Typed, WorkersSound
  <2> QED
    BY <2>1, <2>2
<1>3. ASSUME NEW c \in Clients, ClientStep(c), ~UNCHANGED worker
      PROVE  \E w \in Workers : StartGo(c, w)
  BY <1>3 DEF ClientStep, StartJob, CreateJob, ApproveJob, Resume, Pause, Cancel,
     Delete, QueueJob, StartCheck, CancelActive, TidyParts, MarkCancelled, DropRow
<1>4. ASSUME NEW c \in Clients, NEW w \in Workers, StartGo(c, w), w # v
      PROVE  worker'[v] = worker[v]
  BY <1>4 DEF StartGo, Typed, WorkersSound
<1>5. CASE Restart
  BY <1>5 DEF Restart
<1>6. ASSUME NEW j \in Jobs, ProposeJob(j)
      PROVE  UNCHANGED worker
  BY <1>6 DEF ProposeJob, CreateJob
<1> QED
  BY <1>1, <1>2, <1>3, <1>4, <1>5, <1>6 DEF Next, vars

(* Jobs are never forgotten, and a deleted one does not come back.          *)
LEMMA RowsKept ==
  ASSUME Typed, [Next]_vars, NEW j \in Jobs, row[j] # "absent"
  PROVE  row'[j] # "absent" /\ (row'[j] # "deleted" => Exists(j))
<1> USE DEF stored, disk, memory, Exists
<1>1. row \in [Jobs -> RowStates]
  BY DEF Typed, StoreTyped
<1>2. ASSUME NEW k \in Jobs, NEW s \in RowStates, CreateJob(k, s)
      PROVE  row'[j] = row[j]
  BY <1>1, <1>2 DEF CreateJob
<1>3. ASSUME NEW k \in Jobs, NEW s \in RowStates \ {"absent"}, SetRow(k, s)
      PROVE  row'[j] # "absent" /\ (row'[j] # "deleted" => Exists(j))
  BY <1>1, <1>3 DEF SetRow
<1> USE DEF RowStates
<1>4. ASSUME NEW k \in Jobs, ProposeJob(k)
      PROVE  row'[j] = row[j]
  BY <1>2, <1>4 DEF ProposeJob
<1>5. ASSUME NEW c \in Clients, ClientStep(c)
      PROVE  row'[j] # "absent" /\ (row'[j] # "deleted" => Exists(j))
  <2>1. ~CallAt(c, "idle") => call[c].job \in Jobs
    BY DEF Typed, CallsTyped, CallAt, Calls
  <2> QED
    BY <2>1, <1>1, <1>2, <1>3, <1>5
       DEF ClientStep, StartJob, ApproveJob, Resume, Pause, Cancel, Delete, QueueJob,
           StartCheck, CancelActive, TidyParts, MarkCancelled, DropRow, StartGo, CallAt
<1>6. ASSUME NEW w \in Workers, WorkerStep(w)
      PROVE  row'[j] # "absent" /\ (row'[j] # "deleted" => Exists(j))
  <2>1. /\ Job(w) \in Jobs
        /\ worker[w].pc = "settle" => worker[w].verdict \in RowStates \ {"absent"}
    BY <1>6, WorkerMoves, WorkerActs DEF Typed, WorkersSound, Sound, WorkerStates
  <2> QED
    BY <2>1, <1>1, <1>3, <1>6
       DEF WorkerStep, Begin, ListFiles, NextFile, Attempt, Copy, Verify, Hash,
           Rename, MarkVerified, Unwind, Sweep, Settle, Fail, Register, RereadFiles,
                RegisterModel,
           FinishDone, Exit, At
<1>7. CASE Restart
  BY <1>1, <1>7 DEF Restart, BootReconcile
<1>8. CASE UNCHANGED vars
  BY <1>8 DEF vars
<1> QED
  BY <1>1, <1>4, <1>5, <1>6, <1>7, <1>8 DEF Next

(* What has been downloaded stays on disk, and what has been registered     *)
(* stays in the catalog.                                                   *)
LEMMA OnlyMore ==
  ASSUME [Next]_vars
  PROVE  finals \subseteq finals' /\ registered \subseteq registered'
BY DEF Next, vars, stored, disk, memory, ProposeJob, ClientStep, StartJob, CreateJob,
   ApproveJob, Resume, Pause, Cancel, Delete, QueueJob, StartCheck, CancelActive,
   TidyParts, MarkCancelled, DropRow, StartGo, WorkerStep, Begin, ListFiles, NextFile,
   Attempt, Copy, Verify, Hash, Rename, MarkVerified, Unwind, Sweep, Settle, Fail, Register,
   RereadFiles, RegisterModel, FinishDone, Exit, Restart

-----------------------------------------------------------------------------
(* The entries of Service.active.                                           *)

(* A worker that is stopped is one that lives: it will take the news.       *)
DeadAreLive == \A w \in dead : Live(w)
Entries == EntryIsLive /\ DeadAreLive

(* The entries of the map of workers stay those of live workers.           *)
LEMMA EntriesStep ==
  ASSUME Typed, Entries, [Next]_vars
  PROVE  Entries'
<1> USE DEF stored, disk, memory, Entries, EntryIsLive, DeadAreLive, Live, Job
<1>1. StoreTyped /\ StoreTyped' /\ WorkersSound
  BY TypesStep DEF Typed
<1>2. NoWorker.pc = "none" /\ None \notin Workers
  BY NoneAssumption DEF NoWorker, Fresh
<1>3. ASSUME UNCHANGED <<active, dead>>,
             \A v \in Workers : (worker'[v].pc # "none" <=> Live(v))
                                  /\ worker'[v].job = Job(v)
      PROVE  Entries'
  BY <1>1, <1>3 DEF StoreTyped
<1>4. ASSUME NEW c \in Clients, CancelActive(c)
      PROVE  Entries'
  <2>1. call[c].job \in Jobs
    BY <1>4 DEF CancelActive, CallAt, Typed, CallsTyped, Calls
  <2> QED
    BY <1>1, <1>2, <1>4, <2>1 DEF CancelActive, StoreTyped
<1>5. ASSUME NEW c \in Clients, NEW w \in Workers, StartGo(c, w)
      PROVE  Entries'
  <2>1. call[c].job \in Jobs
    BY <1>5 DEF StartGo, CallAt, Typed, CallsTyped, Calls
  <2>2. /\ worker'[w].pc = "begin" /\ worker'[w].job = call[c].job
        /\ \A v \in Workers \ {w} : worker'[v] = worker[v]
    BY <1>1, <1>5 DEF StartGo, Fresh, WorkersSound
  <2> QED
    BY <1>1, <1>2, <1>5, <2>1, <2>2 DEF StartGo, StoreTyped
<1>6. ASSUME NEW w \in Workers, Exit(w)
      PROVE  Entries'
  <2>1. Job(w) \in Jobs
    BY <1>1, <1>6, WorkerActs DEF Exit, At
  <2>2. \A v \in Workers \ {w} : worker'[v] = worker[v]
    BY <1>1, <1>6 DEF Exit, WorkersSound
  <2> QED
    BY <1>1, <1>2, <1>6, <2>1, <2>2 DEF Exit, StoreTyped
<1>7. CASE Restart
  BY <1>1, <1>7 DEF Restart
<1>8. ASSUME NEW w \in Workers, WorkerStep(w), ~Exit(w)
      PROVE  Entries'
  <2>1. UNCHANGED <<active, dead>>
    BY <1>8 DEF WorkerStep, Begin, ListFiles, NextFile, Attempt, Copy, Verify, Hash,
       Rename, MarkVerified, Unwind, Sweep, Settle, Fail, Register, RereadFiles,
            RegisterModel, FinishDone
  <2>2. worker'[w].pc # "none" /\ Live(w) /\ worker'[w].job = Job(w)
    BY <1>1, <1>8, WorkerMoves DEF Moves, Becomes, WorkersSound
  <2> QED
    BY <1>3, <1>8, <2>1, <2>2, OthersKept
<1>9. ASSUME NEW c \in Clients, ClientStep(c),
             ~CancelActive(c), \A w \in Workers : ~StartGo(c, w)
      PROVE  Entries'
  BY <1>3, <1>9 DEF ClientStep, StartJob, CreateJob, ApproveJob, Resume, Pause,
     Cancel, Delete, QueueJob, StartCheck, TidyParts, MarkCancelled, DropRow
<1>10. ASSUME NEW j \in Jobs, ProposeJob(j)
       PROVE  Entries'
  BY <1>3, <1>10 DEF ProposeJob, CreateJob
<1>11. CASE UNCHANGED vars
  BY <1>3, <1>11 DEF vars
<1> QED
  BY <1>4, <1>5, <1>6, <1>7, <1>8, <1>9, <1>10, <1>11 DEF Next

-----------------------------------------------------------------------------
(* Rows that say "running".                                                 *)

(* A row that says running has a live worker after every step.             *)
LEMMA RunningStep ==
  ASSUME Typed, RunningHasWorker, [Next]_vars
  PROVE  RunningHasWorker'
<1> USE DEF stored, disk, memory, RunningHasWorker, Job, At
<1>1. row \in [Jobs -> RowStates] /\ WorkersSound
  BY DEF Typed, StoreTyped
<1>2. ASSUME \A j \in Jobs : row'[j] = "running" => row[j] = "running",
             UNCHANGED worker
      PROVE  RunningHasWorker'
  BY <1>2
<1>3. ASSUME NEW j \in Jobs, NEW s \in RowStates \ {"running"},
             SetRow(j, s) \/ CreateJob(j, s)
      PROVE  \A k \in Jobs : row'[k] = "running" => row[k] = "running" /\ (k # j \/ ~Exists(j))
  BY <1>1, <1>3 DEF SetRow, CreateJob
<1>4. ASSUME NEW c \in Clients, ClientStep(c), \A w \in Workers : ~StartGo(c, w)
      PROVE  RunningHasWorker'
  <2>1. ~CallAt(c, "idle") => call[c].job \in Jobs
    BY DEF Typed, CallsTyped, CallAt, Calls
  <2> QED
    BY <2>1, <1>2, <1>3, <1>4
       DEF ClientStep, StartJob, CreateJob, ApproveJob, Resume, Pause, Cancel, Delete,
           QueueJob, StartCheck, CancelActive, TidyParts, MarkCancelled, DropRow,
           RowStates, CallAt
<1>5. ASSUME NEW c \in Clients, NEW w \in Workers, StartGo(c, w)
      PROVE  RunningHasWorker'
  <2>1. \A v \in Workers \ {w} : worker'[v] = worker[v]
    BY <1>1, <1>5 DEF StartGo, WorkersSound
  <2> QED
    BY <1>5, <2>1 DEF StartGo, Live
<1>6. ASSUME NEW w \in Workers, WorkerStep(w)
      PROVE  RunningHasWorker'
  <2>1. Job(w) \in Jobs /\ Live(w)
    BY <1>1, <1>6, WorkerMoves, WorkerActs
  <2>2. \A v \in Workers \ {w} : worker'[v] = worker[v]
    BY <1>6, OthersKept
  <2>3. CASE At(w, "exit") \/ (Begin(w) /\ UNCHANGED row)
    <3>1. \A j \in Jobs : row'[j] = row[j]
      BY <1>6, <2>3 DEF WorkerStep, Begin, ListFiles, NextFile, Attempt, Copy, Verify,
         Hash, Rename, MarkVerified, Unwind, Sweep, Settle, Fail, Register, RereadFiles,
              RegisterModel,
         FinishDone, Exit
    <3> QED
      BY <2>2, <2>3, <3>1 DEF Begin
  <2>4. CASE Begin(w) /\ ~UNCHANGED row
    <3>1. worker'[w].pc = "list" /\ worker'[w].job = Job(w) /\ SetRow(Job(w), "running")
      BY <1>1, <1>6, <2>4, WorkerMoves DEF Begin, Goto, WorkersSound, WorkerStates,
           WorkerLabels
    <3>2. \A k \in Jobs : k # Job(w) => row'[k] = row[k]
      BY <1>1, <3>1 DEF SetRow
    <3> QED
      BY <2>1, <2>2, <2>4, <3>1, <3>2 DEF Begin
  <2>5. CASE Settle(w) \/ Fail(w) \/ FinishDone(w)
    <3>1. worker[w].pc = "settle" => worker[w].verdict \in {"paused", "cancelled"}
      BY <1>1 DEF WorkersSound, Sound, WorkerStates
    <3>2. \A k \in Jobs : row'[k] = "running" => row[k] = "running" /\ k # Job(w)
      BY <1>3, <2>1, <2>5, <3>1 DEF Settle, Fail, FinishDone, RowStates, Exists
    <3> QED
      BY <2>2, <3>2
  <2>6. CASE ~At(w, "begin") /\ worker'[w].pc \notin {"none", "begin", "exit"}
                /\ worker'[w].job = Job(w)
                /\ \A j \in Jobs : row'[j] = "running" => row[j] = "running"
    BY <2>2, <2>6
  <2>7. CASE ~(Begin(w) \/ At(w, "exit") \/ Settle(w) \/ Fail(w) \/ FinishDone(w))
    <3>1. ~At(w, "begin") /\ worker'[w].job = Job(w)
      BY <1>1, <1>6, <2>7, WorkerMoves
         DEF WorkerStep, ListFiles, NextFile, Attempt, Copy, Verify, Hash, Rename,
             MarkVerified, Unwind, Sweep, Register, RereadFiles, RegisterModel, Exit,
                  Moves, Becomes, WorkersSound
    <3>2. worker'[w].pc \notin {"none", "begin", "exit"}
      BY <1>1, <1>6, <2>7
         DEF WorkerStep, ListFiles, NextFile, Attempt, AttemptFails, Copy, Verify, Hash,
             HashFails, Rename, MarkVerified, Unwind, Sweep, Register, RereadFiles,
                  RegisterModel, Exit,
             Leave, Goto, Fresh, WorkersSound, WorkerStates
    <3>3. \A j \in Jobs : row'[j] = "running" => row[j] = "running"
      BY <1>3, <1>6, <2>1, <2>7
         DEF WorkerStep, ListFiles, NextFile, Attempt, Copy, Verify, Hash, Rename,
             MarkVerified, Unwind, Sweep, Register, RereadFiles, RegisterModel, Exit,
                  RowStates
    <3> QED
      BY <2>6, <3>1, <3>2, <3>3
  <2> QED
    BY <2>3, <2>4, <2>5, <2>7
<1>7. CASE Restart
  BY <1>1, <1>7 DEF Restart, BootReconcile
<1>8. ASSUME NEW j \in Jobs, ProposeJob(j)
      PROVE  RunningHasWorker'
  BY <1>2, <1>3, <1>8 DEF ProposeJob, CreateJob, RowStates
<1>9. CASE UNCHANGED vars
  BY <1>2, <1>9 DEF vars
<1> QED
  BY <1>4, <1>5, <1>6, <1>7, <1>8, <1>9 DEF Next

-----------------------------------------------------------------------------
(* Rows that claim an activity.                                             *)

(* A worker carries a job out from its first write of the row to its last; *)
(* a job is abandoned when its row claims more than any worker does.       *)
Carried(j) ==
  \E w \in Workers : Job(w) = j /\ worker[w].pc \notin {"none", "begin", "exit"}
Abandoned(j) == row[j] \in Active /\ ~Carried(j)

(* A worker writes no row but its job's.                                   *)
LEMMA OwnRowOnly ==
  ASSUME Typed, NEW w \in Workers, WorkerStep(w), NEW j \in Jobs, j # Job(w)
  PROVE  row'[j] = row[j]
<1>1. row \in [Jobs -> RowStates]
  BY DEF Typed, StoreTyped
<1> QED
  BY <1>1 DEF WorkerStep, Begin, ListFiles, NextFile, Attempt, Copy, Verify, Hash, Rename,
     MarkVerified, Unwind, Sweep, Settle, Fail, Register, RereadFiles, RegisterModel,
     FinishDone, Exit, SetRow, stored

(* The row with which a worker leaves its job claims nothing more.         *)
LEMMA LastRowIsHonest ==
  ASSUME Typed, NEW w \in Workers, Settle(w) \/ Fail(w) \/ FinishDone(w)
  PROVE  row'[Job(w)] \notin Active
<1>1. row \in [Jobs -> RowStates] /\ WorkersSound
  BY DEF Typed, StoreTyped
<1>2. Job(w) \in Jobs
  BY <1>1, WorkerActs DEF Settle, Fail, FinishDone, At, Live
<1>3. worker[w].pc = "settle" => worker[w].verdict \in {"paused", "cancelled"}
  BY <1>1 DEF WorkersSound, Sound, WorkerStates
<1>4. \E s \in {"paused", "cancelled", "failed", "done"} : SetRow(Job(w), s)
  BY <1>3 DEF Settle, Fail, FinishDone, At
<1> QED
  BY <1>1, <1>2, <1>4 DEF SetRow, Exists, Active

(* A worker leaves its job in these steps only.                            *)
LEMMA WorkerCarriesOn ==
  ASSUME Typed, NEW w \in Workers, WorkerStep(w),
         ~At(w, "exit"), ~Begin(w), ~Settle(w), ~Fail(w), ~FinishDone(w)
  PROVE  worker'[w].job = Job(w) /\ worker'[w].pc \notin {"none", "begin", "exit"}
<1>1. WorkersSound
  BY DEF Typed
<1>2. worker'[w].job = Job(w)
  BY <1>1, WorkerMoves DEF Moves, Becomes, WorkersSound, Exit
<1>3. worker'[w].pc \notin {"none", "begin", "exit"}
  BY <1>1
     DEF WorkerStep, ListFiles, NextFile, Attempt, AttemptFails, Copy, Verify, Hash,
         HashFails, Rename, MarkVerified, Unwind, Sweep, Register, RereadFiles,
         RegisterModel, Exit, Leave, Goto, Fresh, WorkersSound, WorkerStates, At
<1> QED
  BY <1>2, <1>3

(* Jobs are abandoned by restarts only.                                    *)
LEMMA AbandonedStep ==
  ASSUME Typed, [Next]_vars, NEW j \in Jobs, Abandoned(j)'
  PROVE  Abandoned(j) \/ (Restart /\ row[j] \in {"verifying", "registering"})
<1> USE DEF stored, disk, memory
<1>1. row \in [Jobs -> RowStates] /\ WorkersSound
  BY DEF Typed, StoreTyped
<1>2. /\ row'[j] \in Active
      /\ \A w \in Workers :
           worker'[w].job # j \/ worker'[w].pc \in {"none", "begin", "exit"}
  BY DEF Abandoned, Carried, Job
<1>3. ASSUME UNCHANGED worker, row[j] \in Active
      PROVE  Abandoned(j)
  BY <1>2, <1>3 DEF Abandoned, Carried, Job
<1>4. ASSUME NEW k \in Jobs, NEW s \in RowStates \ Active, SetRow(k, s) \/ CreateJob(k, s)
      PROVE  row[j] \in Active
  BY <1>1, <1>2, <1>4 DEF SetRow, CreateJob, Active
<1>5. ASSUME NEW c \in Clients, ClientStep(c), \A w \in Workers : ~StartGo(c, w)
      PROVE  Abandoned(j)
  <2>1. ~CallAt(c, "idle") => call[c].job \in Jobs
    BY DEF Typed, CallsTyped, CallAt, Calls
  <2>2. UNCHANGED worker
    BY <1>5 DEF ClientStep, StartJob, CreateJob, ApproveJob, Resume, Pause, Cancel, Delete,
       QueueJob, StartCheck, CancelActive, TidyParts, MarkCancelled, DropRow
  <2>3. row[j] \in Active
    BY <2>1, <1>2, <1>4, <1>5
       DEF ClientStep, StartJob, ApproveJob, Resume, Pause, Cancel, Delete,
           QueueJob, StartCheck, CancelActive, TidyParts, MarkCancelled, DropRow,
           RowStates, Active, CallAt
  <2> QED
    BY <1>3, <2>2, <2>3
<1>6. ASSUME NEW c \in Clients, NEW w \in Workers, StartGo(c, w)
      PROVE  Abandoned(j)
  <2>1. \A v \in Workers \ {w} : worker'[v] = worker[v]
    BY <1>1, <1>6 DEF StartGo, WorkersSound
  <2>2. worker[w].pc = "none" /\ row' = row
    BY <1>6 DEF StartGo, Live
  <2> QED
    BY <1>2, <2>1, <2>2 DEF Abandoned, Carried, Job
<1>7. ASSUME NEW w \in Workers, WorkerStep(w)
      PROVE  Abandoned(j)
  <2>1. \A v \in Workers \ {w} : worker'[v] = worker[v]
    BY <1>7, OthersKept
  <2>2. ASSUME Job(w) # j \/ worker[w].pc \in {"none", "begin", "exit"}, row'[j] = row[j]
        PROVE  Abandoned(j)
    BY <1>2, <2>1, <2>2 DEF Abandoned, Carried, Job
  <2>3. CASE Job(w) # j
    BY <1>7, <2>2, <2>3, OwnRowOnly
  <2>4. CASE Job(w) = j /\ At(w, "exit")
    <3>1. row' = row
      BY <1>7, <2>4 DEF WorkerStep, Begin, ListFiles, NextFile, Attempt, Copy, Verify,
         Hash, Rename, MarkVerified, Unwind, Sweep, Settle, Fail, Register, RereadFiles,
         RegisterModel, FinishDone, Exit, At
    <3> QED
      BY <2>2, <2>4, <3>1 DEF At
  <2>5. CASE Job(w) = j /\ Begin(w)
    <3>1. CASE row' = row
      BY <2>2, <2>5, <3>1 DEF Begin, At
    <3>2. CASE row' # row
      <4>1. worker'[w].pc = "list" /\ worker'[w].job = j
        BY <1>1, <2>5, <3>2 DEF Begin, Goto, Job, WorkersSound, WorkerStates
      <4> QED
        BY <1>2, <4>1
    <3> QED
      BY <3>1, <3>2
  <2>6. CASE Job(w) = j /\ (Settle(w) \/ Fail(w) \/ FinishDone(w))
    BY <1>2, <2>6, LastRowIsHonest
  <2>7. CASE /\ Job(w) = j /\ ~At(w, "exit") /\ ~Begin(w)
             /\ ~Settle(w) /\ ~Fail(w) /\ ~FinishDone(w)
    BY <1>2, <1>7, <2>7, WorkerCarriesOn
  <2> QED
    BY <2>3, <2>4, <2>5, <2>6, <2>7
<1>8. CASE Restart
  BY <1>1, <1>2, <1>8 DEF Restart, BootReconcile, Active
<1>9. ASSUME NEW k \in Jobs, ProposeJob(k)
      PROVE  Abandoned(j)
  <2>1. UNCHANGED worker /\ CreateJob(k, "pending_approval")
    BY <1>9 DEF ProposeJob, CreateJob
  <2> QED
    BY <1>3, <1>4, <2>1 DEF RowStates, Active
<1>10. CASE UNCHANGED vars
  BY <1>2, <1>3, <1>10 DEF vars
<1> QED
  BY <1>5, <1>6, <1>7, <1>8, <1>9, <1>10 DEF Next

-----------------------------------------------------------------------------
(* Rows of files that say "verified".                                       *)

(* A worker marks a file after it has renamed it.                           *)
MarkFollowsRename == \A w \in Workers : At(w, "mark") => File(w) \in finals

(* A file whose row says verified stays in its final place.                *)
LEMMA VerifiedStep ==
  ASSUME Typed, VerifiedIsFinal, MarkFollowsRename, [Next]_vars
  PROVE  VerifiedIsFinal'
<1> USE DEF stored, disk, memory, VerifiedIsFinal
<1>1. verified \in [Jobs -> SUBSET Files] /\ finals \subseteq finals'
  BY OnlyMore DEF Typed, StoreTyped
<1>2. CASE verified' = verified
  BY <1>1, <1>2
<1>3. ASSUME NEW c \in Clients, DropRow(c)
      PROVE  VerifiedIsFinal'
  BY <1>1, <1>3 DEF DropRow
<1>4. ASSUME NEW w \in Workers, MarkVerified(w)
      PROVE  VerifiedIsFinal'
  BY <1>1, <1>4 DEF MarkVerified, MarkFollowsRename
<1>5. ASSUME NEW w \in Workers, Attempt(w) \/ Copy(w) \/ Hash(w)
      PROVE  VerifiedIsFinal'
  BY <1>1, <1>5 DEF Attempt, Copy, Hash, AttemptFails, HashFails
<1>6. ASSUME NEW w \in Workers, WorkerStep(w),
             ~(MarkVerified(w) \/ Attempt(w) \/ Copy(w) \/ Hash(w))
      PROVE  verified' = verified
  BY <1>6 DEF WorkerStep, Begin, ListFiles, NextFile, Verify, Rename, Unwind, Sweep, Settle,
     Fail, Register, RereadFiles, RegisterModel, FinishDone, Exit
<1>7. ASSUME NEW c \in Clients, ClientStep(c), ~DropRow(c)
      PROVE  verified' = verified
  BY <1>7 DEF ClientStep, StartJob, CreateJob, ApproveJob, Resume, Pause, Cancel,
     Delete, QueueJob, StartCheck, CancelActive, TidyParts, MarkCancelled, StartGo
<1>8. CASE Restart \/ (\E j \in Jobs : ProposeJob(j)) \/ UNCHANGED vars
  BY <1>2, <1>8 DEF Restart, ProposeJob, CreateJob, vars
<1> QED
  BY <1>2, <1>3, <1>4, <1>5, <1>6, <1>7, <1>8 DEF Next

(* A file is only marked after its rename.                                 *)
LEMMA MarkStep ==
  ASSUME Typed, MarkFollowsRename, [Next]_vars
  PROVE  MarkFollowsRename'
<1> USE DEF stored, disk, memory, MarkFollowsRename, At, File
<1>1. WorkersSound /\ finals \subseteq finals'
  BY OnlyMore DEF Typed
<1>2. ASSUME NEW w \in Workers, UNCHANGED worker
      PROVE  worker'[w].pc = "mark" => File(w)' \in finals'
  BY <1>1, <1>2
<1>3. ASSUME NEW w \in Workers, WorkerStep(w), NEW v \in Workers, v # w
      PROVE  worker'[v].pc = "mark" => File(v)' \in finals'
  BY <1>1, <1>3, OthersKept
<1>4. ASSUME NEW w \in Workers, Rename(w)
      PROVE  worker'[w].pc = "mark" => File(w)' \in finals'
  <2>1. CASE Goto(w, "mark") /\ finals' = finals \cup {File(w)}
    <3>1. worker'[w].todo = worker[w].todo
      BY <1>1, <1>4, <2>1 DEF Goto, WorkersSound, WorkerStates
    <3> QED
      BY <1>4, <2>1, <3>1 DEF Rename
  <2>2. CASE Leave(w, "fail")
    BY <1>1, <1>4, <2>2 DEF Leave, Fresh, WorkersSound
  <2> QED
    BY <1>4, <2>1, <2>2 DEF Rename
<1>5. ASSUME NEW w \in Workers, WorkerStep(w), ~Rename(w)
      PROVE  worker'[w].pc # "mark"
  BY <1>1, <1>5 DEF WorkerStep, Begin, ListFiles, NextFile, Attempt, AttemptFails, Copy,
     Verify, Hash, HashFails, MarkVerified, Unwind, Sweep, Settle, Fail, Register,
     RereadFiles, RegisterModel, FinishDone, Exit, Leave, Goto, Fresh, NoWorker,
          WorkersSound, WorkerStates
<1>6. ASSUME NEW c \in Clients, NEW w \in Workers, StartGo(c, w)
      PROVE  MarkFollowsRename'
  <2>1. worker'[w].pc = "begin" /\ \A v \in Workers \ {w} : worker'[v] = worker[v]
    BY <1>1, <1>6 DEF StartGo, Fresh, WorkersSound
  <2> QED
    BY <1>1, <2>1
<1>7. ASSUME NEW c \in Clients, ClientStep(c), \A w \in Workers : ~StartGo(c, w)
      PROVE  UNCHANGED worker
  BY <1>7 DEF ClientStep, StartJob, CreateJob, ApproveJob, Resume, Pause, Cancel,
     Delete, QueueJob, StartCheck, CancelActive, TidyParts, MarkCancelled, DropRow
<1>8. CASE Restart
  BY <1>8 DEF Restart, NoWorker, Fresh
<1>9. CASE (\E j \in Jobs : ProposeJob(j)) \/ UNCHANGED vars
  BY <1>2, <1>9 DEF ProposeJob, CreateJob, vars
<1> QED
  BY <1>2, <1>3, <1>4, <1>5, <1>6, <1>7, <1>8, <1>9 DEF Next

-----------------------------------------------------------------------------
(* Jobs that are done.                                                      *)

(* Workers and handlers only know of jobs that were created.                *)
JobsAreKnown ==
  /\ \A w \in Workers : Live(w) => row[Job(w)] # "absent"
  /\ \A c \in Clients : ~CallAt(c, "idle") => row[call[c].job] # "absent"

(* Workers and calls only ever act for jobs that have a row.               *)
LEMMA KnownStep ==
  ASSUME Typed, JobsAreKnown, [Next]_vars
  PROVE  JobsAreKnown'
<1> USE DEF stored, disk, memory, Live, Job, CallAt
<1>1. StoreTyped /\ WorkersSound /\ CallsTyped
  BY DEF Typed
<1>2. ASSUME NEW w \in Workers, worker'[w].pc # "none"
      PROVE  row'[worker'[w].job] # "absent"
  <2>1. CASE Live(w) /\ worker'[w].job = Job(w)
    <3>1. Job(w) \in Jobs /\ row[Job(w)] # "absent"
      BY <1>1, <2>1, WorkerActs DEF JobsAreKnown
    <3> QED
      BY <2>1, <3>1, RowsKept
  <2>2. ASSUME NEW c \in Clients, StartGo(c, w)
        PROVE  row'[worker'[w].job] # "absent"
    BY <1>1, <2>2 DEF StartGo, Fresh, JobsAreKnown, WorkersSound
  <2>3. worker'[w] # NoWorker
    BY <1>2 DEF NoWorker, Fresh
  <2> QED
    BY <1>2, <2>1, <2>2, <2>3, LifeKept
<1>3. ASSUME NEW c \in Clients, call'[c].pc # "idle"
      PROVE  row'[call'[c].job] # "absent"
  <2>1. CASE ~CallAt(c, "idle") /\ call'[c].job = call[c].job
    <3>1. call[c].job \in Jobs /\ row[call[c].job] # "absent"
      BY <1>1, <2>1 DEF CallsTyped, Calls, JobsAreKnown
    <3> QED
      BY <2>1, <3>1, RowsKept
  <2>2. ASSUME NEW j \in Jobs, NEW k, NEW l, Ask(c, k, j, l),
               row[j] # "absent" \/ row'[j] # "absent"
        PROVE  row'[call'[c].job] # "absent"
    BY <1>1, <2>2, RowsKept DEF Ask, CallsTyped
  <2>3. ASSUME NEW d \in Clients, ClientStep(d), d # c
        PROVE  call'[c] = call[c]
    BY <1>1, <2>3 DEF ClientStep, StartJob, ApproveJob, Resume, Pause, Cancel, Delete,
       QueueJob, StartCheck, CancelActive, TidyParts, MarkCancelled, DropRow, StartGo,
       Ask, Return, CallTo, CallsTyped
  <2>4. ASSUME NEW j \in Jobs, StartJob(c, j) \/ ApproveJob(c, j) \/ Resume(c, j)
                                 \/ Pause(c, j) \/ Cancel(c, j) \/ Delete(c, j)
        PROVE  row'[call'[c].job] # "absent"
    <3>1. row[j] # "absent" \/ row'[j] # "absent"
      BY <1>1, <2>4 DEF StartJob, CreateJob, ApproveJob, Resume, Pause, Cancel, Delete,
         MayAsk, Offered, Terminal, Active, RowStates, StoreTyped
    <3> QED
      BY <2>2, <2>4, <3>1 DEF StartJob, ApproveJob, Resume, Pause, Cancel, Delete
  <2>5. ASSUME CallTo(c, "check") \/ CallTo(c, "go") \/ CallTo(c, "tidy") \/ CallTo(c,
       "mark"),
               ~CallAt(c, "idle")
        PROVE  row'[call'[c].job] # "absent"
    BY <1>1, <2>1, <2>5 DEF CallTo, CallsTyped, Calls
  <2>6. ~Return(c)
    BY <1>1, <1>3 DEF Return, NoCall, CallsTyped
  <2>7. ASSUME ClientStep(c)
        PROVE  row'[call'[c].job] # "absent"
    BY <2>4, <2>5, <2>6, <2>7 DEF ClientStep, QueueJob, StartCheck, CancelActive,
       TidyParts, MarkCancelled, DropRow, StartGo
  <2>8. CASE UNCHANGED call
    BY <1>3, <2>1, <2>8
  <2>9. ASSUME NEW w \in Workers, WorkerStep(w)
        PROVE  UNCHANGED call
    BY <2>9 DEF WorkerStep, Begin, ListFiles, NextFile, Attempt, Copy, Verify, Hash,
       Rename, MarkVerified, Unwind, Sweep, Settle, Fail, Register, RereadFiles,
            RegisterModel,
       FinishDone, Exit
  <2>10. ~Restart
    BY <1>3 DEF Restart, NoCall
  <2> QED
    BY <1>3, <2>1, <2>3, <2>7, <2>8, <2>9, <2>10 DEF Next, ProposeJob, vars
<1> QED
  BY <1>2, <1>3 DEF JobsAreKnown

(* The files that a worker no longer has to fetch are on disk: those of     *)
(* earlier runs of the job and those of this one.                          *)
InLoop == Fetching \cup {"next", "register", "reread"}
RestIsOnDisk ==
  \A w \in Workers :
    worker[w].pc \in InLoop /\ Exists(Job(w))
      => FilesOf[Job(w)] \ worker[w].todo \subseteq finals
(* A worker that registers has all files on disk; one that finishes has     *)
(* registered.                                                             *)
RegistersInOrder ==
  \A w \in Workers : /\ At(w, "catalog") => FilesOf[Job(w)] \subseteq finals
                     /\ At(w, "done") => Job(w) \in registered

(* What a step of a worker does to its place in the loop.                   *)
LEMMA LoopStep ==
  ASSUME Typed, NEW w \in Workers, WorkerStep(w), worker'[w].pc \in InLoop
  PROVE  \/ At(w, "list") /\ worker'[w].todo = Listed(Job(w)) \ verified[Job(w)]
         \/ At(w, "mark") /\ worker'[w].todo = worker[w].todo \ {File(w)}
         \/ worker[w].pc \in InLoop /\ worker'[w].todo = worker[w].todo
<1> USE DEF InLoop, Fetching, At
<1>1. WorkersSound
  BY DEF Typed
<1>2. ASSUME NEW l \in WorkerLabels, Goto(w, l)
      PROVE  worker'[w].pc = l /\ worker'[w].todo = worker[w].todo
  BY <1>1, <1>2 DEF Goto, WorkersSound, WorkerStates
<1>3. ASSUME NEW l \in WorkerLabels, Leave(w, l)
      PROVE  worker'[w].pc = l /\ worker'[w].todo = {}
  BY <1>1, <1>3 DEF Leave, Fresh, WorkersSound
<1> USE DEF WorkerLabels
<1>4. CASE AttemptFails(w) /\ worker[w].pc \in InLoop
  <2>1. CASE Leave(w, "fail")
    BY <1>3, <2>1
  <2>2. CASE worker' = [worker EXCEPT ![w].pc = "attempt", ![w].tries = worker[w].tries + 1]
    BY <1>1, <1>4, <2>2 DEF WorkersSound, WorkerStates
  <2> QED
    BY <1>4, <2>1, <2>2 DEF AttemptFails
<1>5. CASE Begin(w) \/ Attempt(w) \/ Copy(w) \/ Verify(w) \/ Hash(w) \/ Rename(w)
             \/ Sweep(w) \/ Settle(w) \/ Fail(w) \/ Register(w) \/ RereadFiles(w)
             \/ RegisterModel(w) \/ FinishDone(w)
  BY <1>2, <1>3, <1>4, <1>5 DEF Begin, Attempt, Copy, Verify, Hash, HashFails, Rename,
     Sweep, Settle, Fail, Register, RereadFiles, RegisterModel, FinishDone
<1>6. CASE ListFiles(w)
  BY <1>1, <1>3, <1>6 DEF ListFiles, WorkersSound, WorkerStates
<1>7. CASE NextFile(w)
  <2>1. CASE worker' = [worker EXCEPT ![w].pc = "attempt", ![w].tries = 0]
    BY <1>1, <1>7, <2>1 DEF NextFile, WorkersSound, WorkerStates
  <2> QED
    BY <1>3, <1>7, <2>1 DEF NextFile
<1>8. CASE MarkVerified(w)
  BY <1>1, <1>8 DEF MarkVerified, WorkersSound, WorkerStates
<1>9. CASE Unwind(w) \/ Exit(w)
  BY <1>1, <1>9 DEF Unwind, Exit, NoWorker, Fresh, WorkersSound, WorkerStates
<1> QED
  BY <1>5, <1>6, <1>7, <1>8, <1>9 DEF WorkerStep

(* What a worker does not fetch any more is on disk.                       *)
LEMMA RestStep ==
  ASSUME Typed, JobsAreKnown, VerifiedIsFinal, MarkFollowsRename, RestIsOnDisk,
         [Next]_vars
  PROVE  RestIsOnDisk'
<1> USE DEF RestIsOnDisk
<1>1. StoreTyped /\ WorkersSound /\ finals \subseteq finals'
  BY OnlyMore DEF Typed
<1> SUFFICES ASSUME NEW w \in Workers, worker'[w].pc \in InLoop, Exists(Job(w))'
             PROVE  FilesOf[Job(w)'] \ worker'[w].todo \subseteq finals'
  BY DEF Job
<1>2. ~(Exit(w) \/ Restart) /\ \A c \in Clients : ~StartGo(c, w)
  BY <1>1 DEF Exit, Restart, StartGo, NoWorker, Fresh, InLoop, Fetching, WorkersSound
<1>3. Live(w) /\ Job(w)' = Job(w)
  BY <1>2, LifeKept DEF Job, InLoop, Fetching
<1>4. Job(w) \in Jobs /\ Exists(Job(w))
  BY <1>1, <1>3, WorkerActs, RowsKept DEF JobsAreKnown, Exists
<1>5. CASE worker'[w] = worker[w]
  BY <1>1, <1>3, <1>4, <1>5
<1>6. CASE WorkerStep(w)
  <2>1. CASE At(w, "list") /\ worker'[w].todo = Listed(Job(w)) \ verified[Job(w)]
    BY <1>1, <1>3, <1>4, <2>1 DEF Listed, VerifiedIsFinal
  <2>2. CASE At(w, "mark") /\ worker'[w].todo = worker[w].todo \ {File(w)}
    BY <1>1, <1>3, <1>4, <2>2 DEF MarkFollowsRename, At, InLoop, Fetching
  <2>3. CASE worker[w].pc \in InLoop /\ worker'[w].todo = worker[w].todo
    BY <1>1, <1>3, <1>4, <2>3
  <2> QED
    BY <1>6, <2>1, <2>2, <2>3, LoopStep
<1>7. CASE ~WorkerStep(w)
  <2>1. ASSUME NEW v \in Workers, WorkerStep(v)
        PROVE  worker'[w] = worker[w]
    BY <1>7, <2>1, OthersKept
  <2>2. ASSUME NEW c \in Clients, ClientStep(c)
        PROVE  worker'[w] = worker[w]
    BY <1>1, <1>2, <2>2 DEF ClientStep, StartJob, CreateJob, ApproveJob, Resume, Pause,
       Cancel, Delete, QueueJob, StartCheck, CancelActive, TidyParts, MarkCancelled,
       DropRow, StartGo, WorkersSound
  <2> QED
    BY <1>2, <1>5, <2>1, <2>2 DEF Next, ProposeJob, CreateJob, vars
<1> QED
  BY <1>6, <1>7

(* A worker registers a model only with all its files in place.            *)
LEMMA CatalogStep ==
  ASSUME Typed, RestIsOnDisk, RegistersInOrder, [Next]_vars
  PROVE  RegistersInOrder'
<1> USE DEF RegistersInOrder, At
<1>1. WorkersSound /\ finals \subseteq finals' /\ registered \subseteq registered'
  BY OnlyMore DEF Typed
<1> DEFINE Goal(w) ==
             /\ worker'[w].pc = "catalog" => FilesOf[Job(w)'] \subseteq finals'
             /\ worker'[w].pc = "done" => Job(w)' \in registered'
<1> SUFFICES ASSUME NEW w \in Workers, worker'[w].pc \in {"catalog", "done"}
             PROVE  Goal(w)
  BY DEF Job
<1>2. ~(Exit(w) \/ Restart) /\ \A c \in Clients : ~StartGo(c, w)
  BY <1>1 DEF Exit, Restart, StartGo, NoWorker, Fresh, WorkersSound
<1>3. Live(w) /\ Job(w)' = Job(w)
  BY <1>2, LifeKept DEF Job
<1>4. CASE worker'[w] = worker[w]
  BY <1>1, <1>3, <1>4
<1>5. CASE WorkerStep(w)
  <2>1. CASE RegisterModel(w)
    BY <1>1, <1>3, <2>1 DEF RegisterModel, Goto, Leave, Fresh, WorkersSound, WorkerStates
  <2>2. CASE RereadFiles(w)
    <3>1. CASE Leave(w, "fail")
      BY <3>1, <1>1 DEF Leave, Fresh, WorkersSound
    <3>2. CASE Exists(Job(w)) /\ Goto(w, "catalog")
      <4>1. worker[w].todo = {} /\ worker'[w].pc = "catalog"
        BY <1>1, <2>2, <3>2 DEF RereadFiles, Goto, WorkersSound, Sound, WorkerStates
      <4>2. FilesOf[Job(w)] \subseteq finals
        BY <2>2, <3>2, <4>1 DEF RereadFiles, RestIsOnDisk, InLoop
      <4> QED
        BY <1>1, <1>3, <4>1, <4>2
    <3> QED
      BY <2>2, <3>1, <3>2 DEF RereadFiles
  <2>3. CASE ~RegisterModel(w) /\ ~RereadFiles(w)
    BY <1>1, <1>5, <2>3 DEF WorkerStep, Begin, ListFiles, NextFile, Attempt, AttemptFails,
       Copy, Verify, Hash, HashFails, Rename, MarkVerified, Unwind, Sweep, Settle, Fail,
       Register, FinishDone, Exit, Leave, Goto, Fresh, NoWorker, WorkersSound, WorkerStates
  <2> QED
    BY <2>1, <2>2, <2>3
<1>6. CASE ~WorkerStep(w)
  <2>1. ASSUME NEW v \in Workers, WorkerStep(v)
        PROVE  worker'[w] = worker[w]
    BY <1>6, <2>1, OthersKept
  <2>2. ASSUME NEW c \in Clients, ClientStep(c)
        PROVE  worker'[w] = worker[w]
    BY <1>1, <1>2, <2>2 DEF ClientStep, StartJob, CreateJob, ApproveJob, Resume, Pause,
       Cancel, Delete, QueueJob, StartCheck, CancelActive, TidyParts, MarkCancelled,
       DropRow, StartGo, WorkersSound
  <2> QED
    BY <1>2, <1>4, <2>1, <2>2 DEF Next, ProposeJob, CreateJob, vars, stored, disk, memory
<1> QED
  BY <1>5, <1>6

(* A job that is done stays usable.                                        *)
LEMMA DoneStep ==
  ASSUME Typed, RegistersInOrder, DoneIsUsable, [Next]_vars
  PROVE  DoneIsUsable'
<1> USE DEF stored, disk, memory, At, Job
<1>1. StoreTyped /\ WorkersSound
  BY DEF Typed
<1>2. finals \subseteq finals' /\ registered \subseteq registered'
  BY OnlyMore
<1>3. ASSUME NEW w \in Workers, FinishDone(w)
      PROVE  \A j \in Jobs : row'[j] = "done" => j \in registered'
  BY <1>1, <1>2, <1>3 DEF FinishDone, SetRow, RegistersInOrder, DoneIsUsable, StoreTyped
<1>4. ASSUME NEW w \in Workers, RegisterModel(w)
      PROVE  \A j \in Jobs : j \in registered' => FilesOf[j] \subseteq finals'
  <2>1. FilesOf[Job(w)] \subseteq finals
    BY <1>4 DEF RegisterModel, RegistersInOrder
  <2> QED
    BY <1>2, <1>4, <2>1 DEF RegisterModel, DoneIsUsable
<1>5. ASSUME \A w \in Workers : ~FinishDone(w)
      PROVE  \A j \in Jobs : row'[j] = "done" => row[j] = "done"
  <2>1. ASSUME NEW j \in Jobs, NEW s \in RowStates \ {"done"},
               SetRow(j, s) \/ CreateJob(j, s)
        PROVE  \A k \in Jobs : row'[k] = "done" => row[k] = "done"
    BY <1>1, <2>1 DEF SetRow, CreateJob, StoreTyped
  <2>2. ASSUME NEW c \in Clients, ClientStep(c)
        PROVE  \A k \in Jobs : row'[k] = "done" => row[k] = "done"
    <3>1. ~CallAt(c, "idle") => call[c].job \in Jobs
      BY DEF Typed, CallsTyped, CallAt, Calls
    <3> QED
      BY <3>1, <2>1, <2>2 DEF ClientStep, StartJob, ApproveJob, Resume, Pause, Cancel,
         Delete, QueueJob, StartCheck, CancelActive, TidyParts, MarkCancelled, DropRow,
         StartGo, RowStates, CallAt
  <2>3. ASSUME NEW w \in Workers, WorkerStep(w)
        PROVE  \A k \in Jobs : row'[k] = "done" => row[k] = "done"
    <3>1. /\ Job(w) \in Jobs
          /\ worker[w].pc = "settle" => worker[w].verdict \in {"paused", "cancelled"}
      BY <1>1, <2>3, WorkerMoves, WorkerActs DEF WorkersSound, Sound, WorkerStates
    <3> QED
      BY <3>1, <1>5, <2>1, <2>3 DEF WorkerStep, Begin, ListFiles, NextFile, Attempt, Copy,
         Verify, Hash, Rename, MarkVerified, Unwind, Sweep, Settle, Fail, Register,
         RereadFiles, RegisterModel, Exit, RowStates
  <2>4. CASE Restart \/ UNCHANGED vars
    BY <1>1, <2>4 DEF Restart, BootReconcile, vars, StoreTyped
  <2>5. ASSUME NEW j \in Jobs, ProposeJob(j)
        PROVE  \A k \in Jobs : row'[k] = "done" => row[k] = "done"
    BY <2>1, <2>5 DEF ProposeJob, RowStates
  <2> QED
    BY <2>2, <2>3, <2>4, <2>5 DEF Next
<1>6. ASSUME \A w \in Workers : ~RegisterModel(w)
      PROVE  registered' = registered
  BY <1>6 DEF Next, vars, ProposeJob, ClientStep, StartJob, CreateJob, ApproveJob,
     Resume, Pause, Cancel, Delete, QueueJob, StartCheck, CancelActive, TidyParts,
     MarkCancelled, DropRow, StartGo, WorkerStep, Begin, ListFiles, NextFile, Attempt,
     Copy, Verify, Hash, Rename, MarkVerified, Unwind, Sweep, Settle, Fail, Register,
          RereadFiles,
     FinishDone, Exit, Restart
<1> QED
  BY <1>2, <1>3, <1>4, <1>5, <1>6 DEF DoneIsUsable

-----------------------------------------------------------------------------
(* The inductive invariant, and what follows from it.                       *)

DownloadsInv ==
  /\ Typed /\ JobsAreKnown
  /\ Entries
  /\ RunningHasWorker
  /\ VerifiedIsFinal /\ MarkFollowsRename
  /\ DoneIsUsable /\ RestIsOnDisk /\ RegistersInOrder

(* The inductive invariant holds at first.                                 *)
LEMMA InitSatisfiesInv == Init => DownloadsInv
<1> SUFFICES ASSUME Init PROVE DownloadsInv
  OBVIOUS
<1> USE DEF Init
<1>1. NoWorker \in WorkerStates /\ Sound(NoWorker) /\ NoWorker.pc = "none"
  BY AttemptsAssumption DEF NoWorker, Fresh, WorkerStates, WorkerLabels, Sound, Fetching
<1>2. \A w \in Workers : worker[w] = NoWorker
  OBVIOUS
<1>3. Typed
  <2>1. WorkersSound
    BY <1>1, <1>2 DEF WorkersSound
  <2> QED
    BY <2>1 DEF Typed, StoreTyped, RowStates, CallsTyped, CallAt, NoCall, Calls, CallLabels
<1>4. JobsAreKnown
  BY <1>1, <1>2 DEF JobsAreKnown, Live, CallAt, NoCall
<1>5. Entries /\ RunningHasWorker /\ VerifiedIsFinal /\ DoneIsUsable
  BY DEF Entries, EntryIsLive, DeadAreLive, RunningHasWorker, VerifiedIsFinal, DoneIsUsable
<1>6. MarkFollowsRename /\ RestIsOnDisk /\ RegistersInOrder
  BY <1>1, <1>2 DEF MarkFollowsRename, RestIsOnDisk, RegistersInOrder, At, InLoop, Fetching
<1> QED
  BY <1>3, <1>4, <1>5, <1>6 DEF DownloadsInv

(* The inductive invariant holds throughout.                               *)
LEMMA InvIsInvariant == Spec => []DownloadsInv
<1>1. Init => DownloadsInv
  BY InitSatisfiesInv
<1>2. DownloadsInv /\ [Next]_vars => DownloadsInv'
  BY TypesStep, KnownStep, EntriesStep, RunningStep, VerifiedStep, MarkStep, DoneStep,
     RestStep, CatalogStep DEF DownloadsInv
<1> QED
  BY <1>1, <1>2, PTL DEF Spec

(* The rows, the files, the service's maps and the goroutines keep their    *)
(* types.                                                                  *)
THEOREM DownloadsTypeCorrect == Spec => []TypeOK
<1>1. DownloadsInv => TypeOK
  BY TypedIsTypeOK DEF DownloadsInv
<1> QED
  BY <1>1, InvIsInvariant, PTL

(* However pauses, resumes and cancels overlap, Service.active never names  *)
(* a worker that has ended or has been stopped.                            *)
THEOREM EntriesAreLive == Spec => []EntryIsLive
<1>1. DownloadsInv => EntryIsLive
  BY DEF DownloadsInv, Entries
<1> QED
  BY <1>1, InvIsInvariant, PTL

(* No row is stuck at "running" without a worker that will yet settle it.   *)
THEOREM RunningIsHonest == Spec => []RunningHasWorker
<1>1. DownloadsInv => RunningHasWorker
  BY DEF DownloadsInv
<1> QED
  BY <1>1, InvIsInvariant, PTL

(* A file that a resumed job skips is on disk, whenever the daemon died.    *)
THEOREM VerifiedSurvives == Spec => []VerifiedIsFinal
<1>1. DownloadsInv => VerifiedIsFinal
  BY DEF DownloadsInv
<1> QED
  BY <1>1, InvIsInvariant, PTL

(* A job that is done can be loaded: it is in the catalog, and all of its   *)
(* files are on disk.                                                      *)
THEOREM DoneJobsAreUsable == Spec => []DoneIsUsable
<1>1. DownloadsInv => DoneIsUsable
  BY DEF DownloadsInv
<1> QED
  BY <1>1, InvIsInvariant, PTL

(* Every path of runWorker and registerAndFinish, and every handler, leaves *)
(* a row that tells the truth: a row that claims an activity nobody carries *)
(* out is left by a restart that finds it verifying or registering, which   *)
(* BootReconcile passes over.                                              *)
THEOREM OnlyRestartsAbandon ==
  Spec => [][\A j \in Jobs : Abandoned(j)' =>
               Abandoned(j) \/ (Restart /\ row[j] \in {"verifying", "registering"})]_vars
<1>1. DownloadsInv /\ [Next]_vars =>
        [\A j \in Jobs : Abandoned(j)' =>
           Abandoned(j) \/ (Restart /\ row[j] \in {"verifying", "registering"})]_vars
  BY AbandonedStep DEF DownloadsInv
<1> QED
  BY <1>1, InvIsInvariant, PTL DEF Spec

(* Without a restart no job is abandoned.                                  *)
THEOREM ActivityIsHonest == ASSUME ~CanCrash PROVE Spec => []ActiveHasWorker
<1>1. Init => \A j \in Jobs : ~Abandoned(j)
  BY DEF Init, Abandoned, Active
<1>2. DownloadsInv /\ (\A j \in Jobs : ~Abandoned(j)) /\ [Next]_vars
        => (\A j \in Jobs : ~Abandoned(j))'
  BY AbandonedStep DEF DownloadsInv, Restart
<1>3. (\A j \in Jobs : ~Abandoned(j)) => ActiveHasWorker
  BY DEF Abandoned, Carried, ActiveHasWorker
<1> QED
  BY <1>1, <1>2, <1>3, InvIsInvariant, PTL DEF Spec

-----------------------------------------------------------------------------
(* Why a worker ends.                                                      *)

(* The parts of a worker's life in their order; the loop over the files is *)
(* one of them.                                                            *)
Phase == [begin |-> 0, list |-> 1,
          next |-> 2, attempt |-> 2, copy |-> 2, verify |-> 2, hash |-> 2,
          rename |-> 2, mark |-> 2,
          register |-> 3, unwind |-> 3, reread |-> 4, sweep |-> 4,
          catalog |-> 5, settle |-> 5, done |-> 6, fail |-> 6, exit |-> 7, none |-> 8]
(* The places of the loop after "next", in their order.                    *)
Place == [attempt |-> 1, copy |-> 2, verify |-> 3, hash |-> 4, rename |-> 5, mark |-> 6]
(* A round of the loop ends with a file less to fetch; within a round the  *)
(* attempts are counted.  With finitely many files, at most MaxAttempts    *)
(* attempts and finitely many phases there is no endless descent.          *)
SameRound(s, t) ==
  \/ s.pc = "next" /\ t.pc \in Fetching
  \/ /\ s.pc \in Fetching /\ t.pc \in Fetching
     /\ s.tries < t.tries \/ (s.tries = t.tries /\ Place[s.pc] < Place[t.pc])
Closer(s, t) ==
  \/ Phase[s.pc] < Phase[t.pc]
  \/ /\ {s.pc, t.pc} \subseteq Fetching \cup {"next"}
     /\ \/ t.todo \subseteq s.todo /\ t.todo # s.todo
        \/ t.todo = s.todo /\ SameRound(s, t)

(* A worker that leaves its loop, or goes on elsewhere, has the new place. *)
LEMMA NewPlace ==
  ASSUME WorkersSound, NEW w \in Workers, NEW l, Leave(w, l) \/ Goto(w, l)
  PROVE  worker'[w].pc = l
  BY DEF WorkersSound, WorkerStates, Leave, Goto, Fresh

(* A worker that goes on keeps what it is to fetch and its attempts.       *)
LEMMA GoesOn ==
  ASSUME WorkersSound, NEW w \in Workers, NEW l, Goto(w, l)
  PROVE  worker'[w].todo = worker[w].todo /\ worker'[w].tries = worker[w].tries
  BY DEF WorkersSound, WorkerStates, Goto

(* A failed attempt brings its worker closer to its end.                   *)
LEMMA AttemptAdvances ==
  ASSUME WorkersSound, NEW w \in Workers, worker[w].pc \in {"attempt", "copy"},
         AttemptFails(w)
  PROVE  Closer(worker[w], worker'[w])
<1>1. CASE worker[w].tries + 1 = MaxAttempts
  <2>1. worker'[w].pc = "fail"
    BY <1>1, NewPlace DEF AttemptFails
  <2> QED
    BY <2>1 DEF Closer, Phase
<1>2. CASE worker[w].tries + 1 # MaxAttempts
  <2>1. /\ worker'[w].pc = "attempt" /\ worker'[w].todo = worker[w].todo
        /\ worker'[w].tries = worker[w].tries + 1
    BY <1>2 DEF AttemptFails, WorkersSound, WorkerStates
  <2>2. worker[w].tries < worker'[w].tries
    BY <2>1, AttemptsAssumption DEF WorkersSound, WorkerStates
  <2> QED
    BY <2>1, <2>2 DEF Closer, SameRound, Fetching
<1> QED
  BY <1>1, <1>2

(* Every step of a worker brings it closer to its end.                     *)
LEMMA WorkerAdvances ==
  ASSUME Typed, NEW w \in Workers, WorkerStep(w)
  PROVE  Closer(worker[w], worker'[w])
<1>1. WorkersSound
  BY DEF Typed
<1> USE <1>1, NewPlace, GoesOn DEF At
<1>2. CASE Begin(w)
  <2>1. worker[w].pc = "begin" /\ worker'[w].pc \in {"exit", "list"}
    BY <1>2 DEF Begin
  <2> QED
    BY ONLY <2>1 DEF Closer, Phase
<1>3. CASE ListFiles(w)
  <2>1. worker[w].pc = "list" /\ worker'[w].pc \in {"fail", "next"}
    BY <1>3 DEF ListFiles, WorkersSound, WorkerStates
  <2> QED
    BY ONLY <2>1 DEF Closer, Phase
<1>4. CASE NextFile(w)
  <2>1. worker[w].pc = "next"
    BY <1>4 DEF NextFile
  <2>2. \/ worker'[w].pc \in {"register", "fail"}
        \/ worker'[w].pc = "attempt" /\ worker'[w].todo = worker[w].todo
    BY <1>4 DEF NextFile, WorkersSound, WorkerStates
  <2> QED
    BY ONLY <2>1, <2>2 DEF Closer, SameRound, Phase, Fetching
<1>5. CASE (Attempt(w) \/ Copy(w)) /\ AttemptFails(w)
  BY <1>5, AttemptAdvances DEF Attempt, Copy
<1>6. CASE (Attempt(w) \/ Copy(w)) /\ ~AttemptFails(w)
  <2>1. \/ worker[w].pc = "attempt" /\ Goto(w, "copy")
        \/ worker[w].pc = "copy" /\ Goto(w, "verify")
        \/ worker[w].pc \in {"attempt", "copy"} /\ worker'[w].pc = "unwind"
    BY <1>6 DEF Attempt, Copy
  <2>2. \/ worker[w].pc \in {"attempt", "copy"} /\ worker'[w].pc = "unwind"
        \/ /\ \/ worker[w].pc = "attempt" /\ worker'[w].pc = "copy"
              \/ worker[w].pc = "copy" /\ worker'[w].pc = "verify"
           /\ worker'[w].todo = worker[w].todo /\ worker'[w].tries = worker[w].tries
    BY <2>1
  <2> QED
    BY ONLY <2>2 DEF Closer, SameRound, Phase, Place, Fetching
<1>7. CASE Verify(w) \/ Hash(w) \/ Rename(w)
  <2>1. \/ worker[w].pc \in {"hash", "rename"} /\ worker'[w].pc = "fail"
        \/ /\ \/ worker[w].pc = "verify" /\ worker'[w].pc = "hash"
              \/ worker[w].pc = "hash" /\ worker'[w].pc = "rename"
              \/ worker[w].pc = "rename" /\ worker'[w].pc = "mark"
           /\ worker'[w].todo = worker[w].todo /\ worker'[w].tries = worker[w].tries
    BY <1>7 DEF Verify, Hash, HashFails, Rename
  <2> QED
    BY ONLY <2>1 DEF Closer, SameRound, Phase, Place, Fetching
<1>8. CASE MarkVerified(w)
  <2>1. worker[w].pc = "mark" /\ File(w) \in worker[w].todo
    BY <1>8 DEF MarkVerified, WorkersSound, Sound, Fetching, File
  <2>2. worker'[w].pc = "next" /\ worker'[w].todo = worker[w].todo \ {File(w)}
    BY <1>8 DEF MarkVerified, WorkersSound, WorkerStates
  <2> HIDE DEF File
  <2> QED
    BY <2>1, <2>2 DEF Closer, Fetching
<1>9. CASE Unwind(w) \/ Sweep(w) \/ Settle(w)
  <2>1. \/ worker[w].pc = "unwind" /\ worker'[w].pc = "sweep"
        \/ worker[w].pc = "sweep" /\ worker'[w].pc = "settle"
        \/ worker[w].pc = "settle" /\ worker'[w].pc = "exit"
    BY <1>9 DEF Unwind, Sweep, Settle, WorkersSound, WorkerStates
  <2> QED
    BY ONLY <2>1 DEF Closer, Phase
<1>10. CASE Register(w) \/ RereadFiles(w) \/ RegisterModel(w)
  <2>1. \/ worker[w].pc = "register" /\ worker'[w].pc = "reread"
        \/ worker[w].pc = "reread" /\ worker'[w].pc \in {"catalog", "fail"}
        \/ worker[w].pc = "catalog" /\ worker'[w].pc \in {"done", "fail"}
    BY <1>10 DEF Register, RereadFiles, RegisterModel
  <2> QED
    BY ONLY <2>1 DEF Closer, Phase
<1>11. CASE Fail(w) \/ FinishDone(w)
  <2>1. worker[w].pc \in {"fail", "done"} /\ worker'[w].pc = "exit"
    BY <1>11 DEF Fail, FinishDone
  <2> QED
    BY ONLY <2>1 DEF Closer, Phase
<1>12. CASE Exit(w)
  <2>1. worker[w].pc = "exit" /\ worker'[w].pc = "none"
    BY <1>12 DEF Exit, WorkersSound, NoWorker, Fresh
  <2> QED
    BY ONLY <2>1 DEF Closer, Phase
<1> QED
  BY <1>2, <1>3, <1>4, <1>5, <1>6, <1>7, <1>8, <1>9, <1>10, <1>11, <1>12 DEF WorkerStep

(* Nobody but the worker itself, a new goroutine that takes its name when  *)
(* it has ended, and a restart changes what it is about.                   *)
LEMMA LivesAdvance ==
  ASSUME Typed, Next, NEW w \in Workers, Live(w), worker'[w] # worker[w]
  PROVE  Closer(worker[w], worker'[w])
<1>1. WorkersSound
  BY DEF Typed
<1>2. CASE \E j \in Jobs : ProposeJob(j)
  BY <1>2 DEF ProposeJob, CreateJob
<1>3. CASE \E c \in Clients : ClientStep(c)
  <2>1. \/ UNCHANGED worker
        \/ \E c \in Clients, v \in Workers : StartGo(c, v)
    BY <1>3 DEF ClientStep, StartJob, CreateJob, ApproveJob, Resume, Pause, Cancel,
       Delete, QueueJob, StartCheck, CancelActive, TidyParts, MarkCancelled, DropRow
  <2> QED
    BY <1>1, <2>1 DEF StartGo, WorkersSound
<1>4. CASE \E v \in Workers : WorkerStep(v)
  <2>1. PICK v \in Workers : WorkerStep(v)
    BY <1>4
  <2>2. \E t : worker' = [worker EXCEPT ![v] = t]
    BY <2>1, WorkerMoves DEF Moves, Becomes
  <2>3. v = w
    BY <1>1, <2>2 DEF WorkersSound
  <2> QED
    BY <2>1, <2>3, WorkerAdvances
<1>5. CASE Restart
  <2>1. worker'[w].pc = "none" /\ worker[w].pc \in WorkerLabels \ {"none"}
    BY <1>1, <1>5 DEF Restart, NoWorker, Fresh, WorkersSound, WorkerStates, Live
  <2> QED
    BY ONLY <2>1 DEF Closer, Phase, WorkerLabels
<1> QED
  BY <1>2, <1>3, <1>4, <1>5 DEF Next

(* Whatever fails, is retried, paused, cancelled or restarted, no worker   *)
(* goes in circles: each of its steps, and whatever else happens to it,    *)
(* brings it closer to its end.  With the fairness of the goroutines this  *)
(* is why WorkersEnd holds.                                                *)
THEOREM WorkersAdvance ==
  Spec => [][\A w \in Workers :
               WorkerStep(w) \/ (Live(w) /\ worker'[w] # worker[w])
                 => Closer(worker[w], worker'[w])]_vars
<1>1. DownloadsInv /\ [Next]_vars =>
        [\A w \in Workers :
           WorkerStep(w) \/ (Live(w) /\ worker'[w] # worker[w])
             => Closer(worker[w], worker'[w])]_vars
  BY WorkerAdvances, LivesAdvance DEF DownloadsInv
<1> QED
  BY <1>1, InvIsInvariant, PTL DEF Spec
=============================================================================
