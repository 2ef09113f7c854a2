------------------------------ MODULE Downloads ------------------------------
(***************************************************************************)
(* The model downloads of go/internal/hfdownload: jobs kept in the store,  *)
(* at most one worker goroutine per job as the service intends, and HTTP   *)
(* handlers that create, approve, pause, resume, cancel and delete jobs    *)
(* while workers fetch, verify and register their files.                   *)
(*                                                                         *)
(* An action is one statement on the store, one access to Service.active   *)
(* or Service.intent, or one operation on the files.  A partial file is    *)
(* there or not: how many bytes it holds is left out, so an attempt may    *)
(* always fail.  Store statements that fail for reasons of their own are   *)
(* not modelled.                                                           *)
(***************************************************************************)
EXTENDS Naturals, FiniteSets

CONSTANTS
  Jobs,
  Files,        \* destination paths under the models directory
  FilesOf,      \* the files of each job; two jobs may share a destination
  Clients,      \* concurrent HTTP handlers
  Workers,      \* names for worker goroutines: how many may be alive at once
  None,
  MaxAttempts,  \* maxAttemptsPerFile
  Tray,         \* whether clients only use the buttons the dashboard offers
  CanCrash      \* whether the daemon may be restarted

ASSUME FilesAssumption == FilesOf \in [Jobs -> (SUBSET Files) \ {{}}]
ASSUME NoneAssumption == None \notin Workers /\ None \notin Jobs
ASSUME AttemptsAssumption == MaxAttempts \in Nat \ {0}
ASSUME DownloadFlags == {Tray, CanCrash} \subseteq BOOLEAN

VARIABLES
  row,         \* model_downloads.state of each job
  verified,    \* the files of each job whose row says "verified"
  registered,  \* the jobs with catalog rows
  parts,       \* the partial files on disk
  finals,      \* the finished files on disk
  active,      \* Service.active: the worker whose cancel function is known
  intent,      \* Service.intent
  worker,      \* the worker goroutines
  dead,        \* the workers whose context is cancelled
  call         \* the handlers

stored == <<row, verified, registered>>
disk   == <<parts, finals>>
memory == <<active, intent>>
vars == <<row, verified, registered, parts, finals, active, intent,
          worker, dead, call>>

-----------------------------------------------------------------------------
RowStates == {"absent", "pending_approval", "queued", "running", "paused",
              "verifying", "registering", "done", "failed", "cancelled",
              "deleted"}
Active == {"running", "verifying", "registering"}
Terminal == {"done", "failed", "cancelled"}

(* The states in which the dashboard shows the button of a request.        *)
Offered == [approve |-> {"pending_approval"},
            pause   |-> Active,
            resume  |-> {"paused"},
            cancel  |-> RowStates \ (Terminal \cup {"absent", "deleted"}),
            delete  |-> Terminal]
MayAsk(kind, j) ==
  row[j] \in IF Tray THEN Offered[kind] ELSE RowStates \ {"absent"}

WorkerLabels == {"none", "begin", "list", "next", "attempt", "copy", "verify",
                 "hash", "rename", "mark", "unwind", "sweep", "settle",
                 "register", "reread", "catalog", "done", "fail", "exit"}
WorkerStates == [pc: WorkerLabels, job: Jobs \cup {None}, todo: SUBSET Files,
                 tries: 0..(MaxAttempts - 1), verdict: {"none", "paused", "cancelled"}]
Fresh(label, j) == [pc |-> label, job |-> j, todo |-> {}, tries |-> 0,
                    verdict |-> "none"]
NoWorker == Fresh("none", None)
Live(w) == worker[w].pc # "none"

CallLabels == {"idle", "queue", "check", "go", "stop", "tidy", "mark", "drop"}
Calls == [pc: CallLabels, job: Jobs \cup {None},
          kind: DOMAIN Offered \cup {"create", "none"}]
NoCall == [pc |-> "idle", job |-> None, kind |-> "none"]

Exists(j) == row[j] \notin {"absent", "deleted"}
(* ListFiles: the rows of the files go with the row of the job.            *)
Listed(j) == IF Exists(j) THEN FilesOf[j] ELSE {}
(* UpdateState of a row that is no longer there changes nothing.           *)
SetRow(j, s) == row' = IF Exists(j) THEN [row EXCEPT ![j] = s] ELSE row

Init ==
  /\ row = [j \in Jobs |-> "absent"]
  /\ verified = [j \in Jobs |-> {}]
  /\ registered = {}
  /\ parts = {} /\ finals = {}
  /\ active = [j \in Jobs |-> None]
  /\ intent = [j \in Jobs |-> "none"]
  /\ worker = [w \in Workers |-> NoWorker]
  /\ dead = {}
  /\ call = [c \in Clients |-> NoCall]

-----------------------------------------------------------------------------
(* The handlers.                                                           *)

CallAt(c, label) == call[c].pc = label
CallTo(c, label) == call' = [call EXCEPT ![c].pc = label]
Return(c) == call' = [call EXCEPT ![c] = NoCall]
Ask(c, kind, j, label) ==
  /\ CallAt(c, "idle")
  /\ call' = [call EXCEPT ![c] = [pc |-> label, job |-> j, kind |-> kind]]

(* createJob, whose preflight refuses a destination that is there already. *)
CreateJob(j, s) ==
  /\ row[j] = "absent" /\ FilesOf[j] \cap finals = {}
  /\ row' = [row EXCEPT ![j] = s]
  /\ UNCHANGED <<verified, registered, disk, memory, worker, dead>>

ProposeJob(j) == CreateJob(j, "pending_approval") /\ UNCHANGED call
StartJob(c, j) == CreateJob(j, "queued") /\ Ask(c, "create", j, "check")

(* ApproveJob: the row is read first and written in a second statement.    *)
ApproveJob(c, j) ==
  /\ Ask(c, "approve", j, "queue")
  /\ MayAsk("approve", j) /\ row[j] = "pending_approval"
  /\ UNCHANGED <<stored, disk, memory, worker, dead>>

QueueJob(c) ==
  /\ CallAt(c, "queue")
  /\ SetRow(call[c].job, "queued")
  /\ IF Exists(call[c].job) THEN CallTo(c, "check") ELSE Return(c)
  /\ UNCHANGED <<verified, registered, disk, memory, worker, dead>>

Resume(c, j) ==
  /\ Ask(c, "resume", j, "check")
  /\ MayAsk("resume", j)
  /\ UNCHANGED <<stored, disk, memory, worker, dead>>

(* Start: isRunning, and then setActive and the new goroutine.             *)
StartCheck(c) ==
  /\ CallAt(c, "check")
  /\ IF active[call[c].job] = None THEN CallTo(c, "go") ELSE Return(c)
  /\ UNCHANGED <<stored, disk, memory, worker, dead>>

StartGo(c, w) ==
  /\ CallAt(c, "go")
  /\ ~Live(w)
  /\ active' = [active EXCEPT ![call[c].job] = w]
  /\ worker' = [worker EXCEPT ![w] = Fresh("begin", call[c].job)]
  /\ Return(c)
  /\ UNCHANGED <<stored, disk, intent, dead>>

(* Pause and Cancel first leave their intent.                              *)
SetIntent(j, v) == intent' = [intent EXCEPT ![j] = v]

Pause(c, j) ==
  /\ Ask(c, "pause", j, "stop")
  /\ MayAsk("pause", j)
  /\ SetIntent(j, "paused")
  /\ UNCHANGED <<stored, disk, active, worker, dead>>

Cancel(c, j) ==
  /\ Ask(c, "cancel", j, "stop")
  /\ MayAsk("cancel", j)
  /\ SetIntent(j, "cancelled")
  /\ UNCHANGED <<stored, disk, active, worker, dead>>

(* cancelActive: the entry goes at once, the worker when it notices.       *)
CancelActive(c) ==
  LET j == call[c].job IN
  /\ CallAt(c, "stop")
  /\ IF active[j] # None
       THEN /\ dead' = dead \cup {active[j]}
            /\ active' = [active EXCEPT ![j] = None]
            /\ Return(c)
       ELSE /\ UNCHANGED <<dead, active>>
            /\ IF call[c].kind = "cancel" THEN CallTo(c, "tidy") ELSE Return(c)
  /\ UNCHANGED <<stored, disk, intent, worker>>

(* Cancel of a job without an entry.                                       *)
TidyParts(c) ==
  /\ CallAt(c, "tidy")
  /\ parts' = parts \ Listed(call[c].job)
  /\ CallTo(c, "mark")
  /\ UNCHANGED <<stored, finals, memory, worker, dead>>

MarkCancelled(c) ==
  /\ CallAt(c, "mark")
  /\ SetRow(call[c].job, "cancelled")
  /\ Return(c)
  /\ UNCHANGED <<verified, registered, disk, memory, worker, dead>>

(* Delete refuses a job that has an entry.                                 *)
Delete(c, j) ==
  /\ Ask(c, "delete", j, "drop")
  /\ MayAsk("delete", j)
  /\ active[j] = None
  /\ UNCHANGED <<stored, disk, memory, worker, dead>>

DropRow(c) ==
  /\ CallAt(c, "drop")
  /\ SetRow(call[c].job, "deleted")
  /\ verified' = [verified EXCEPT ![call[c].job] = {}]
  /\ Return(c)
  /\ UNCHANGED <<registered, disk, memory, worker, dead>>

-----------------------------------------------------------------------------
(* runWorker.                                                              *)

At(w, label) == worker[w].pc = label
Goto(w, label) == worker' = [worker EXCEPT ![w].pc = label]
Job(w) == worker[w].job
(* The locals of the loop over the files are gone.                         *)
Leave(w, label) ==
  worker' = [worker EXCEPT ![w] = Fresh(label, Job(w))]
(* Files are taken in the order of their rows.                             *)
File(w) == CHOOSE f \in worker[w].todo : TRUE

(* Get and UpdateState use the worker's context: a worker that is stopped  *)
(* before it has begun leaves the job as it is.                            *)
Begin(w) ==
  /\ At(w, "begin")
  /\ IF w \in dead \/ ~Exists(Job(w))
       THEN Leave(w, "exit") /\ UNCHANGED row
       ELSE Goto(w, "list") /\ SetRow(Job(w), "running")
  /\ UNCHANGED <<verified, registered, disk, memory, dead, call>>

ListFiles(w) ==
  /\ At(w, "list")
  /\ IF w \in dead
       THEN Leave(w, "fail")
       ELSE worker' = [worker EXCEPT ![w].pc = "next",
                         ![w].todo = Listed(Job(w)) \ verified[Job(w)]]
  /\ UNCHANGED <<stored, disk, memory, dead, call>>

(* The next file is not started when its destination is there, or cannot   *)
(* be prepared.                                                            *)
NextFile(w) ==
  /\ At(w, "next")
  /\ \/ worker[w].todo = {} /\ Leave(w, "register")
     \/ worker[w].todo # {} /\ Leave(w, "fail")
     \/ /\ worker[w].todo # {} /\ File(w) \notin finals
        /\ worker' = [worker EXCEPT ![w].pc = "attempt", ![w].tries = 0]
  /\ UNCHANGED <<stored, disk, memory, dead, call>>

AttemptFailsLate(w) ==                                             \* mutant
  IF worker[w].tries = MaxAttempts
    THEN Leave(w, "fail") /\ UNCHANGED verified
    ELSE /\ worker' = [worker EXCEPT ![w].pc = "attempt", ![w].tries = @ + 1]
         /\ UNCHANGED verified
AttemptFailsForEver(w) ==                                          \* mutant
  /\ Goto(w, "attempt")
  /\ UNCHANGED verified

(* An attempt that fails is repeated, unless it was the last.              *)
AttemptFails(w) ==
  IF worker[w].tries + 1 = MaxAttempts
    THEN /\ Leave(w, "fail")
         /\ verified' = [verified EXCEPT ![Job(w)] = @ \ {File(w)}]
    ELSE /\ worker' = [worker EXCEPT ![w].pc = "attempt", ![w].tries = @ + 1]
         /\ UNCHANGED verified

(* One HTTP request: the partial file is opened, or there is no answer.    *)
Attempt(w) ==
  /\ At(w, "attempt")
  /\ \/ /\ w \in dead /\ Leave(w, "unwind")
        /\ UNCHANGED <<verified, parts>>
     \/ /\ w \notin dead
        /\ parts' = parts \cup {File(w)}
        /\ Goto(w, "copy")
        /\ UNCHANGED verified
     \/ /\ w \notin dead
        /\ AttemptFails(w)
        /\ UNCHANGED parts
  /\ UNCHANGED <<row, registered, finals, memory, dead, call>>

Copy(w) ==
  /\ At(w, "copy")
  /\ \/ Goto(w, "verify") /\ UNCHANGED verified
     \/ w \in dead /\ Leave(w, "unwind") /\ UNCHANGED verified
     \/ w \notin dead /\ AttemptFails(w)
  /\ UNCHANGED <<row, registered, disk, memory, dead, call>>

(* From here to the next file nobody looks at the context.                 *)
Verify(w) ==
  /\ At(w, "verify")
  /\ SetRow(Job(w), "verifying")
  /\ Goto(w, "hash")
  /\ UNCHANGED <<verified, registered, disk, memory, dead, call>>

HashFails(w) ==
  /\ Leave(w, "fail")
  /\ verified' \in {verified, [verified EXCEPT ![Job(w)] = @ \ {File(w)}]}

Hash(w) ==
  /\ At(w, "hash")
  /\ \/ File(w) \in parts /\ Goto(w, "rename") /\ UNCHANGED verified
     \/ HashFails(w)
  /\ UNCHANGED <<row, registered, disk, memory, dead, call>>

RenameLate(w) ==                                                   \* mutant
  /\ At(w, "rename")
  /\ Goto(w, "mark")
  /\ UNCHANGED <<stored, disk, memory, dead, call>>

Rename(w) ==
  /\ At(w, "rename")
  /\ \/ /\ File(w) \in parts
        /\ finals' = finals \cup {File(w)}
        /\ parts' = parts \ {File(w)}
        /\ Goto(w, "mark")
     \/ Leave(w, "fail") /\ UNCHANGED disk
  /\ UNCHANGED <<stored, memory, dead, call>>

MarkVerified(w) ==
  /\ At(w, "mark")
  /\ verified' = [verified EXCEPT ![Job(w)] =
                    @ \cup ({File(w)} \cap Listed(Job(w)))]
  /\ worker' = [worker EXCEPT ![w].pc = "next", ![w].todo = @ \ {File(w)}]
  /\ UNCHANGED <<row, registered, disk, memory, dead, call>>

(* onCancelledOrPaused takes the intent, then a cancelled job's partial    *)
(* files away, and then writes the row.                                    *)
Unwind(w) ==
  /\ At(w, "unwind")
  /\ intent' = [intent EXCEPT ![Job(w)] = "none"]
  /\ worker' = [worker EXCEPT ![w].pc = "sweep",
                  ![w].verdict = IF intent[Job(w)] = "none" THEN "paused"
                                 ELSE intent[Job(w)]]
  /\ UNCHANGED <<stored, disk, active, dead, call>>

Sweep(w) ==
  /\ At(w, "sweep")
  /\ parts' = IF worker[w].verdict = "cancelled" THEN parts \ Listed(Job(w)) ELSE parts
  /\ Goto(w, "settle")
  /\ UNCHANGED <<stored, finals, memory, dead, call>>

Settle(w) ==
  /\ At(w, "settle")
  /\ SetRow(Job(w), worker[w].verdict)
  /\ Leave(w, "exit")
  /\ UNCHANGED <<verified, registered, disk, memory, dead, call>>

Fail(w) ==
  /\ At(w, "fail")
  /\ SetRow(Job(w), "failed")
  /\ Leave(w, "exit")
  /\ UNCHANGED <<verified, registered, disk, memory, dead, call>>

-----------------------------------------------------------------------------
(* registerAndFinish, with a context of its own.                           *)

Register(w) ==
  /\ At(w, "register")
  /\ SetRow(Job(w), "registering")
  /\ Goto(w, "reread")
  /\ UNCHANGED <<verified, registered, disk, memory, dead, call>>

(* Without file rows there is no primary file to register.                 *)
RereadFiles(w) ==
  /\ At(w, "reread")
  /\ \/ Exists(Job(w)) /\ Goto(w, "catalog")
     \/ Leave(w, "fail")
  /\ UNCHANGED <<stored, disk, memory, dead, call>>

RegisterUnnoticed(w) ==                                            \* mutant
  /\ At(w, "catalog")
  /\ \/ registered' = registered \cup {Job(w)}
     \/ UNCHANGED registered
  /\ Goto(w, "done")
  /\ UNCHANGED <<row, verified, disk, memory, dead, call>>

(* The catalog rows are one transaction, made even of a job whose row has  *)
(* been deleted meanwhile.                                                 *)
RegisterModel(w) ==
  /\ At(w, "catalog")
  /\ \/ /\ registered' = registered \cup {Job(w)}
        /\ Goto(w, "done")
     \/ Leave(w, "fail") /\ UNCHANGED registered
  /\ UNCHANGED <<row, verified, disk, memory, dead, call>>

FinishDone(w) ==
  /\ At(w, "done")
  /\ SetRow(Job(w), "done")
  /\ Leave(w, "exit")
  /\ UNCHANGED <<verified, registered, disk, memory, dead, call>>

ExitUncleared(w) ==                                                \* mutant
  /\ At(w, "exit")
  /\ worker' = [worker EXCEPT ![w] = NoWorker]
  /\ dead' = dead \ {w}
  /\ UNCHANGED <<stored, disk, memory, call>>

(* The deferred clearActive removes the entry of the job, whoever's it is. *)
Exit(w) ==
  /\ At(w, "exit")
  /\ active' = [active EXCEPT ![Job(w)] = None]
  /\ worker' = [worker EXCEPT ![w] = NoWorker]
  /\ dead' = dead \ {w}
  /\ UNCHANGED <<stored, disk, intent, call>>

-----------------------------------------------------------------------------
BootWithoutReconcile == UNCHANGED row                              \* mutant
(* BootReconcile.                                                          *)
BootReconcile ==
  row' = [j \in Jobs |-> IF row[j] = "running" THEN "paused" ELSE row[j]]

(* The daemon dies; what is left is the store and the disk.                *)
Restart ==
  /\ CanCrash
  /\ BootReconcile
  /\ active' = [j \in Jobs |-> None]
  /\ intent' = [j \in Jobs |-> "none"]
  /\ worker' = [w \in Workers |-> NoWorker]
  /\ dead' = {}
  /\ call' = [c \in Clients |-> NoCall]
  /\ UNCHANGED <<verified, registered, disk>>

ClientStep(c) ==
  \/ \E j \in Jobs : \/ StartJob(c, j) \/ ApproveJob(c, j) \/ Resume(c, j)
                     \/ Pause(c, j) \/ Cancel(c, j) \/ Delete(c, j)
  \/ QueueJob(c) \/ StartCheck(c) \/ CancelActive(c)
  \/ TidyParts(c) \/ MarkCancelled(c) \/ DropRow(c)
  \/ \E w \in Workers : StartGo(c, w)

WorkerStep(w) ==
  \/ Begin(w) \/ ListFiles(w) \/ NextFile(w) \/ Attempt(w) \/ Copy(w)
  \/ Verify(w) \/ Hash(w) \/ Rename(w) \/ MarkVerified(w)
  \/ Unwind(w) \/ Sweep(w) \/ Settle(w) \/ Fail(w)
  \/ Register(w) \/ RereadFiles(w) \/ RegisterModel(w) \/ FinishDone(w) \/ Exit(w)

Next ==
  \/ \E j \in Jobs : ProposeJob(j)
  \/ \E c \in Clients : ClientStep(c)
  \/ \E w \in Workers : WorkerStep(w)
  \/ Restart

Spec == Init /\ [][Next]_vars
FairSpec == Spec /\ \A w \in Workers : WF_vars(WorkerStep(w))

-----------------------------------------------------------------------------
(* Properties.                                                             *)

(* The type invariant of the rows, the files, the service's maps and the   *)
(* goroutines: a worker and a call that run have a job, and no worker has  *)
(* used more attempts than it has.                                         *)
TypeOK ==
  /\ row \in [Jobs -> RowStates]
  /\ verified \in [Jobs -> SUBSET Files]
  /\ registered \subseteq Jobs
  /\ parts \subseteq Files /\ finals \subseteq Files
  /\ active \in [Jobs -> Workers \cup {None}]
  /\ intent \in [Jobs -> {"none", "paused", "cancelled"}]
  /\ worker \in [Workers -> WorkerStates]
  /\ dead \subseteq Workers
  /\ call \in [Clients -> Calls]
  /\ \A w \in Workers : Live(w) <=> worker[w].job # None
  /\ \A c \in Clients : ~CallAt(c, "idle") <=> call[c].job # None

(* An entry of Service.active always belongs to a worker of that job which *)
(* nobody has stopped: no stale entry keeps a job from being started again,*)
(* and a pause or cancel that finds an entry reaches a worker.             *)
EntryIsLive ==
  \A j \in Jobs : active[j] # None =>
     Live(active[j]) /\ Job(active[j]) = j /\ active[j] \notin dead

(* A job whose row says "running" has a worker that will yet write its     *)
(* outcome, across pauses, cancels, overlapping workers and restarts.      *)
RunningHasWorker ==
  \A j \in Jobs : row[j] = "running" =>
     \E w \in Workers : Job(w) = j /\ worker[w].pc \notin {"none", "begin", "exit"}

(* A file whose row says "verified" is on disk under its final name, at    *)
(* whatever point the daemon died: a later run of the job may skip it.     *)
VerifiedIsFinal == \A j \in Jobs : verified[j] \subseteq finals

(* A job that is done is in the catalog, and a job in the catalog has every*)
(* file it was to fetch on disk, whichever workers, runs of the daemon and *)
(* other jobs brought them there.                                          *)
DoneIsUsable ==
  \A j \in Jobs : /\ row[j] = "done" => j \in registered
                  /\ j \in registered => FilesOf[j] \subseteq finals

(* Every worker ends: its attempts are counted, and a stopped one notices. *)
WorkersEnd == \A w \in Workers : Live(w) ~> ~Live(w)

(* What the boot reconciliation is for: no row claims an activity that no  *)
(* worker carries out.                                                     *)
ActiveHasWorker ==
  \A j \in Jobs : row[j] \in Active => \E w \in Workers : Job(w) = j

(* One worker goroutine owns one job at a time: of two workers of a job,   *)
(* one has been stopped or has nothing left to do but to clear its entry.  *)
Working(w) == Live(w) /\ w \notin dead /\ ~At(w, "exit")
OneWorkerPerJob ==
  \A v, w \in Workers : Working(v) /\ Working(w) /\ Job(v) = Job(w) => v = w
=============================================================================
