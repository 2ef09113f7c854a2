# The Forge: specifications and proofs

The Forge (`src/go`) is the control plane of a single machine that serves local
language models. A daemon, `forge`, decides which model runs in which *slot*
(one systemd unit per slot), routes requests to it, makes room in memory when a
model must be loaded, and downloads new models. This directory holds TLA+
models of the parts of the daemon whose correctness depends on the order in
which things happen, the TLC runs that check them on small instances, and TLAPS
proofs of the properties that matter most, for every value of the constants.

Paths below are relative to `src/go/internal/` unless they start with `src/`.

    tlc -workers 2 -config SchedLive.cfg MCSchedCore     # one run
    tlapm SchedCoreProofs.tla                            # one proof module

`PROJECT.json` lists the components, the runs, a mutant of the code for every
property, the source lines of every definition, the hazards and the theorems.

## 1. The system

### Inventory

| component | state it keeps | operations | talks to |
|---|---|---|---|
| scheduler queue and token (`sched/core.go`, `queue.go`, `loadstatus.go`) | `Core.queue` of tickets with a jump count, `loadBusy`, `cfg`, the ring of outcomes; a row per ticket in the store | `EnsureLoaded`, `Unload`, `SetConfig`; the reads `Status` and `LoadStatus` | called by the router, the API, MCP, the cron jobs; calls placement and the engine |
| placement (`sched/place.go`) | none; reads occupancy, idle times, reservations | `place`, `CouldLoad`, `findLoaded` | engine `FitPlan` and `SlotStates`, collector snapshot, ComfyUI |
| reservations (`sched/reservations.go`) | `Core.reservations`, mirrored in the store | create, update, cancel; active / soon tests | placement reads them |
| scheduler jobs (`sched/jobs.go`, `cron`) | job rows with a next fire time | tick, fire, advance after downtime | `EnsureLoaded`, `Unload` |
| slot engine (`engine/lifecycle.go`, `manager.go`, `dbus.go`, `sysconfig.go`) | `Manager.slots` (a record per slot), sysconfig files per slot, the state file of the current mode; `opMu` | `Load`, `Unload` (one slot or all), `SwitchMode`, `Restart`, `SlotStates`, `CurrentMode` | systemd over D-Bus; the HTTP health of the servers |
| memory fit plan (`engine/memory.go`, `kvcache.go`) | caches of estimates | `FitPlan`, `CanFit`, `MemoryBudget` | host and GPU probes |
| maintenance gate (`maintenance/`) | one window with a lease and an expiry, mirrored in the settings | `Enter`, `Exit`, expiry, `ReconcileOnBoot`; the wrapped engine asks `Blocked` | wraps the engine for every caller |
| model downloads (`hfdownload/`, `store/downloads.go`) | rows of jobs and files; `.part` and final files; `Service.active` and `Service.intent` | start, propose, approve, resume, pause, cancel, delete; one worker goroutine per job; `BootReconcile` | HTTP to the hub, the catalog |
| collector (`collector/`) | an atomic snapshot, per-slot last activity, the hang detector | one poll cycle | systemd, `/proc`, the servers; read by nearly everyone |
| slot state and metrics sampler (`store/sampler.go`) | `slot_state` rows | periodic one-way correction, retention | collector, store |
| router (`router/`) | probe cache, circuit of errors per slot | choose a target, proxy, fall back along a chain | `EnsureLoaded`, providers |
| event bus (`bus/`) | bounded channel per subscriber | publish, subscribe | everyone publishes |
| request activity (`activity/`) | last label and time per slot | mark, read | router writes, collector reads |
| providers, compressor, speech | rows, HTTP clients, units | discovery, health, provisioning | remote services, systemd |
| context ledger (`ctxledger/`) | aggregated histograms, a bounded channel | observe, flush | router |
| model profiler (`profile/`) | one running measurement, results | run, delete | loads models through the engine, without the token |
| smith's procedures (`smith/procedure.go`, `procedures/`) | a row per run, the action's row, a lease | approve, run step after step, pause, approve or abort a checkpoint, resume at start | gate, engine |
| smith's board (`smith/actions.go`, `propose.go`, `procedurize.go`, `autonomy.go`, `execute.go`, `investigations.go`, `self_review.go`) | rows of actions and investigations; in memory the sweeping flag, the open anomalies, the stamps of unattended runs | sweep, propose, approve, reject, re-check, procedurize, execute, resolve, review | bus, checks, procedures |
| the rest of smith (checks, reasoning, hand-over, device recovery) | findings, conversations | check, explain, swap models | everything, as a caller |
| authorization (`authz/`) | users, sessions, keys, rate limits | login, step-up, verify | API |
| registry and configuration, file formats, store | catalog tables, parsed files | read, convert | all |
| dashboard API, MCP, command line, web, deployment files, evaluation tools | none of their own | call the above | |

By non-test lines the largest packages are smith (24 thousand) and httpapi (21
thousand), then store (7.7), router (4.3), collector (3.4), engine (2.4), authz
(2.4), sched (2.1) and hfdownload (1.6). The size of a package says little about
how hard its behaviour is: httpapi is handlers of one call each.

### How the parts interact

A request for a model that is not loaded reaches `Core.EnsureLoaded`. The call
becomes a ticket; when its turn comes, its goroutine takes the load token,
`place` chooses a slot and the slots to evict, and the engine unloads and loads,
which may take minutes, while other goroutines keep polling, time out, and enqueue.
Operators, cron jobs, the profiler and the smith agent call `Unload` and `Load`
of the engine at the same time; the engine serialises them with `opMu`. The
collector polls systemd on its own clock, and each reader of slot occupancy
(`SlotStates`) *reconciles* the engine's records with the unit states it is
given, in the middle of whatever operation is under way. The maintenance gate
wraps the engine and refuses calls while a window is open. Downloads share
nothing with the rest but the catalog in which a finished model is registered.

### What is hard, and what must hold

* **Scheduler.** Many goroutines in one loop with the mutex released in the
  middle; small jobs overtake large ones; five ways out of a call; a restart
  with rows in the store. *One load at a time; bounded overtaking and no
  starvation; every ticket leaves the queue and its row; a caller told "loaded"
  found its model; nothing is displaced that was not chosen.*
* **Engine.** systemd moves on its own: slow stops, crashes, automatic restarts;
  reconciliation may use old observations; an operation may fail after any step
  and the daemon may restart after any step. *A record is cleared only when the
  process is gone; nothing is started over a process that is being stopped; a
  single-instance mode is in one slot; what a restarted daemon infers is what
  the old one knew; every operation releases `opMu`.*
* **Downloads.** Handlers and workers of one job overlap; rows, files and maps
  are written one after the other; the daemon dies in between. *A stop reaches
  the worker; a row that says running is true; a file recorded as verified is on
  disk; a registered model is complete; every worker ends.*
* **Placement and reservations.** Decisions from a snapshot carried out minutes
  later, by arithmetic at equality; refusals that are final. *A plan suffices
  and is no larger than needed; a final refusal could not have been waited out;
  what is reserved stays, up to what an attempt could know.*
* **Procedures and the gate.** Two rows, a window and a goroutine change one
  after the other; checkpoints are approved and aborted at once; the daemon
  stops, crashes and resumes. *One goroutine per run; the rows agree; a window
  the runner opened is returned; no step is skipped; a run ends or is parked.*
* **Board.** Operators, sweeps, a bus consumer, executors, a review pass and a
  policy change the same rows by single statements without transactions; what
  keeps them apart is partly in memory and lost at a restart. *No row runs
  twice; no key or code is open twice; the policy's cap holds.*

## 2. The modules

| module | models | role |
|---|---|---|
| `SchedCore` | `sched/core.go`, `queue.go`, `findLoaded` | the scheduler |
| `LoadService` | what `EnsureLoaded` promises its callers | abstract specification |
| `SchedCoreProofs` | | invariants of `SchedCore` |
| `SchedServiceProofs` | | `SchedCore` implements `LoadService` |
| `SlotEngine` | `engine/lifecycle.go`, `manager.go`, the calls of `dbus.go` | the engine over systemd |
| `SlotEngineProofs` | | theorems about `SlotEngine` |
| `FitPlan` | `engine/memory.go`: the budget and `FitPlan` | operators only |
| `FitPlanProofs` | | lemmas on sums, theorems about `FitPlan` |
| `Placement` | `sched/place.go`, `reservations.go`, `attemptLoad` | extends `FitPlan` |
| `PlacementProofs` | | theorems about `Placement` |
| `MaintenanceGate` | `maintenance/gate.go` | operators and state of the gate |
| `ProcedureRuns` | `smith/procedure.go` and the approval of its actions | extends `MaintenanceGate` |
| `ProcedureRunsProofs` | | theorems about `ProcedureRuns` |
| `ActionBoard` | smith's actions, proposals, investigations, executors, review | the board |
| `ActionBoardProofs` | | theorems about `ActionBoard` |
| `Downloads` | `hfdownload/worker.go`, `service.go`, `registrar.go`, `reads.go` | the download service |
| `DownloadsProofs` | | theorems about `Downloads` |
| `MCSchedCore`, `MCSlotEngine`, `MCPlacement`, `MCProcedureRuns`, `MCActionBoard`, `MCDownloads` | | model values, functions and symmetry for TLC |

A few definitions carry the comment *mutant*: each is a variant of its
neighbour with a plausible mistake, and the property named beside it in
`PROJECT.json` fails when the variant takes its neighbour's place. They are not
part of any specification.

### SchedCore

A ticket is named by its caller, since a call has at most one. `queue`,
`jumped`, `cap` and `loadBusy` are the fields of `Core` that `Core.mu` protects;
`pc`, `req`, `status` and `plan` are the locals of each call; `mode` is the
occupancy that the engine reports; `rows` and `outcomes` are the ticket table
and the ring of failures. An action is one critical section, one engine call, or
one access to the table or the ring:

| code | actions |
|---|---|
| fast path and ticket (core.go 262-312, queue.go 20-55) | `CallHit`, `CallMiss`, `Enqueue` |
| top of the loop (326-355) | `TimeOut`, `Coalesce`, `StillWaiting` |
| turn, token (357-371), sleep (417-421) | `TakeToken`, `Sleep` |
| `attemptLoad` (440-485) | `AlreadyLoaded`, `Refuse`, `Place`, `Evict`, `EvictFails`, `Load`, `LoadFails` |
| after it (380-414) | `Release` |
| outcome ring, deferred `dequeue` | `ClearOutcome`, `RecordFailure`, `Dequeue`, `DeleteRow` |
| `Unload`, `SetConfig`, `New` | `Unload`, `SetConfig`, `Restart` |

What `place` answers (module `Placement`) is left open here: a refusal that is
final, one that is not, or a slot that is free or evicted. The order in which
`Evict` takes the slots is open too. The engine refuses to load a model that
another slot already serves, as `Manager.Load` does. Left out: the expiry of
the outcome ring after a time, the events on the bus, the ComfyUI step (its
failure is `EvictFails`, its success changes nothing here) and failures of the
ticket table, which the code ignores.

### SlotEngine

`unit` and `proc` are systemd's: the state of each slot's unit and the mode
whose files its process was started from. `mode`, `env` and `recorded` are the
slot records, the sysconfig files and the state file. `op` is the operation
that holds `opMu`; `seen` is the collector's last probe. The stop job, the
crash and the automatic restart are actions of systemd (`StopDone`, `Crash`,
`AutoRestart`; `Restart=on-failure` in `src/systemd/forge-a*.service`). The wait
loops of the code have time limits; in the model a wait may give up whenever its
condition is false. `Reconcile` is `SlotStates` and may happen between any two
steps; with `Lagging` it uses the last probe instead of the present states.

Left out: errors of the D-Bus connection, the auxiliary units of
`StartUnit`/`StopUnit`, the kill of lingering processes after `stopAll`
(processes end when `StopDone` says so), the wait for GPU memory, history and
notifications, the refusal of a second configuration over the same weights
(changes no state), modes of non-inference services, and `Boot`, which is
`SwitchMode` to a default mode. When several modes match a slot's files, the
code's answer depends on the order of a Go map; the model writes one mode per
slot file, so inference is exact.

### FitPlan and Placement

`FitPlan` is the arithmetic of the memory manager as operators over a record of
what the probes return. The loop over the candidates, smallest footprint first,
becomes a set: a slot goes while those before it have not given back enough.
Sizes are small numbers, and equality of sizes occurs among them.

`Place` is all of `place()`: the reservation tier and the ordinary one, pinned
and free slots, active and upcoming reservations, the idle threshold, ComfyUI,
and the three kinds of verdict. It is an operator over a *view* (the host, the
clock, the idle times of the last snapshot, the reservations), so that the same
operator decides in the actions and is asked in properties about other moments.
The actions around it are one attempt under the token (`Attempt`,
`PlaceSucceeds`, `PlaceRefuses`, `EvictOne`, `EvictFails`, `StopComfy`,
`StopComfyFails`, `LoadModel`) and all that moves under it meanwhile: the
clock, polls of the collector that are late or skip a change, reservations that
are edited, another client of the engine, and people with ComfyUI. Left out: who
may edit whose reservation, and the estimates of sizes.

### MaintenanceGate and ProcedureRuns

`window` is the gate's state and `saved` its copy in the settings, which a
failing write leaves behind. The deadline is an action that may come at any time
(`WindowEnds`). `action` and `row` are the two tables; `job`, `pc`, `mem` and
`verdict` the goroutines with their copy of a run; `daemon` says whether the
process is up, told to stop (every statement on its background context fails)
or gone. An action is one statement, one call of the gate, or the end of a step's
command. `done` and `approved` are history variables.

| code | actions |
|---|---|
| approval, `executeAction`, the run's row | `Approve`, `Decline`, `Execute`, `CreateRun`, `EndEarly`, `LoadRun` |
| `runProcedureSteps` | `Proceed`, `PreconditionFails`, `OpenWindow`, `WindowRefused`, `SaveLease`, `BeginStep`, `StepDone`, `StepFails`, `SaveStep`, `Pause`, `AllDone`, `Release`, `SaveEnd`, `Finish` |
| checkpoints | `ApproveCheckpoint`, `AbortCheckpoint`, `AbortTakes`, `AbortRefused`, `AbortRelease`, `AbortFinish` |
| the process, the other holders of windows | `Stop`, `Die`, `Boot`, `OperatorEnters`, `WindowEnds` |

Left out: what the commands do, rollbacks (best effort, no state here), the
captured output. `RegistryAssumption` states a fact about the registered
procedures: none has preconditions and a first step that needs the window.

### ActionBoard

`status` and `act` are the rows of actions; `act[i].of` names the proposal whose
operation a row performs, its own or the one it replaces. `istatus` and `trigger` are
the investigations. `openAnomaly`, `sweeping` and `autoRuns` are smith's memory, and
`closing` the investigations whose resolution has not yet reached the map.
`pc` and `loc` are the goroutines, `exec` the executor of each action, and
`dispatched` counts how often an operation was started. A compare-and-set is one
step, `CAS`, and what the code does on a lost one is in the action that lost it.

| code | actions |
|---|---|
| `actions.go`: operator calls | `CallReads`, `ApproveAction`, `ApproveRunbook`, `ConfirmReads`, `RecheckRunbook`, `CheckPendingRunbook`, `Settles`, `RejectAction`, `OperatorProposes` |
| `investigations.go` | `OperatorResolves`, `Unmap`, `HookReads`, `HookOpens`, `HookMaps` |
| `procedurize.go` | `ProcedurizeCreates`, `ProcedurizeApproves`, `Settles` |
| sweeps, `propose.go`, `autonomy.go` | `SweepTakes`, `SweepChecks`, `ProposeFrom`, `Supersedes`, `SweepInserts`, `AutonomyGate`, `AutonomyStamps`, `SweepEnds` |
| `execute.go` | `ExecStarts`, `ExecCannotStart`, `ExecDispatches`, `ExecFinalizes`, `ExecResolves`, `ProcedureEnds` |
| `self_review.go` | `ReviewProposes`, `Supersedes`, `ReviewInserts`, `ReviewPromotes`, `ReviewResolves`, `ReviewSupersedes` |
| start of the daemon | `Restart` |

What a check reports is an input, chosen anew each time it runs: the condition it
looks at may come and go. Left out: the gate that hands smith's own brain over
before an action and the proposal to swap it back, the recovery of lost devices
(`autorecover.go`), proposals of the capability tier, investigations opened by
hand, the data of findings, and the ageing of the 24-hour stamps (a run keeps
its stamp as long as the daemon lives, which is the strict reading of the cap).
One review pass runs at a time: the next is due two hours after the last began.

### Downloads

`row`, `verified`, `registered` are the store; `parts`, `finals` the disk;
`active`, `intent` the maps of `Service`; `worker`, `dead`, `call` the
goroutines and the HTTP handlers. `verified[j]` holds the files whose row says
*verified*. A worker's name can be used again after its end, so the number of
names bounds only how many workers are alive at once, not how many ever run.
`dead` is the set of cancelled contexts; the worker sees it only where the code
passes its context. `Tray` restricts clients to the buttons the dashboard shows
for a state (`HFDownloadTray.tsx`); without it every request may come at any
time, as the API allows.

Left out: the number of bytes in a partial file (so that an attempt may always
fail), failures of store statements other than by a cancelled context, a missing
models directory or hub client, the checks of `preflight` other than "the
destination exists", enrichment, and the contents of the catalog rows.

## 3. What TLC checks

| run | instance | distinct states | properties |
|---|---|---|---|
| `sched_loads` | 2 callers, 2 models, 2 slots, every pin, caps 0 and 1, restarts | 328 510 | `TypeOK`, `OneLoader`, `LoadsIntoFreeSlot`, `RowsMirrorQueue`, `ImplementsLoadService` |
| `sched_live` | 3 callers, one without a deadline, 1 model, 1 slot, cap 1 | 166 401 | `TicketsMatchCalls`, `JumpBound`, `JumpsDecrease`, `OrderIsStable`, `KindsStayFIFO`, `PatientReachesHead`, `CallsReturn` |
| `engine_live` | 2 slots; an empty mode, two one-slot modes with one home, a two-slot mode; crashes | 1 311 698 | `TypeOK`, `SingleInstance`, `BootAgrees`, `ClearsOnlyGone` |
| `engine_stale` | 2 slots, the two-slot mode, old probes, crashes, daemon restarts | 60 145 | `NoStartOverStopping`, `OperationsEnd` |
| `placement` | 3 models of sizes 1, 2 and 4 in a memory of 7, 2 slots, ComfyUI, 2 reservations, 3 ticks | 1 840 860 | `TypeOK`, `TerminalMeansNever`, `PlanSuffices`, `SparesWhatItCan`, `ReservedStays` |
| `procedure_runs` | 1 action, 4 steps, 2 goroutines, 3 leases, 2 restarts | 258 162 | `TypeOK`, `OneRunner`, `RunMatchesAction`, `WindowIsOwned`, `NoStepSkipped`, `RunsEnd` |
| `action_board` | 1 operator call, a sweeper, the hook, the review; 2 actions, 2 investigations, 3 rows in all; restarts | 3 099 516 | `TypeOK`, `RunsOnce`, `OnePendingPerKey`, `OneOpenPerCode`, `UnattendedCapped` |
| `download_jobs` | 1 job of 2 files, 2 workers, 2 attempts, daemon restarts | 404 265 | `TypeOK`, `EntryIsLive`, `RunningHasWorker`, `VerifiedIsFinal`, `DoneIsUsable`, `WorkersEnd` |

`sched_loads` uses symmetry (it checks no liveness; the sets it permutes are only
compared with equality). Deadlock is checked in every run but the two of
`ProcedureRuns`, where an action may be decided, its run over and the bound on
restarts reached, and `download_worker_doc`, where the only job may end deleted:
then the system really has nothing left to do.

**What the properties say.**

*Scheduler.* `TicketsMatchCalls`: the queue holds exactly the waiting calls, each
once. `JumpBound` and `JumpsDecrease`: a large ticket is overtaken at most as
often as the cap allows, and no ticket further back has been overtaken more
often than one ahead of it, which is what makes a capped ticket a wall.
`OrderIsStable` and `KindsStayFIFO`: waiting tickets never change places, and
under one cap a newcomer goes behind its own kind. `OneLoader`: the token is
held by at most one call and `loadBusy` tells the truth about it.
`LoadsIntoFreeSlot`: when the load starts the chosen slot is still free,
whatever happened since the placement. `RowsMirrorQueue`: on every way out the
row goes too. `ImplementsLoadService`: seen by its callers, the scheduler is a
service that serves one request at a time, moves models only for a request it
serves, fills only empty slots and never says "loaded" of a model that is not
there. `PatientReachesHead` and `CallsReturn`: nobody starves, everyone with a
deadline returns.

*Engine.* `ClearsOnlyGone`: a slot record is cleared only when the unit is gone.
`SingleInstance`: a mode of one service is on at most one slot, whichever of
load, switch, inference and failure put it there. `BootAgrees`: a daemon that
restarts would know of its active slots what the running one knows.
`NoStartOverStopping`: even with wrong records no operation starts a unit whose
old process is being stopped. `OperationsEnd`: `opMu` is always released.

*Placement.* `PlanSuffices`: once a plan is carried out its slot is empty and the
model fits beside all that stays and a load in flight. `SparesWhatItCan`: a
model that fits evicts at most one slot and none when a bay is free; the
largest eviction is always needed; ComfyUI goes only when all the slots together
are not enough. `TerminalMeansNever`: a final refusal could not have been waited
out within the caller's patience. `ReservedStays`: what a reservation covers is
evicted in its window only if the attempt was placed before the window, and
for an ordinary request by more than the protected span.

*Procedures.* `OneRunner`: one goroutine per run, whatever is approved and aborted
at once. `RunMatchesAction`: the rows of an action and of its run agree between
any two statements. `WindowIsOwned`: a window the runner opened belongs to a live
run or to a goroutine about to return it. `NoStepSkipped`: a step starts only
after all before it have succeeded, also after failures an operator lets pass
and after resumptions. `RunsEnd`: a run underway ends or is parked, although the
daemon stops and crashes.

*Board.* `RunsOnce`: the operation of a row is started at most once and never for
a row that was rejected or superseded. `OnePendingPerKey`: a dedupe key has one
pending row, although lookup, supersede and insert are three statements.
`OneOpenPerCode`: an anomaly has one open investigation, across restarts that
lose the map. `UnattendedCapped`: the policy's cap holds although it is tested
and stamped in different critical sections.

*Downloads.* `EntryIsLive`: an entry of `Service.active` leads to a worker of that
job that has not been stopped. `RunningHasWorker`: a row that says running has a
worker that will yet write the outcome. `VerifiedIsFinal`: a file recorded as
verified is there. `DoneIsUsable`: a done job is in the catalog and a job in the
catalog has all its files. `WorkersEnd`: every worker ends.

**Why these bounds.**

* Overtaking needs a large ticket, a small newcomer and a second one that meets
  the cap: three callers with a cap of 1, who may return and ask again. The
  loads need two models so that an eviction has a victim and two slots so that a
  pinned and a free choice differ; two callers are enough for one to hold the
  token while the other polls, times out or coalesces.
* A mode on one slot and one on both show partial switches; two modes with one
  home show a record that is replaced; two slots show a mode in the wrong one.
* The large model needs both slots, and ComfyUI gone if it runs; sizes are chosen
  so that a need is met exactly. Of the reservations one covers ComfyUI, one the
  whole box and one a slot; one is open at the start and two open later, and the
  clock goes from before a window into it.
* The procedure has the shape of `build_refresh`: a judged step, the first that
  needs the window, a checkpoint and a last step. Two goroutines are an operator
  beside a runner; the second restart comes while the first resumes.
* Two action rows are a proposal and its replacement or a second proposal for its
  key; two investigations are an open one and the one a lost map would open
  beside it; with three rows in all every pair occurs.
* Two files show what happens between two shards, two workers the overlap of a
  stopped worker with its successor, two attempts the difference between a retry
  and the last failure.

`MaxNow`, `MaxStarts`, `MaxAttempts`, `MaxActs`, `MaxInvs` and `MaxRows` are bounds
of the instances (`MaxAttempts` is also the code's own); a full table of the board
stands for an insert that fails, which the code handles. The proofs of section 5
hold for every value of them.

**When the engine's properties need their instance.** `SingleInstance`,
`BootAgrees` and `ClearsOnlyGone` are checked with reconciliation from present
unit states and without daemon restarts. These are not conveniences: with
`Lagging` an "inactive" older than a load clears the record of a running slot,
so `ClearsOnlyGone` fails; so it does, trivially, at a restart of the daemon,
whose new records start from what it finds. With both crashes and daemon
restarts `SingleInstance` fails as well: a unit that waits for its automatic
restart is not inferred at boot, its mode is loaded elsewhere, and then systemd
brings it back. The unload of every slot is left out of these for its own
reason: it does not look at what `stopAll` reports and clears the records of
units that are still deactivating. `engine_stale` has all three.

**What else the models leave possible.** Seen while modelling, and not stated as
properties because the code does not promise otherwise:

* `KindsStayFIFO` holds under one cap. When the cap is raised while larges wait, a
  new small can go ahead of smalls that a wall had stopped before.
* `SwitchMode` asks `CurrentMode`, which compares units: it may answer "already in"
  a mode when the same units run another one.
* The stamps of unattended runs are in memory: after a restart the policy's day
  starts anew. `UnattendedCapped` is about one life of the daemon.
* A restart shortly after an action began leaves its row *executing*, and one
  between approval and start leaves it *approved*: `reconcileExecuting` takes only old
  rows, and nothing takes up approved ones. A run that has ended, or was never
  created, when the daemon dies leaves its action *executing* for ever.
* An investigation can be resolved twice: `finishResolution` runs before the status
  of the action is settled, and its update has no condition.
* Capability-tier proposals are created outside the sweeping flag that keeps
  other proposers apart.

## 4. Where code and documentation disagree

Four runs expect a violation; each quotes a document or a comment.

1. `action_twice_doc`: `Procedurize` reads its source as pending and supersedes it
   only after the replacement has been approved; an approval of the source in
   between, or a second conversion of it, runs the operation twice. The comment
   on `legalTransitions` says that compare-and-set, "never a read-check-write",
   makes concurrent approvals correct.
2. `procedure_checkpoint_doc`: a checkpoint's step is saved as *running* and its
   pause in a second statement; a crash in between resumes the run past a point
   that `build_refresh.go` calls mandatory for a human.
3. `download_boot_doc`: only rows in state *running* are reconciled at start; a
   job whose worker died while verifying or registering claims to be active for
   ever, and the dashboard offers no way to resume it.
4. `download_worker_doc`: the deferred `clearActive` removes the entry of the
   job whoever's it is, so that pause, resume and resume can give a job two
   workers, against "one worker goroutine owns one job at a time".

## 5. Fairness and proofs

### Fairness

* `SchedCore`: weak fairness of each call's next step, because the loop always
  polls again after a sleep and engine calls return (their own limits are the
  subject of `OperationsEnd`); strong fairness of `TimeOut`, because `ctx.Err()`
  is asked at every pass of the loop and stays non-nil, while the model does not
  keep the clock and would let a call whose deadline has passed find its context
  alive at each pass. Callers in `Patient` have no deadline. No fairness is
  assumed of arrivals, operators or restarts.
* `SlotEngine`: weak fairness of the step of the operation under `opMu`; none
  of systemd, which may never finish a stop.
* `ProcedureRuns`: weak fairness of each goroutine (commands have time limits), of
  the end of a daemon that was told to stop (systemd kills it after its time
  limit) and of its next start: `Restart=on-failure` starts a crashed daemon, and a
  stop is the first half of a restart. A daemon stopped for good resumes nothing
  and is outside `RunsEnd`. None of operators: a parked run may stay so.
* `Downloads`: weak fairness of each worker: the goroutine runs, and a request
  or a copy ends (in success, failure or cancellation). None of clients.
* `Placement` and `ActionBoard` state no liveness. An attempt is followed to its end
  by `SchedCore`; on the board the rows stranded by a restart, listed above, are
  the reason that no "every approved action is decided" is stated.

### What is proved

Every theorem is about `Spec` for arbitrary constants that satisfy the named
assumptions in the modules: callers, models, slots, sizes, reservations, actions,
steps, jobs, files, goroutines of any number. `tlapm` checks all obligations;
nothing is assumed beyond what a theorem's statement says. Two sets are finite: the
slots, in `FitPlan` and in `OneSlotPerMode`, and the labels of the reservations,
which are a map in memory (`OffersAssumption`).

| module | theorem | statement |
|---|---|---|
| `SchedCoreProofs` | `TypeCorrect` | `TypeOK` |
| | `TokenExclusion` | `OneLoader` |
| | `NoGhostTickets` | `TicketsMatchCalls` |
| | `StarvationGuard`, `NearerIsJumpedMore` | `JumpBound`, `JumpsDecrease` |
| | `TicketsKeepTheirOrder` | `OrderIsStable` |
| | `ArrivalOrderWithinKinds` | `KindsStayFIFO`, when there is one cap |
| | `DelaysAreCharged` | a ticket that loses a place makes a large one at or ahead of it spend a jump |
| | `SmallsKeepTheirPlace` | a small ticket loses no place, when there is one cap |
| | `LoadsDisplaceNothing` | `LoadsIntoFreeSlot` |
| | `NoRowLeftBehind` | `RowsMirrorQueue` |
| `SchedServiceProofs` | `SchedulerRefinesService` | `ImplementsLoadService` |
| `SlotEngineProofs` | `EngineTypeCorrect` | `TypeOK` |
| | `StartsProtected` | `NoStartOverStopping`, with crashes, restarts and old probes |
| | `RecordsOutliveProcesses` | `ClearsOnlyGone`, with present probes, no daemon restart and no unload of every slot |
| | `RestartInfersTheSame` | `BootAgrees`, with present probes |
| | `OneSlotPerMode` | `SingleInstance`, as `RecordsOutliveProcesses`, with finitely many slots |
| | `OperationsAdvance` | every step of an operation brings it closer to giving back `opMu` |
| `FitPlanProofs` | `EvictionsAreLeast` | the loop takes the least set in its order that suffices |
| | `FitPlanSuffices`, `FitPlanGivesUp` | a plan makes room; it gives up only if nothing would |
| | `EvictedPlanLeavesRoom` | evictions that include the plan's leave room beside what stays |
| `PlacementProofs` | `PlacementInvariant`, `PlacementTypes` | the invariant below, `TypeOK` |
| | `ReservedModelsStay` | `ReservedStays` |
| | `PlacementsSuffice` | `PlanSuffices` |
| | `PlacementsSpare` | `SparesWhatItCan` |
| | `TerminalRefusals` | `TerminalMeansNever` |
| | `PlacementsMeetContract` | a placement is one that `Place` of `SchedCore` leaves open |
| `ProcedureRunsProofs` | `RunInvariant`, `ProcedureTypes` | the invariant below, `TypeOK` |
| | `SingleRunner` | `OneRunner` |
| | `TablesAgree` | `RunMatchesAction` |
| | `WindowsAreReturned` | `WindowIsOwned` |
| | `StepsInOrder` | `NoStepSkipped` |
| | `CheckpointsSkippedByRestarts` | at most one unapproved checkpoint is passed per start of the daemon |
| | `RunnersAdvance` | every step of a goroutine brings it closer to its end |
| `ActionBoardProofs` | `TypeCorrect` | `TypeOK` |
| | `RunsOnceAlways` | `RunsOnce` |
| | `OnePending` | `OnePendingPerKey` |
| | `OneOpen` | `OneOpenPerCode` |
| | `Capped` | `UnattendedCapped` |
| `DownloadsProofs` | `DownloadsTypeCorrect` | `TypeOK` |
| | `EntriesAreLive` | `EntryIsLive` |
| | `RunningIsHonest` | `RunningHasWorker` |
| | `VerifiedSurvives` | `VerifiedIsFinal` |
| | `DoneJobsAreUsable` | `DoneIsUsable` |
| | `OnlyRestartsAbandon` | rows without a worker come from restarts while verifying or registering |
| | `ActivityIsHonest` | `ActiveHasWorker`, without restarts |
| | `WorkersAdvance` | every step of a worker brings it closer to its end |

*The scheduler.* `OneLoader` is inductive with the types. The queue needs more:
`JumpBound` alone is not inductive, for a newcomer charges *every* large ticket
behind it, not only the one whose count was tested. What saves it is
`JumpsDecrease`: the tickets behind the insertion point have been jumped no more
often than the first of them, which had jumps to spare. That, in turn, needs each
caller to be in the queue once. So the invariant is `QueueInv ==
TicketsMatchCalls /\ JumpsDecrease /\ JumpBound`. Lemmas about `InsertAt` and
`RemoveAt` give the queue after each step by index, and `InsertionWall` says
what lies in front of and behind the insertion point. `KindsStayFIFO` adds
`SmallsBehindWalls`: every large ticket ahead of a small one has spent all its
jumps; this is what a raised cap breaks.
`LoadsIntoFreeSlot` needs `PlansHold`, what a plan says of its slot at each label,
and that under the token nothing but its holder puts a model into a slot.

*The refinement.* `LoadService` has a phase per caller, their requests and the
occupancy. `CallsKnow` says what a call knows at each label (on its way out its
answer, before the release its verdict, before the load that its caller accepts
the slot); with it and `PlansHold` each action of `SchedCore` is a step of
`LoadService` or a stutter, one lemma per group of actions, and
`SchedulerRefinesService` puts them together.

*The engine.* `EngineInv` records what an operation knows at each label: the
units are gone where a record is about to be freed or cleared (`FreeKnowsGone`,
`ClearKnowsGone`, which need that no unit can start by itself from a gone state),
no unit in `todo` is deactivating where it is about to be started
(`StartKnowsStopped`). Nothing about the records is needed for
`NoStartOverStopping`, which is why it survives old probes and restarts.
`BootAgrees` needs `FilesInv`: only the slot a load is bringing up may disagree with
its files, files are written before a start, and a switch writes over no
process and no record. `SingleInstance` needs that a running unit without a
record is of a mode with several services, so that nothing can be inferred for it
(`NothingToInfer`), that the mode an operation brings up is on no other slot
(`NobodyElseHasIt`), and that a switch goes exactly to the mode's home.

*Placement.* `ChosenInTheOpen`: what an attempt has yet to evict was, when it was
placed, not covered by an active reservation it knew of and, unless the request
itself is reserved, by none about to open. Time only moves forward, so an
eviction inside a window was placed before it.

*The arithmetic of a plan.* What a set of evictions gives back, `Frees`, is a fold
over the set, so each fact about it for every set asks for an induction, and the
induction theorems of the library take an operator the provers cannot supply.
`FitPlanProofs` argues by a smallest counterexample instead: the subsets of a
finite set are well-founded under proper inclusion (`StrictSubsetOrdering`,
`WFMin`), a least subset for which the fact fails loses one element, and one
unfolding of the fold contradicts it. So `Frees` is monotone and additive over
disjoint sets, and `EvictionsAreLeast` says that the loop of `FitPlan` stops at the
least sufficient set in its order. In `PlacementProofs`, `Follows` relates any
placement to the plan it came from; `PlacementsSuffice` and `PlacementsSpare`
follow from it. For `TerminalRefusals` the reasons of a final refusal are taken one
by one: each is of something that does not change while the caller waits, or
whose end lies beyond the caller's patience. `PlacementsMeetContract` gives the
guards of `Place` in `SchedCore`, which the scheduler's proofs build on; the one
difference is a pinned slot that another client of the engine is just loading,
which may be among the evicted although its record is still empty, and which
`SchedCore` does not have because it knows no such client.

*Procedures.* `RunInv` is the conjunction of what a goroutine knows of its job, run,
verdict, lease and steps at each label, and of what the rows say. The window is
safe because a lease is drawn once and is in the copy of the goroutine before
it is in the row.

*How far the finding on checkpoints goes.* `Unapproved(A, k)` counts the checkpoints
before step `k` that are not in `A`. The invariant bounds it by the number of the
daemon's starts, for every row (without its last step, which may be the
checkpoint whose pause is still to come) and at each label of a goroutine: a run
gets past an unapproved checkpoint only by `Boot`, which also counts a start,
since otherwise the goroutine that counts the step parks the run too. With
no start, `CheckpointNeedsApproval` holds as documented; the bound is reached.

*The board.* `ThreadsInv` ties every program counter to its locals. `RowsInv` says
which rows an executor may have: only a row that left *pending* by a won
compare-and-set has one, and an operation starts between *executing* and
its end. `SweepInv`: whoever is inside a sweep holds the flag, and there is one;
`KeysInv`: who is about to insert has seen that no pending row with its key is
left, and only a sweep or the review makes such rows, for different keys.
`InvsInv`: the map of open anomalies, or the hook that is about to write it, knows
every open investigation of a code. `AutoInv`: past the gate of the policy the
check has runs left, because only the holder of the sweep stamps.

*Downloads.* `EntryIsLive` needs that no entry and no stopped context names a
worker that has ended (`DeadAreLive`) because names are reused. `VerifiedIsFinal`
needs that a worker between the rename and the row has its file on disk
(`MarkFollowsRename`). `DoneIsUsable` needs that the files a worker does not have
left to do are on disk (`RestIsOnDisk`) and that registration comes before "done"
(`RegistersInOrder`). The lemmas are grouped by how an action moves a worker or a
call, so that most actions are discharged by the same few facts.
`OnlyRestartsAbandon` bounds the finding on boot reconciliation: within one life of
the daemon a worker carries on or writes the row it leaves behind
(`WorkerCarriesOn`, `LastRowIsHonest`), so that rows whose activity nobody carries
out come only from a `Restart` that finds them *verifying* or *registering*.

*Why things end.* The liveness properties are temporal and stay with TLC, but the
arguments of four of them are proved as action properties. `Closer` (of a download
worker and of an engine operation) and `Advances` (of a procedure's goroutine) order
the locals of a goroutine: by the phase of its work; within the loop of a worker by
the files left, the attempts made and the place in an attempt; within the passes of
an operation over its services by the services left; within the loop of a runner by
the steps counted and the place in a step. With finitely many files and slots, and
the attempts and steps that `TypeOK` bounds, the order has no endless descent.
`WorkersAdvance`, `OperationsAdvance` and `RunnersAdvance` say that each step of a
goroutine descends and that nobody else moves it anywhere but closer to its end;
what weak fairness adds is that the goroutine steps at all. `OperationsAdvance` needs
that a service is only verified or committed when one is left
(`VerifiesSomething`): `CommitService` with none would go back for ever.
For `PatientReachesHead` the order is that of the queue: newcomers that get ahead of a
ticket are small, and by `DelaysAreCharged` each of them uses up a jump of a large
ticket at or ahead of it; `JumpBound` limits those when there are finitely many
caps. `CallsReturn` is left to TLC alone: a call whose placement is refused goes round as often as its deadline allows.

### What is only model-checked

Liveness (`PatientReachesHead`, `CallsReturn`, `OperationsEnd`, `RunsEnd`,
`WorkersEnd`) is out of the prover's reach, as is anything with `ENABLED`.
Every invariant and every action property that a passing run checks is stated by a
theorem. The four findings of section 4 are counterexamples and need no proof.

## 6. Not modelled

The components marked *not_modelled* in `PROJECT.json`, for these reasons:

* *Handlers and front ends* (dashboard API, MCP, command line, web): each calls one
  operation of the parts above and keeps no state. With smith's reasoning and
  checks they are most of the 90 thousand lines; a model of them would repeat
  parsing and formatting, and no property of order or failure is about them.
  The map therefore covers a small share of the code by lines, and the share
  of its protocols is what the modules cover.
* *Clients of remote services* (providers, compressor, speech): requests and
  answers; their failures reach the modelled parts as failures of a call.
* *Store, file formats, registry and configuration*: sequential conversions; the
  rows that matter for order are variables of the modules that use them.
* *Event bus, request activity, context ledger, slot state and sampler, scheduler
  jobs*: one mutex or one writer each; nothing read from them is relied on by
  another step.
* *Router and profiler*: they meet the modelled parts as callers of `EnsureLoaded`
  and of the engine; the latter is `ClientLoads` in `Placement`. The router's own
  choice of a target is a computation over configuration and health probes.
* *Authorization*: sessions and limits by single statements.

Inside the modelled components, what section 2 lists as left out. In particular the
modules are not composed into one: `SchedCore` takes an engine call as one step and
`Placement` takes the token for granted. `SchedCore` proves that only one attempt
runs, which `Placement` assumes; `SlotEngine` shows that operations exclude each
other and end, which both assume; no run checks the three together, whose product
is beyond TLC at any size where the interesting cases happen.
