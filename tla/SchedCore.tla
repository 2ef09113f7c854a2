------------------------------ MODULE SchedCore ------------------------------
(***************************************************************************)
(* The in-process scheduler of go/internal/sched: any number of callers   *)
(* run Core.EnsureLoaded concurrently.  A call that cannot be answered at  *)
(* once becomes a ticket in one queue with the small-job jump; the ticket  *)
(* at the head takes the load token (loadBusy) and runs one placement,     *)
(* eviction and load with the scheduler mutex released.                    *)
(*                                                                         *)
(* Each action is one critical section of Core.mu, one engine call, or one *)
(* access to the store or to the outcome ring.  A ticket is named by the   *)
(* caller that waits on it: a caller has at most one at a time.  What      *)
(* place() decides and whether an engine call succeeds is left open here;  *)
(* the engine is its slot occupancy `mode`.                                *)
(***************************************************************************)
EXTENDS Integers, Sequences, FiniteSets, SequencesExt

CONSTANTS
  Callers,      \* goroutines blocked in, or about to call, EnsureLoaded
  Patient,      \* the callers whose context outlives the behaviour
  Models,
  Slots,
  None,         \* no model, no pinned slot
  Targets,      \* the TargetSlot values callers send: slots or None
  JumpCaps,     \* the values SetConfig may give PriorityJumpCap
  CanRestart    \* whether the daemon may be restarted

ASSUME CallersAssumption == Patient \subseteq Callers
ASSUME ModelsAssumption  == None \notin Models /\ None \notin Slots
ASSUME TargetsAssumption == Targets \subseteq Slots \cup {None}
ASSUME JumpCapsAssumption == JumpCaps \subseteq Nat /\ JumpCaps # {}
ASSUME FlagsAssumption == CanRestart \in BOOLEAN

VARIABLES
  queue,     \* Core.queue: the waiting tickets, head first
  jumped,    \* ticket.jumpedCount
  cap,       \* Core.cfg.PriorityJumpCap
  loadBusy,  \* Core.loadBusy, the load token
  outcomes,  \* the models with a remembered failure in Core.outcomes (read by LoadStatus)
  rows,      \* the callers whose ticket has a row in the store
  mode,      \* the engine's slot occupancy
  pc,        \* where each EnsureLoaded call is
  req,       \* its EnsureRequest
  status,    \* Ticket.Status
  plan       \* its local placement and load outcome

coreVars   == <<queue, jumped, cap, loadBusy>>
callVars   == <<req, status, plan>>
vars == <<queue, jumped, cap, loadBusy, outcomes, rows, mode,
          pc, req, status, plan>>

-----------------------------------------------------------------------------
(* State formulas.                                                         *)

Requests == [model: Models, target: Targets, small: BOOLEAN]
NoRequest == [model |-> None, target |-> None, small |-> FALSE]

Verdicts == {"none", "loaded", "failed", "retry"}
NoPlan == [slot |-> None, evict |-> {}, verdict |-> "none"]
Plans == [slot: Slots \cup {None}, evict: SUBSET Slots, verdict: Verdicts]

Labels == {"idle", "enqueue", "poll", "turn", "attempt", "load",
           "release", "clear", "record", "dequeue", "deleteRow"}
(* The calls inside attemptLoad: they hold the load token.                 *)
Holding == {"attempt", "load", "release"}
(* The calls whose ticket must be in the queue.                            *)
Enqueued == {"poll", "turn", "attempt", "load", "release", "record", "dequeue"}

Small(c) == req[c].small
Queued(c) == \E i \in 1..Len(queue) : queue[i] = c

(* findLoaded: a pinned caller only counts its own slot.                   *)
Found(r) == \E s \in Slots : mode[s] = r.model /\ r.target \in {s, None}

(* The place a new ticket takes: a small one goes before the first large   *)
(* ticket with jumps to spare, and everyone else to the end.               *)
JumpableAtCap(i) == ~Small(queue[i]) /\ jumped[queue[i]] <= cap    \* mutant
JumpableSmall(i) == jumped[queue[i]] < cap                          \* mutant
Jumpable(i) == ~Small(queue[i]) /\ jumped[queue[i]] < cap
IsInsertionPoint(c, p) ==
  /\ p \in 1..(Len(queue) + 1)
  /\ ~Small(c) => p = Len(queue) + 1
  /\ Small(c) => /\ p <= Len(queue) => Jumpable(p)
                 /\ \A i \in 1..(p - 1) : ~Jumpable(i)

-----------------------------------------------------------------------------
Init ==
  /\ queue = <<>>
  /\ jumped = [c \in Callers |-> 0]
  /\ cap \in JumpCaps
  /\ loadBusy = FALSE
  /\ outcomes = {}
  /\ rows = {}
  /\ mode = [s \in Slots |-> None]
  /\ pc = [c \in Callers |-> "idle"]
  /\ req = [c \in Callers |-> NoRequest]
  /\ status = [c \in Callers |-> "none"]
  /\ plan = [c \in Callers |-> NoPlan]

Goto(c, from, to) == pc[c] = from /\ pc' = [pc EXCEPT ![c] = to]

(* Writes of ticket rows.  They are best-effort; one that fails leaves a   *)
(* missing or a leftover row, which only the purge at the next start sees. *)
PersistTicket(c) == rows' = rows \cup {c}
PersistDelete(c) == rows' = rows \ {c}

-----------------------------------------------------------------------------
(* EnsureLoaded up to the ticket.                                          *)

(* The fast path.  The advisory maintenance check refuses a call here too, *)
(* which leaves no trace in the scheduler.                                 *)
CallHit(c, r) ==
  /\ Goto(c, "idle", "clear")
  /\ req' = [req EXCEPT ![c] = r]
  /\ Found(r)
  /\ status' = [status EXCEPT ![c] = "loaded"]
  /\ UNCHANGED <<coreVars, outcomes, rows, mode, plan>>

CallMiss(c, r) ==
  /\ Goto(c, "idle", "enqueue")
  /\ req' = [req EXCEPT ![c] = r]
  /\ ~Found(r)
  /\ UNCHANGED <<coreVars, outcomes, rows, mode, status, plan>>

(* The call is over: its locals are gone.                                  *)
Forget(c) ==
  /\ req' = [req EXCEPT ![c] = NoRequest]
  /\ status' = [status EXCEPT ![c] = "none"]

(* Mutants: nobody is charged; the ticket right behind the newcomer is not.*)
EnqueueFree(c, p) ==
  /\ Goto(c, "enqueue", "poll")
  /\ IsInsertionPoint(c, p)
  /\ queue' = InsertAt(queue, p, c)
  /\ status' = [status EXCEPT ![c] = "queued"]
  /\ PersistTicket(c)
  /\ UNCHANGED <<jumped, cap, loadBusy, outcomes, mode, req, plan>>
EnqueueUncharged(c, p) ==
  /\ Goto(c, "enqueue", "poll")
  /\ IsInsertionPoint(c, p)
  /\ queue' = InsertAt(queue, p, c)
  /\ jumped' = [d \in Callers |->
                  IF d = c THEN 0
                  ELSE IF \E i \in (p + 1)..Len(queue) : queue[i] = d /\ ~Small(d)
                       THEN jumped[d] + 1
                       ELSE jumped[d]]
  /\ status' = [status EXCEPT ![c] = "queued"]
  /\ PersistTicket(c)
  /\ UNCHANGED <<cap, loadBusy, outcomes, mode, req, plan>>

(* enqueueLocked: every large ticket behind a small newcomer is charged a  *)
(* jump.                                                                   *)
Enqueue(c, p) ==
  /\ Goto(c, "enqueue", "poll")
  /\ IsInsertionPoint(c, p)
  /\ queue' = InsertAt(queue, p, c)
  /\ jumped' = [d \in Callers |->
                  IF d = c THEN 0
                  ELSE IF \E i \in p..Len(queue) : queue[i] = d /\ ~Small(d)
                       THEN jumped[d] + 1
                       ELSE jumped[d]]
  /\ status' = [status EXCEPT ![c] = "queued"]
  /\ PersistTicket(c)
  /\ UNCHANGED <<cap, loadBusy, outcomes, mode, req, plan>>

-----------------------------------------------------------------------------
(* The polling loop.                                                       *)

(* ctx.Err() is looked at here only: the deadline has passed, or the       *)
(* client is gone.                                                         *)
TimeOut(c) ==
  /\ Goto(c, "poll", "record")
  /\ c \notin Patient
  /\ status' = [status EXCEPT ![c] = "failed"]
  /\ UNCHANGED <<coreVars, outcomes, rows, mode, req, plan>>

(* Somebody else loaded the model while this ticket waited.                *)
Coalesce(c) ==
  /\ Goto(c, "poll", "clear")
  /\ Found(req[c])
  /\ status' = [status EXCEPT ![c] = "loaded"]
  /\ UNCHANGED <<coreVars, outcomes, rows, mode, req, plan>>

StillWaiting(c) ==
  /\ Goto(c, "poll", "turn")
  /\ ~Found(req[c])
  /\ UNCHANGED <<coreVars, callVars, outcomes, rows, mode>>

MyTurnNoToken(c) == Len(queue) > 0 /\ queue[1] = c                 \* mutant
MyTurn(c) == Len(queue) > 0 /\ queue[1] = c /\ ~loadBusy

TakeToken(c) ==
  /\ Goto(c, "turn", "attempt")
  /\ MyTurn(c)
  /\ loadBusy' = TRUE
  /\ status' = [status EXCEPT ![c] = "loading"]
  /\ PersistTicket(c)
  /\ UNCHANGED <<queue, jumped, cap, outcomes, mode, req, plan>>

(* Mutant: the loop waits for its turn without looking at its context.     *)
SleepForEver(c) ==
  /\ Goto(c, "turn", "turn")
  /\ ~MyTurn(c)
  /\ UNCHANGED <<coreVars, callVars, outcomes, rows, mode>>

Sleep(c) ==
  /\ Goto(c, "turn", "poll")
  /\ ~MyTurn(c)
  /\ UNCHANGED <<coreVars, callVars, outcomes, rows, mode>>

-----------------------------------------------------------------------------
(* attemptLoad, with the token held and the mutex released.                *)

Decide(c, v) == plan' = [plan EXCEPT ![c].verdict = v]

AlreadyLoaded(c) ==
  /\ Goto(c, "attempt", "release")
  /\ Found(req[c])
  /\ Decide(c, "loaded")
  /\ UNCHANGED <<coreVars, outcomes, rows, mode, req, status>>

(* place() refuses: for good, or until something frees up.                 *)
Refuse(c) ==
  /\ Goto(c, "attempt", "release")
  /\ ~Found(req[c])
  /\ \E v \in {"failed", "retry"} : Decide(c, v)
  /\ UNCHANGED <<coreVars, outcomes, rows, mode, req, status>>

(* place() answers with a slot and the slots to evict first.  The slot is  *)
(* the pinned one or any other, and it is free or among the evicted.       *)
Place(c, s, E) ==
  /\ Goto(c, "attempt", "load")
  /\ ~Found(req[c])
  /\ req[c].target \in {s, None}
  /\ \A e \in E : mode[e] # None
  /\ mode[s] # None => s \in E
  /\ plan' = [plan EXCEPT ![c].slot = s, ![c].evict = E]
  /\ UNCHANGED <<coreVars, outcomes, rows, mode, req, status>>

(* Engine.Unload of one evicted slot.                                      *)
Evict(c, e) ==
  /\ pc[c] = "load"
  /\ e \in plan[c].evict
  /\ mode' = [mode EXCEPT ![e] = None]
  /\ plan' = [plan EXCEPT ![c].evict = @ \ {e}]
  /\ UNCHANGED <<coreVars, outcomes, rows, pc, req, status>>

(* An eviction, or the stop of ComfyUI, that fails ends the attempt but    *)
(* not the wait.                                                           *)
EvictFails(c) ==
  /\ Goto(c, "load", "release")
  /\ Decide(c, "retry")
  /\ UNCHANGED <<coreVars, outcomes, rows, mode, req, status>>

(* Engine.Load: the engine refuses a model that another slot serves.       *)
Load(c) ==
  /\ Goto(c, "load", "release")
  /\ plan[c].evict = {}
  /\ \A s \in Slots \ {plan[c].slot} : mode[s] # req[c].model
  /\ mode' = [mode EXCEPT ![plan[c].slot] = req[c].model]
  /\ Decide(c, "loaded")
  /\ UNCHANGED <<coreVars, outcomes, rows, req, status>>

(* Mutant: the engine's answer is not looked at.                           *)
LoadFailsUnnoticed(c) ==
  /\ Goto(c, "load", "release")
  /\ plan[c].evict = {}
  /\ Decide(c, "loaded")
  /\ UNCHANGED <<coreVars, outcomes, rows, mode, req, status>>

LoadFails(c) ==
  /\ Goto(c, "load", "release")
  /\ plan[c].evict = {}
  /\ Decide(c, "failed")
  /\ UNCHANGED <<coreVars, outcomes, rows, mode, req, status>>

(* Mutant: the verdict is written into the ticket as it is.                *)
ReleaseRaw(c) ==
  /\ pc[c] = "release"
  /\ LET v == plan[c].verdict IN
     /\ pc' = [pc EXCEPT ![c] = CASE v = "loaded" -> "clear"
                                  [] v = "failed" -> "record"
                                  [] OTHER        -> "poll"]
     /\ status' = [status EXCEPT ![c] = v]
     /\ IF v = "retry" THEN PersistTicket(c) ELSE UNCHANGED rows
  /\ loadBusy' = FALSE
  /\ plan' = [plan EXCEPT ![c] = NoPlan]
  /\ UNCHANGED <<queue, jumped, cap, outcomes, mode, req>>

(* The token is given back together with the ticket's new status.          *)
Release(c) ==
  /\ pc[c] = "release"
  /\ LET v == plan[c].verdict IN
     /\ pc' = [pc EXCEPT ![c] = CASE v = "loaded" -> "clear"
                                  [] v = "failed" -> "record"
                                  [] OTHER        -> "poll"]
     /\ status' = [status EXCEPT ![c] = IF v = "retry" THEN "queued" ELSE v]
     /\ IF v = "retry" THEN PersistTicket(c) ELSE UNCHANGED rows
  /\ loadBusy' = FALSE
  /\ plan' = [plan EXCEPT ![c] = NoPlan]
  /\ UNCHANGED <<queue, jumped, cap, outcomes, mode, req>>

-----------------------------------------------------------------------------
(* The way out: the outcome ring, then the deferred dequeue.               *)

ClearOutcome(c) ==
  /\ pc[c] = "clear"
  /\ outcomes' = outcomes \ {req[c].model}
  /\ IF Queued(c)
     THEN /\ pc' = [pc EXCEPT ![c] = "dequeue"]
          /\ UNCHANGED <<req, status>>
     ELSE /\ pc' = [pc EXCEPT ![c] = "idle"]
          /\ Forget(c)
  /\ UNCHANGED <<coreVars, rows, mode, plan>>

RecordFailure(c) ==
  /\ Goto(c, "record", "dequeue")
  /\ outcomes' = outcomes \cup {req[c].model}
  /\ UNCHANGED <<coreVars, callVars, rows, mode>>

(* Mutants: the head goes instead of this ticket; the hole is filled with  *)
(* the last ticket; the row is left behind.                                *)
DequeueHead(c) ==
  /\ Goto(c, "dequeue", "deleteRow")
  /\ queue' = Tail(queue)
  /\ jumped' = [jumped EXCEPT ![c] = 0]
  /\ UNCHANGED <<cap, loadBusy, callVars, outcomes, rows, mode>>
DequeueSwap(c) ==
  /\ Goto(c, "dequeue", "deleteRow")
  /\ queue' = Front([i \in 1..Len(queue) |->
                       IF queue[i] = c THEN Last(queue) ELSE queue[i]])
  /\ jumped' = [jumped EXCEPT ![c] = 0]
  /\ UNCHANGED <<cap, loadBusy, callVars, outcomes, rows, mode>>
DequeueOnly(c) ==
  /\ Goto(c, "dequeue", "idle")
  /\ queue' = Remove(queue, c)
  /\ jumped' = [jumped EXCEPT ![c] = 0]
  /\ Forget(c)
  /\ UNCHANGED <<cap, loadBusy, outcomes, rows, mode, plan>>

Dequeue(c) ==
  /\ Goto(c, "dequeue", "deleteRow")
  /\ \E i \in 1..Len(queue) : queue[i] = c /\ queue' = RemoveAt(queue, i)
  /\ jumped' = [jumped EXCEPT ![c] = 0]
  /\ UNCHANGED <<cap, loadBusy, callVars, outcomes, rows, mode>>

DeleteRow(c) ==
  /\ Goto(c, "deleteRow", "idle")
  /\ PersistDelete(c)
  /\ Forget(c)
  /\ UNCHANGED <<coreVars, outcomes, mode, plan>>

-----------------------------------------------------------------------------
(* The rest of the world.                                                  *)

(* Core.Unload of one slot, or of "all": no token, no queue.               *)
Unload(S) ==
  /\ \E s \in S : mode[s] # None
  /\ mode' = [s \in Slots |-> IF s \in S THEN None ELSE mode[s]]
  /\ UNCHANGED <<coreVars, callVars, outcomes, rows, pc>>

SetConfig(k) ==
  /\ k # cap
  /\ cap' = k
  /\ UNCHANGED <<queue, jumped, loadBusy, callVars, outcomes, rows, mode, pc>>

(* The daemon dies and New() runs: callers are gone, leftover rows purged, *)
(* the models stay on their units.                                         *)
Restart ==
  /\ CanRestart
  /\ \E c \in Callers : pc[c] # "idle"
  /\ queue' = <<>>
  /\ jumped' = [c \in Callers |-> 0]
  /\ loadBusy' = FALSE
  /\ outcomes' = {}
  /\ rows' = {}
  /\ pc' = [c \in Callers |-> "idle"]
  /\ req' = [c \in Callers |-> NoRequest]
  /\ status' = [c \in Callers |-> "none"]
  /\ plan' = [c \in Callers |-> NoPlan]
  /\ UNCHANGED <<cap, mode>>

(* What the goroutine of a call does next.                                 *)
Step(c) ==
  \/ \E p \in 1..(Len(queue) + 1) : Enqueue(c, p)
  \/ TimeOut(c) \/ Coalesce(c) \/ StillWaiting(c) \/ TakeToken(c) \/ Sleep(c)
  \/ AlreadyLoaded(c) \/ Refuse(c)
  \/ \E s \in Slots, E \in SUBSET Slots : Place(c, s, E)
  \/ \E e \in Slots : Evict(c, e)
  \/ EvictFails(c) \/ Load(c) \/ LoadFails(c) \/ Release(c)
  \/ ClearOutcome(c) \/ RecordFailure(c) \/ Dequeue(c) \/ DeleteRow(c)

Next ==
  \/ \E c \in Callers : Step(c)
  \/ \E c \in Callers, r \in Requests : CallHit(c, r) \/ CallMiss(c, r)
  \/ \E s \in Slots : Unload({s})
  \/ Unload(Slots)
  \/ \E k \in JumpCaps : SetConfig(k)
  \/ Restart

Spec == Init /\ [][Next]_vars

(* A goroutine is never starved by the Go runtime and engine calls return; *)
(* a deadline that has passed is seen on every later visit to the loop's   *)
(* top, so a call that keeps coming back there times out.                  *)
Fairness == \A c \in Callers : WF_vars(Step(c)) /\ SF_vars(TimeOut(c))
FairSpec == Spec /\ Fairness

-----------------------------------------------------------------------------
(* Properties.                                                             *)

(* Every variable has its type, and a call that runs has a request.        *)
TypeOK ==
  /\ queue \in Seq(Callers)
  /\ jumped \in [Callers -> Nat]
  /\ cap \in JumpCaps
  /\ loadBusy \in BOOLEAN
  /\ outcomes \subseteq Models
  /\ rows \subseteq Callers
  /\ mode \in [Slots -> Models \cup {None}]
  /\ pc \in [Callers -> Labels]
  /\ req \in [Callers -> Requests \cup {NoRequest}]
  /\ \A c \in Callers : pc[c] # "idle" => req[c] \in Requests
  /\ status \in [Callers -> {"none", "queued", "loading", "loaded", "failed"}]
  /\ plan \in [Callers -> Plans]

(* At most one call is between taking and returning the load token, and    *)
(* loadBusy says whether there is one: two callers never place, evict and  *)
(* load at the same time, and a token is never left behind.                *)
OneLoader ==
  /\ loadBusy <=> \E c \in Callers : pc[c] \in Holding
  /\ \A c, d \in Callers : pc[c] \in Holding /\ pc[d] \in Holding => c = d

(* A ticket is in the queue from its enqueue to its dequeue, once, and no  *)
(* longer: a call that has returned leaves no ghost ahead of the others.   *)
TicketsMatchCalls ==
  /\ \A i, j \in 1..Len(queue) : queue[i] = queue[j] => i = j
  /\ \A c \in Callers : /\ pc[c] \in Enqueued => Queued(c)
                        /\ Queued(c) => pc[c] \in Enqueued \cup {"clear"}

(* The starvation guard: no waiting large ticket is ever jumped more often *)
(* than the largest cap in force allows.                                   *)
JumpBound ==
  \A c \in Callers : Queued(c) => \E k \in JumpCaps : jumped[c] <= k

(* A large ticket nearer the head has been jumped at least as often as one *)
(* behind it, so a capped ticket is a wall for everything behind it.       *)
JumpsDecrease ==
  \A i, j \in 1..Len(queue) :
     i < j /\ ~Small(queue[i]) /\ ~Small(queue[j])
       => jumped[queue[j]] <= jumped[queue[i]]

(* The slot a load starts on is free by then, whatever operators unloaded  *)
(* and other callers did between the placement and the load: nothing that  *)
(* was not chosen for eviction is displaced.                               *)
LoadsIntoFreeSlot ==
  \A c \in Callers : pc[c] = "load" /\ plan[c].evict = {}
                        => mode[plan[c].slot] = None

(* Every waiting ticket has its row in the store, and the only rows without*)
(* a ticket are those a returning call is about to delete: on every way    *)
(* out of EnsureLoaded, across restarts, no row is left behind.            *)
RowsMirrorQueue ==
  \A c \in Callers : /\ Queued(c) => c \in rows
                     /\ c \in rows => Queued(c) \/ pc[c] = "deleteRow"

(* Two tickets never change places while both wait.                        *)
Before(q, c, d) == \E i, j \in 1..Len(q) : i < j /\ q[i] = c /\ q[j] = d
OrderIsStable ==
  [][\A c, d \in ToSet(queue) \cap ToSet(queue') :
       Before(queue, c, d) => Before(queue', c, d)]_vars

(* A newcomer goes behind every waiting ticket of its own kind: smalls     *)
(* stay in arrival order among themselves, and so do larges, as long as    *)
(* SetConfig does not change the cap.  (Raising it reopens a large ticket  *)
(* that smalls already queued behind, and a later small overtakes them.)   *)
KindsStayFIFO ==
  [][\A c \in ToSet(queue) \cap ToSet(queue'), d \in ToSet(queue') \ ToSet(queue) :
       Small(c) = Small(d) => Before(queue', c, d)]_vars

(* Nobody waits for ever behind later arrivals: a ticket whose context     *)
(* never ends reaches the head, or is answered because another call loaded *)
(* its model.                                                              *)
PatientReachesHead ==
  \A c \in Patient :
     Queued(c) ~> (~Queued(c) \/ queue[1] = c)

(* The refinement: what a call is doing, seen from its caller.             *)
Phase(c) ==
  CASE pc[c] = "idle"                                  -> "none"
    [] pc[c] \in {"enqueue", "poll", "turn"}           -> "waiting"
    [] pc[c] \in {"attempt", "load"}                   -> "serving"
    [] pc[c] = "release" /\ plan[c].verdict = "retry"  -> "waiting"
    [] pc[c] = "release" /\ plan[c].verdict # "retry"  -> plan[c].verdict
    [] OTHER                                           -> status[c]
Service == INSTANCE LoadService WITH
             phase <- [c \in Callers |-> Phase(c)], want <- req, occ <- mode

(* The scheduler, with its queue, token, coalescing and eviction steps     *)
(* interleaved with operators and restarts, implements LoadService: one    *)
(* request is served at a time, models are only put into empty slots, and  *)
(* no caller is told "loaded" of a model that is not there.                *)
ImplementsLoadService == Service!Spec

(* Every call with a deadline returns.                                     *)
CallsReturn ==
  \A c \in Callers \ Patient : pc[c] # "idle" ~> pc[c] = "idle"
=============================================================================
