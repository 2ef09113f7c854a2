---------------------------- MODULE ActionBoard ----------------------------
(***************************************************************************)
(* Smith's board of proposed actions and its investigations: sweeps of     *)
(* checks that propose (proposeFrom, createOrReuseProposal) and may start  *)
(* a procedure unattended (maybeAutoRunProcedure), the anomaly hook,       *)
(* operators who approve, reject, re-check and procedurize, the executor   *)
(* goroutine of every approved action, the self-review pass, and restarts  *)
(* of the daemon.                                                          *)
(*                                                                         *)
(* The rows live in the store and survive a restart; the sweeping flag,    *)
(* the map of open anomalies, the stamps of unattended runs and every      *)
(* goroutine do not.  A step is one SQL statement or one critical section. *)
(* The result of running a check is an input, chosen anew every time: the  *)
(* checked condition may come and go at any moment.                        *)
(***************************************************************************)
EXTENDS Naturals, FiniteSets

CONSTANTS
  Callers,        \* goroutines of the HTTP API, one per call in flight
  Sweepers,       \* goroutines that sweep: scheduled, requested, the hook
  Hook,           \* the one of them that consumes the bus (anomalyLoop)
  Review,         \* the goroutine of a self-review pass
  Checks,         \* the checks that have a proposer
  Fixable,        \* those that propose a low-risk action with a procedure
  Codes,          \* the notification codes that open an investigation
  Calls,          \* the operator calls of this instance
  Named,          \* investigations that requests attach to; 0 for none
  MaxActs,        \* bound on the action rows
  MaxInvs,        \* bound on the investigation rows
  MaxRows,        \* bound on the rows of both tables together
  MaxOpen,        \* maxAutoOpenProposals
  MaxAuto,        \* MaxPerDay of the autonomy policy
  CanRestart,     \* the daemon may die and start again
  None            \* no check, no code

Threads == Callers \cup Sweepers \cup {Review}

ASSUME ThreadsAssumption ==
  /\ Hook \in Sweepers
  /\ Callers \cap Sweepers = {}
  /\ Review \notin Callers \cup Sweepers
ASSUME ChecksAssumption == Fixable \subseteq Checks /\ None \notin Checks \cup Codes
ASSUME BoundsAssumption ==
  /\ MaxActs \in Nat /\ MaxInvs \in Nat /\ MaxRows \in Nat
  /\ MaxOpen \in Nat /\ MaxAuto \in Nat
  /\ CanRestart \in BOOLEAN /\ Named \subseteq 0..MaxInvs

VARIABLES
  status,         \* smith_actions.status; "absent" before the insert
  act,            \* kind, dedupe key, investigation; "of": whose operation
  istatus,        \* smith_investigations.status
  trigger,        \* the code of "anomaly:<code>", None for "manual"
  openAnomaly,    \* Smith.openAnomaly: code -> investigation, 0 for none
  closing,        \* closed investigations still to be dropped from that map
  sweeping,       \* Smith.sweeping
  autoRuns,       \* the number of stamps in Smith.autonomyRunsAt
  pc, loc,        \* where every goroutine is, and its local variables
  exec,           \* the executor goroutine of an approved action
  dispatched      \* how often an action's operation was started

rowVars == <<status, act>>
invVars == <<istatus, trigger, openAnomaly, closing>>
execVars == <<exec, dispatched>>
vars == <<status, act, istatus, trigger, openAnomaly, closing, sweeping,
          autoRuns, pc, loc, exec, dispatched>>

ActIds == 1..MaxActs
InvIds == 1..MaxInvs

Statuses == {"absent", "pending", "approved", "rejected", "executing", "done",
             "done_unverified", "failed", "superseded"}

\* A closure proposed by self-review is a runbook with a marker in its detail.
Runbooks == {"runbook", "close"}
Kinds == Runbooks \cup {"none", "fix", "procedure"}

\* Dedupe keys: one per check, one per investigation to close, or none.
CheckKey(c) == <<"check", c>>
CloseKey(j) == <<"close", j>>
NoKey == <<"none", None>>
Keys == {CheckKey(c) : c \in Checks} \cup {CloseKey(j) : j \in InvIds} \cup {NoKey}

Blank == [kind |-> "none", key |-> NoKey, inv |-> 0, of |-> 0]
Fresh == [at |-> 0, made |-> 0, into |-> 0, key |-> NoKey, code |-> None,
          todo |-> {}, room |-> 0]

-----------------------------------------------------------------------------
(* Statements on the two tables *)

\* The bound of an instance on the rows of both tables; an insert into full
\* tables stands for one that fails.
Full == Cardinality({i \in ActIds : status[i] # "absent"})
        + Cardinality({j \in InvIds : istatus[j] # "absent"}) >= MaxRows

\* CreateAction: the insert takes the next id; "of" names the proposal whose
\* operation the row performs, its own or that of the row it replaces.
FreeActs == {i \in ActIds : status[i] = "absent" /\ ~Full}
NewAct == CHOOSE i \in FreeActs : \A j \in FreeActs : i <= j
CreateAction(i, kind, key, j, of) ==
  /\ status' = [status EXCEPT ![i] = "pending"]
  /\ act' = [act EXCEPT ![i] = [kind |-> kind, key |-> key, inv |-> j, of |-> of]]

\* UPDATE ... SET status = to WHERE id = i AND status = from.
CASBlind(i, from, to) == status' = [status EXCEPT ![i] = to] /\ UNCHANGED act  \* mutant
CAS(i, from, to) ==
  /\ status' = IF status[i] = from THEN [status EXCEPT ![i] = to] ELSE status
  /\ UNCHANGED act

\* pendingByDedupeKey
PendingWith(k) == {i \in ActIds : status[i] = "pending" /\ act[i].key = k}

\* pendingAutoProposalCount: pending rows created by smith
PendingAuto == {i \in ActIds : status[i] = "pending" /\ act[i].key # NoKey}

\* CreateInvestigation
FreeInvs == {j \in InvIds : istatus[j] = "absent" /\ ~Full}
NewInv == CHOOSE j \in FreeInvs : \A k \in FreeInvs : j <= k
CreateInvestigation(j, code) ==
  /\ istatus' = [istatus EXCEPT ![j] = "open"]
  /\ trigger' = [trigger EXCEPT ![j] = code]
  /\ UNCHANGED <<openAnomaly, closing>>

\* ResolveInvestigation: the UPDATE to resolved or dismissed has no condition
\* on the status; the entry of the map goes in a critical section of its own
\* (Unmap).
ResolveInvestigation(j) ==
  /\ istatus' = [istatus EXCEPT ![j] = "closed"]
  /\ closing' = closing \cup {j}
  /\ UNCHANGED <<trigger, openAnomaly>>

\* finishResolution, after the checks ran: resolves only when all are clean.
FinishUnlinked(j, clean) ==                                          \* mutant
  IF clean THEN ResolveInvestigation(j) ELSE UNCHANGED invVars
FinishResolution(j, clean) ==
  IF clean /\ j # 0 THEN ResolveInvestigation(j) ELSE UNCHANGED invVars

OpenOf(c) == {j \in InvIds : istatus[j] = "open" /\ trigger[j] = c}

\* Thread t goes to p with the locals l, less those that go out of scope.
Kept(l, p) ==
  CASE p = "idle" -> Fresh
    [] p = "propose" -> [l EXCEPT !.at = 0, !.made = 0, !.key = NoKey]
    [] OTHER -> l
Goto(t, p, l) ==
  /\ pc' = [pc EXCEPT ![t] = p]
  /\ loc' = [loc EXCEPT ![t] = Kept(l, p)]

-----------------------------------------------------------------------------
(* Operator calls *)

\* The first statement of a call reads the row and refuses it in the wrong
\* state; the call goes on with what it read.
Accepts(call, i) ==
  CASE call = "approve" -> status[i] = "pending"
    [] call = "checkNow" -> /\ status[i] = "pending" /\ act[i].kind \in Runbooks
                            /\ act[i].key # NoKey \/ act[i].inv # 0
    [] call = "recheck" -> status[i] = "done_unverified" /\ act[i].kind \in Runbooks
    [] call = "procedurize" -> status[i] = "pending" /\ act[i].kind = "fix"
    [] OTHER -> FALSE

CallReads(t, call, i) ==
  /\ pc[t] = "idle"
  /\ Accepts(call, i)
  /\ Goto(t, call, [Fresh EXCEPT !.at = i])
  /\ UNCHANGED <<rowVars, invVars, sweeping, autoRuns, execVars>>

\* ApproveAction after its read: the executor is spawned when the
\* compare-and-set won.
Approve(i) ==
  /\ CAS(i, "pending", "approved")
  /\ exec' = IF status[i] = "pending" THEN [exec EXCEPT ![i] = "spawned"] ELSE exec
  /\ UNCHANGED dispatched

ApproveAction(t) ==
  /\ pc[t] = "approve"
  /\ act[loc[t].at].kind \notin Runbooks
  /\ Approve(loc[t].at)
  /\ Goto(t, "idle", loc[t])
  /\ UNCHANGED <<invVars, sweeping, autoRuns>>

\* approveRunbook: the approval is the whole of it, except for a closure.
ApproveRunbook(t) ==
  LET i == loc[t].at IN
  /\ pc[t] = "approve"
  /\ act[i].kind \in Runbooks
  /\ CAS(i, "pending", "done_unverified")
  /\ Goto(t, IF status[i] = "pending" /\ act[i].kind = "close" THEN "confirm" ELSE "idle", loc[t])
  /\ UNCHANGED <<invVars, sweeping, autoRuns, execVars>>

\* approveSelfReviewClose: nothing to do when the investigation is no longer
\* open, else the checks run again.
ConfirmReads(t) ==
  /\ pc[t] = "confirm"
  /\ Goto(t, IF istatus[act[loc[t].at].inv] = "open" THEN "recheck" ELSE "idle", loc[t])
  /\ UNCHANGED <<rowVars, invVars, sweeping, autoRuns, execVars>>

\* The checks of approveSelfReviewClose and RecheckRunbook, and what follows:
\* the status of the action does not move.
RecheckRunbook(t, clean) ==
  /\ pc[t] = "recheck"
  /\ FinishResolution(act[loc[t].at].inv, clean)
  /\ Goto(t, "idle", loc[t])
  /\ UNCHANGED <<rowVars, sweeping, autoRuns, execVars>>

\* CheckPendingRunbook: a clean check closes the investigation, then the
\* proposal (Settles); a failing one leaves both.
CheckPendingRunbook(t, clean) ==
  /\ pc[t] = "checkNow"
  /\ FinishResolution(act[loc[t].at].inv, clean)
  /\ Goto(t, IF clean THEN "settle" ELSE "idle", loc[t])
  /\ UNCHANGED <<rowVars, sweeping, autoRuns, execVars>>

\* supersedeActionWithNote at the end of CheckPendingRunbook and Procedurize
Settles(t) ==
  /\ pc[t] = "settle"
  /\ CAS(loc[t].at, "pending", "superseded")
  /\ Goto(t, IF t \in Sweepers THEN "propose" ELSE "idle", loc[t])
  /\ UNCHANGED <<invVars, sweeping, autoRuns, execVars>>

\* RejectAction
RejectAction(t, i) ==
  /\ pc[t] = "idle"
  /\ status[i] = "pending"
  /\ CAS(i, "pending", "rejected")
  /\ UNCHANGED <<pc, loc, invVars, sweeping, autoRuns, execVars>>

\* An operator's own proposal carries no dedupe key.
OperatorProposes(t, kind, j) ==
  /\ pc[t] = "idle"
  /\ FreeActs # {}
  /\ CreateAction(NewAct, kind, NoKey, j, NewAct)
  /\ UNCHANGED <<pc, loc, invVars, sweeping, autoRuns, execVars>>

\* POST /smith/investigations/{id}/resolve
OperatorResolves(t, j) ==
  /\ pc[t] = "idle"
  /\ istatus[j] # "absent"
  /\ ResolveInvestigation(j)
  /\ UNCHANGED <<rowVars, pc, loc, sweeping, autoRuns, execVars>>

\* The second half of ResolveInvestigation, under s.mu
Unmap(j) ==
  /\ j \in closing
  /\ closing' = closing \ {j}
  /\ openAnomaly' = [c \in Codes |-> IF openAnomaly[c] = j THEN 0 ELSE openAnomaly[c]]
  /\ UNCHANGED <<rowVars, istatus, trigger, pc, loc, sweeping, autoRuns, execVars>>

-----------------------------------------------------------------------------
(* Procedurize, called by operators and by the autonomy policy *)

\* The source was read as pending; nothing holds it until it is superseded at
\* the end.  The replacement, with the investigation of the source.  A failed insert
\* ends the call and leaves the source untouched.
ProcedurizeCreates(t) ==
  LET src == loc[t].at IN
  /\ pc[t] = "procedurize"
  /\ IF FreeActs = {}
       THEN /\ Goto(t, IF t \in Sweepers THEN "propose" ELSE "idle", loc[t])
            /\ UNCHANGED rowVars
       ELSE /\ CreateAction(NewAct, "procedure", NoKey, act[src].inv, act[src].of)
            /\ Goto(t, "procApprove", [loc[t] EXCEPT !.made = NewAct])
  /\ UNCHANGED <<invVars, sweeping, autoRuns, execVars>>

\* ApproveAction of the replacement, which an operator may have rejected or
\* approved meanwhile: then the call fails and the source stays pending.
ProcedurizeApproves(t) ==
  LET new == loc[t].made IN
  /\ pc[t] = "procApprove"
  /\ Approve(new)
  /\ Goto(t, IF status[new] = "pending" THEN "settle"
             ELSE IF t \in Sweepers THEN "propose" ELSE "idle", loc[t])
  /\ UNCHANGED <<invVars, sweeping, autoRuns>>

-----------------------------------------------------------------------------
(* Sweeps and the anomaly hook *)

\* handleAnomaly: look the code up, else create its investigation and enter it.
HookReads(c) ==
  /\ pc[Hook] = "idle"
  /\ IF openAnomaly[c] # 0
       THEN Goto(Hook, "begin", [Fresh EXCEPT !.into = openAnomaly[c]])
       ELSE Goto(Hook, "open", [Fresh EXCEPT !.code = c])
  /\ UNCHANGED <<rowVars, invVars, sweeping, autoRuns, execVars>>

HookOpens ==
  /\ pc[Hook] = "open"
  /\ IF FreeInvs = {}
       THEN /\ Goto(Hook, "idle", Fresh)
            /\ UNCHANGED invVars
       ELSE /\ CreateInvestigation(NewInv, loc[Hook].code)
            /\ Goto(Hook, "map", [loc[Hook] EXCEPT !.into = NewInv])
  /\ UNCHANGED <<rowVars, sweeping, autoRuns, execVars>>

HookMaps ==
  LET c == loc[Hook].code IN
  /\ pc[Hook] = "map"
  /\ IF openAnomaly[c] # 0
       THEN /\ Goto(Hook, "begin", [Fresh EXCEPT !.into = openAnomaly[c]])
            /\ UNCHANGED openAnomaly
       ELSE /\ Goto(Hook, "begin", [Fresh EXCEPT !.into = loc[Hook].into])
            /\ openAnomaly' = [openAnomaly EXCEPT ![c] = loc[Hook].into]
  /\ UNCHANGED <<rowVars, istatus, trigger, closing, sweeping, autoRuns, execVars>>

\* RunChecks, RunChecksIntoInvestigation: one sweep at a time, others fail.
\* A scheduled or requested sweep goes into an investigation or into none.
SweepTakesAnyway(w, j) ==                                            \* mutant
  /\ IF w = Hook THEN pc[w] = "begin" /\ j = loc[w].into ELSE pc[w] = "idle" /\ j = 0
  /\ Goto(w, "checks", [Fresh EXCEPT !.into = j])
  /\ sweeping' = TRUE
  /\ UNCHANGED <<rowVars, invVars, autoRuns, execVars>>
SweepTakes(w, j) ==
  /\ \/ w = Hook /\ pc[w] = "begin" /\ j = loc[w].into
     \/ /\ w # Hook /\ pc[w] = "idle" /\ ~sweeping
        /\ j \in Named /\ (j # 0 => istatus[j] # "absent")
  /\ IF sweeping
       THEN Goto(w, "idle", Fresh) /\ UNCHANGED sweeping
       ELSE Goto(w, "checks", [Fresh EXCEPT !.into = j]) /\ sweeping' = TRUE
  /\ UNCHANGED <<rowVars, invVars, autoRuns, execVars>>

\* The checks run; proposeFrom counts the open proposals once and goes
\* through the findings that have a proposer.
SweepChecks(w, found) ==
  LET n == Cardinality(PendingAuto) IN
  /\ pc[w] = "checks"
  /\ Goto(w, "propose", [loc[w] EXCEPT !.todo = found,
                                      !.room = IF n < MaxOpen THEN MaxOpen - n ELSE 0])
  /\ UNCHANGED <<rowVars, invVars, sweeping, autoRuns, execVars>>

SweepEnds(w) ==
  /\ pc[w] = "propose"
  /\ loc[w].todo = {}
  /\ sweeping' = FALSE
  /\ Goto(w, "idle", loc[w])
  /\ UNCHANGED <<rowVars, invVars, autoRuns, execVars>>

\* createOrReuseProposal of thread t for key k, first statement: a pending row
\* with the same detail is reused (t goes on at "next"), one with another
\* detail is superseded, and without one the new row is inserted.
LooksUp(t, k, l, next) ==
  \/ /\ PendingWith(k) = {}
     /\ Goto(t, "insert", [l EXCEPT !.key = k])
  \/ \E i \in PendingWith(k) :
       /\ \A j \in PendingWith(k) : j <= i
       /\ \/ Goto(t, next, l)
          \/ Goto(t, "supersede", [l EXCEPT !.key = k, !.at = i])

\* proposeFrom takes up the finding of check c: nothing beyond the cap
ProposeFrom(w, c) ==
  LET l == [loc[w] EXCEPT !.todo = @ \ {c}] IN
  /\ pc[w] = "propose"
  /\ c \in loc[w].todo
  /\ IF loc[w].room = 0
       THEN Goto(w, "propose", l)
       ELSE LooksUp(w, CheckKey(c), l, "propose")
  /\ UNCHANGED <<rowVars, invVars, sweeping, autoRuns, execVars>>

\* casSuperseded, whose verdict is not looked at
Supersedes(t) ==
  /\ pc[t] = "supersede"
  /\ CAS(loc[t].at, "pending", "superseded")
  /\ Goto(t, "insert", loc[t])
  /\ UNCHANGED <<invVars, sweeping, autoRuns, execVars>>

\* The insert of a sweep; a new row is then offered to the autonomy policy.
SweepInserts(w) ==
  LET c == loc[w].key[2] IN
  /\ w \in Sweepers
  /\ pc[w] = "insert"
  /\ IF FreeActs = {}
       THEN Goto(w, "propose", loc[w]) /\ UNCHANGED rowVars
       ELSE /\ CreateAction(NewAct, IF c \in Fixable THEN "fix" ELSE "runbook",
                            loc[w].key, loc[w].into, NewAct)
            /\ Goto(w, "autonomy", [loc[w] EXCEPT !.at = NewAct, !.room = @ - 1])
  /\ UNCHANGED <<invVars, sweeping, autoRuns, execVars>>

\* maybeAutoRunProcedure up to the unlock: the row is still pending, it has a
\* low-risk procedure and that procedure has runs left today.  The policy and
\* the cooldown may decline as well.
AutonomyGate(w) ==
  LET i == loc[w].at IN
  /\ pc[w] = "autonomy"
  /\ \/ Goto(w, "propose", loc[w])
     \/ /\ status[i] = "pending"
        /\ act[i].kind = "fix"
        /\ autoRuns[act[i].key[2]] < MaxAuto
        /\ Goto(w, "autoCheck", loc[w])
  /\ UNCHANGED <<rowVars, invVars, sweeping, autoRuns, execVars>>

\* The finding is checked once more, and the preconditions; then the stamp,
\* and Procedurize, which wants the row pending.
AutonomyStamps(w, failing) ==
  LET i == loc[w].at IN
  /\ pc[w] = "autoCheck"
  /\ IF failing
       THEN /\ autoRuns' = [autoRuns EXCEPT ![act[i].key[2]] = @ + 1]
            /\ Goto(w, IF status[i] = "pending" THEN "procedurize" ELSE "propose", loc[w])
       ELSE /\ Goto(w, "propose", loc[w])
            /\ UNCHANGED autoRuns
  /\ UNCHANGED <<rowVars, invVars, sweeping, execVars>>

-----------------------------------------------------------------------------
(* The executor goroutine of an approved action *)

\* executeAction begins: approved -> executing, or nothing when it lost
ExecStarts(i) ==
  /\ exec[i] = "spawned"
  /\ CAS(i, "approved", "executing")
  /\ exec' = [exec EXCEPT ![i] = IF status[i] = "approved" THEN "dispatch" ELSE "none"]
  /\ UNCHANGED <<invVars, sweeping, autoRuns, pc, loc, dispatched>>

\* The write failed: failApproved, which is a write of the same kind
ExecCannotStart(i) ==
  /\ exec[i] = "spawned"
  /\ CAS(i, "approved", "failed") \/ UNCHANGED rowVars
  /\ exec' = [exec EXCEPT ![i] = "none"]
  /\ UNCHANGED <<invVars, sweeping, autoRuns, pc, loc, dispatched>>

\* The operation itself.  A procedure may pause at a checkpoint: its row stays
\* executing and the goroutine ends.
ExecDispatches(i) ==
  /\ exec[i] = "dispatch"
  /\ dispatched' = [dispatched EXCEPT ![i] = @ + 1]
  /\ \/ exec' = [exec EXCEPT ![i] = "finalize"]
     \/ act[i].kind = "procedure" /\ exec' = [exec EXCEPT ![i] = "none"]
  /\ UNCHANGED <<rowVars, invVars, sweeping, autoRuns, pc, loc>>

\* finalizeResult decides the status; the write of it may fail and leave the
\* row executing.  maybeProposeResolution goes on only from "done".
ExecFinalizes(i, to) ==
  /\ exec[i] = "finalize"
  /\ CAS(i, "executing", to)
  /\ exec' = [exec EXCEPT ![i] = IF status'[i] = "done" /\ act[i].inv # 0
                                   THEN "resolve" ELSE "none"]
  /\ UNCHANGED <<invVars, sweeping, autoRuns, pc, loc, dispatched>>

\* proposeResolution: the investigation's checks run again
ExecResolves(i, clean) ==
  /\ exec[i] = "resolve"
  /\ FinishResolution(act[i].inv, clean)
  /\ exec' = [exec EXCEPT ![i] = "none"]
  /\ UNCHANGED <<rowVars, sweeping, autoRuns, pc, loc, dispatched>>

\* finishExecution: a paused or resumed procedure ends (module ProcedureRuns)
ProcedureEnds(i, to) ==
  /\ act[i].kind = "procedure"
  /\ dispatched[i] > 0
  /\ exec[i] = "none"
  /\ status[i] = "executing"
  /\ CAS(i, "executing", to)
  /\ UNCHANGED <<invVars, sweeping, autoRuns, pc, loc, execVars>>

-----------------------------------------------------------------------------
(* The self-review pass: its steps on different rows do not depend on each    *)
(* other, so each is open whenever the goroutine is not inside another.       *)

\* proposeInvestigationClosure of an open investigation that checks clean
ReviewProposes(j) ==
  /\ pc[Review] = "idle"
  /\ istatus[j] = "open"
  /\ LooksUp(Review, CloseKey(j), loc[Review], "idle")
  /\ UNCHANGED <<rowVars, invVars, sweeping, autoRuns, execVars>>

ReviewInserts ==
  LET l == loc[Review] IN
  /\ pc[Review] = "insert"
  /\ IF FreeActs = {} THEN UNCHANGED rowVars
                      ELSE CreateAction(NewAct, "close", l.key, l.key[2], NewAct)
  /\ Goto(Review, "idle", loc[Review])
  /\ UNCHANGED <<invVars, sweeping, autoRuns, execVars>>

\* promoteDoneUnverified: its verify checks are clean on a newer snapshot
ReviewPromotes(i) ==
  /\ pc[Review] = "idle"
  /\ status[i] = "done_unverified"
  /\ act[i].kind \notin Runbooks
  /\ CAS(i, "done_unverified", "done")
  /\ Goto(Review, IF act[i].inv # 0 THEN "promoted" ELSE "idle",
           [loc[Review] EXCEPT !.at = i])
  /\ UNCHANGED <<invVars, sweeping, autoRuns, execVars>>

ReviewResolves(clean) ==
  /\ pc[Review] = "promoted"
  /\ FinishResolution(act[loc[Review].at].inv, clean)
  /\ Goto(Review, "idle", loc[Review])
  /\ UNCHANGED <<rowVars, sweeping, autoRuns, execVars>>

\* A proposal of a sweep whose check no longer fails is moot.
ReviewSupersedes(i) ==
  /\ pc[Review] = "idle"
  /\ status[i] = "pending"
  /\ act[i].key[1] = "check"
  /\ CAS(i, "pending", "superseded")
  /\ UNCHANGED <<invVars, sweeping, autoRuns, pc, loc, execVars>>

-----------------------------------------------------------------------------
(* The daemon dies and starts                                              *)

\* reconcileOpenAnomalies: the newest open investigation of every code
Newest(c) == CHOOSE j \in OpenOf(c) : \A k \in OpenOf(c) : k <= j
ReconciledNone == [c \in Codes |-> 0]                                 \* mutant
Reconciled == [c \in Codes |-> IF OpenOf(c) = {} THEN 0 ELSE Newest(c)]

\* reconcileExecuting fails the executing rows that are old enough and not
\* procedures; nothing else of a lost goroutine is taken up.
Restart(old) ==
  /\ CanRestart
  /\ \A i \in old : status[i] = "executing" /\ act[i].kind # "procedure"
  /\ status' = [i \in ActIds |-> IF i \in old THEN "failed" ELSE status[i]]
  /\ openAnomaly' = Reconciled
  /\ closing' = {}
  /\ sweeping' = FALSE
  /\ autoRuns' = [c \in Fixable |-> 0]
  /\ pc' = [t \in Threads |-> "idle"]
  /\ loc' = [t \in Threads |-> Fresh]
  /\ exec' = [i \in ActIds |-> "none"]
  /\ UNCHANGED <<act, istatus, trigger, dispatched>>

Init ==
  /\ status = [i \in ActIds |-> "absent"]
  /\ act = [i \in ActIds |-> Blank]
  /\ istatus = [j \in InvIds |-> "absent"]
  /\ trigger = [j \in InvIds |-> None]
  /\ openAnomaly = [c \in Codes |-> 0]
  /\ closing = {}
  /\ sweeping = FALSE
  /\ autoRuns = [c \in Fixable |-> 0]
  /\ pc = [t \in Threads |-> "idle"]
  /\ loc = [t \in Threads |-> Fresh]
  /\ exec = [i \in ActIds |-> "none"]
  /\ dispatched = [i \in ActIds |-> 0]

Ends == {"done", "done_unverified", "failed"}

CallerStep(t) ==
  \/ \E call \in Calls, i \in ActIds : CallReads(t, call, i)
  \/ ApproveAction(t) \/ ApproveRunbook(t) \/ ConfirmReads(t)
  \/ \E clean \in BOOLEAN : RecheckRunbook(t, clean) \/ CheckPendingRunbook(t, clean)
  \/ "reject" \in Calls /\ \E i \in ActIds : RejectAction(t, i)
  \/ "propose" \in Calls /\ \E k \in {"fix", "runbook"}, j \in Named :
       (j # 0 => istatus[j] # "absent") /\ OperatorProposes(t, k, j)
  \/ "resolve" \in Calls /\ \E j \in InvIds : OperatorResolves(t, j)

SweeperStep(w) ==
  \/ \E j \in {0} \cup InvIds : SweepTakes(w, j)
  \/ SweepEnds(w)
  \/ \E found \in SUBSET Checks : SweepChecks(w, found)
  \/ \E c \in Checks : ProposeFrom(w, c)
  \/ SweepInserts(w) \/ AutonomyGate(w)
  \/ \E failing \in BOOLEAN : AutonomyStamps(w, failing)

ExecStep(i) ==
  \/ ExecStarts(i) \/ ExecCannotStart(i) \/ ExecDispatches(i)
  \/ \E to \in Ends \cup {"executing"} : ExecFinalizes(i, to)
  \/ \E clean \in BOOLEAN : ExecResolves(i, clean)
  \/ \E to \in Ends : ProcedureEnds(i, to)

ReviewStep ==
  \/ ReviewInserts
  \/ \E j \in InvIds : ReviewProposes(j)
  \/ \E i \in ActIds : ReviewPromotes(i) \/ ReviewSupersedes(i)
  \/ \E clean \in BOOLEAN : ReviewResolves(clean)

Next ==
  \/ \E t \in Callers : CallerStep(t)
  \/ \E w \in Sweepers : SweeperStep(w)
  \/ \E t \in Threads : Settles(t) \/ Supersedes(t) \/ ProcedurizeCreates(t)
                        \/ ProcedurizeApproves(t)
  \/ \E c \in Codes : HookReads(c)
  \/ HookOpens \/ HookMaps
  \/ \E i \in ActIds : ExecStep(i)
  \/ ReviewStep
  \/ \E j \in InvIds : Unmap(j)
  \/ \E old \in SUBSET ActIds : Restart(old)

Spec == Init /\ [][Next]_vars

-----------------------------------------------------------------------------
(* Properties *)

PCs == {"idle", "approve", "checkNow", "recheck", "procedurize", "confirm", "settle",
        "procApprove", "begin", "checks", "propose", "supersede", "insert", "open", "map",
        "autonomy", "autoCheck", "promoted"}
Locals == [at: {0} \cup ActIds, made: {0} \cup ActIds, into: {0} \cup InvIds, key: Keys,
           code: Codes \cup {None}, todo: SUBSET Checks, room: Nat]
Rows == [kind: Kinds, key: Keys, inv: {0} \cup InvIds, of: {0} \cup ActIds]

\* The types of the tables, of Smith's memory and of its goroutines.
TypeOK ==
  /\ status \in [ActIds -> Statuses]
  /\ act \in [ActIds -> Rows]
  /\ istatus \in [InvIds -> {"absent", "open", "closed"}]
  /\ trigger \in [InvIds -> Codes \cup {None}]
  /\ openAnomaly \in [Codes -> {0} \cup InvIds]
  /\ closing \subseteq InvIds
  /\ sweeping \in BOOLEAN
  /\ autoRuns \in [Fixable -> Nat]
  /\ pc \in [Threads -> PCs]
  /\ loc \in [Threads -> Locals]
  /\ exec \in [ActIds -> {"none", "spawned", "dispatch", "finalize", "resolve"}]
  /\ dispatched \in [ActIds -> Nat]

\* The operation of a row is started at most once, also across restarts, and
\* never for a row that was rejected or superseded: two operators approve, a
\* third rejects, a sweep or the review supersedes, a restart forgets the
\* executor, and only the compare-and-set of every statement is between them.
RunsOnce ==
  \A i \in ActIds :
    /\ dispatched[i] <= 1
    /\ dispatched[i] = 1 => status[i] \in {"executing"} \cup Ends

\* A dedupe key has at most one pending row: createOrReuseProposal looks up,
\* supersedes and inserts in three statements, and no index of the table
\* forbids a second row; the sweeping flag has to.
OnePendingPerKey ==
  \A i, j \in ActIds :
    /\ status[i] = "pending"
    /\ status[j] = "pending"
    /\ act[i].key = act[j].key
    /\ act[i].key # NoKey
    => i = j

\* A code has at most one open investigation (startAnomalyHook's debounce),
\* although the row, the map and the closing of investigations by operators,
\* executors and the review are separate steps and a restart empties the map.
OneOpenPerCode ==
  \A c \in Codes : \A j, k \in OpenOf(c) : j = k

\* No procedure is started unattended more often than the policy allows in a
\* day, as long as the daemon runs: maybeAutoRunProcedure counts the stamps in
\* one critical section and adds its own in another, with checks in between.
UnattendedCapped ==
  \A c \in Fixable : autoRuns[c] <= MaxAuto

\* The operation of a proposal is started at most once, whether the row is
\* approved itself or replaced by its procedure (actions.go:184-187: the
\* compare-and-set "is what makes double-approve and concurrent approvals
\* correct").
OneRunPerProposal ==
  \A i \in ActIds :
    Cardinality({j \in ActIds : act[j].of = i /\ dispatched[j] > 0}) <= 1

=============================================================================
