------------------------- MODULE ActionBoardProofs -------------------------
(***************************************************************************)
(* Proofs about the action board, for any checks, callers and sweepers,    *)
(* any operator calls, and a restart of the daemon at any point.           *)
(***************************************************************************)
EXTENDS ActionBoard, WellFoundedInduction, FiniteSetTheorems, TLAPS

CallerPCs == {"idle", "approve", "checkNow", "recheck", "procedurize", "confirm", "settle",
              "procApprove"}
\* Inside a sweep, where the flag is held.
ActivePCs == {"checks", "propose", "supersede", "insert", "autonomy", "autoCheck",
              "procedurize", "procApprove", "settle"}
SweeperPCs == {"idle", "begin", "open", "map"} \cup ActivePCs
ReviewPCs == {"idle", "supersede", "insert", "promoted"}
\* Where the local "at" is used.
AtPCs == {"approve", "checkNow", "recheck", "procedurize", "confirm", "settle",
          "procApprove", "supersede", "autonomy", "autoCheck", "promoted"}

(* Thread t may be at p with the locals l.                                 *)
At(t, p, l) ==
  /\ t \in Callers => p \in CallerPCs
  /\ t \in Sweepers => p \in SweeperPCs
  /\ t = Review => p \in ReviewPCs
  /\ p \in AtPCs => l.at \in ActIds
  /\ p = "procApprove" => l.made \in ActIds
  /\ p \in {"open", "map"} => l.code \in Codes
  /\ t \in Sweepers /\ p \in {"supersede", "insert"} =>
       l.room > 0 /\ \E c \in Checks : l.key = CheckKey(c)
  /\ t = Review /\ p \in {"supersede", "insert"} => \E j \in InvIds : l.key = CloseKey(j)

ThreadsTyped ==
  /\ pc \in [Threads -> PCs]
  /\ loc \in [Threads -> Locals]

ThreadsInv == ThreadsTyped /\ \A t \in Threads : At(t, pc[t], loc[t])

RowsTyped ==
  /\ status \in [ActIds -> Statuses]
  /\ act \in [ActIds -> Rows]
  /\ exec \in [ActIds -> {"none", "spawned", "dispatch", "finalize", "resolve"}]
  /\ dispatched \in [ActIds -> Nat]

InvsTyped ==
  /\ istatus \in [InvIds -> {"absent", "open", "closed"}]
  /\ trigger \in [InvIds -> Codes \cup {None}]
  /\ openAnomaly \in [Codes -> {0} \cup InvIds]
  /\ closing \subseteq InvIds

FlagsTyped == sweeping \in BOOLEAN /\ autoRuns \in [Fixable -> Nat]

-----------------------------------------------------------------------------
(* The next ids *)

(* A set of ids that is not empty has a smallest one.                      *)
LEMMA SmallestId ==
  ASSUME NEW S, S \subseteq Nat, S # {}
  PROVE  \E i \in S : \A j \in S : i <= j
<1> DEFINE R == {p \in Nat \X Nat : p[1] < p[2]}
<1>1. IsWellFoundedOn(R, Nat)
  BY NatLessThanWellFounded DEF OpToRel
<1> HIDE DEF R
<1>2. PICK i \in S : \A j \in S : <<j, i>> \notin R
  BY <1>1, WFMin
<1>3. ASSUME NEW j \in S PROVE i <= j
  <2>1. i \in Nat /\ j \in Nat
    OBVIOUS
  <2>2. j < i => <<j, i>> \in R
    BY <2>1 DEF R
  <2> QED
    BY <1>2, <2>1, <2>2
<1> QED
  BY <1>3

(* The insert of an action takes a row that does not exist.                *)
LEMMA NewActFree == FreeActs # {} => NewAct \in FreeActs
<1>1. FreeActs \subseteq Nat
  BY BoundsAssumption DEF FreeActs, ActIds
<1> QED
  BY <1>1, SmallestId DEF NewAct

(* And so does that of an investigation.                                   *)
LEMMA NewInvFree == FreeInvs # {} => NewInv \in FreeInvs
<1>1. FreeInvs \subseteq Nat
  BY BoundsAssumption DEF FreeInvs, InvIds
<1> QED
  BY <1>1, SmallestId DEF NewInv

-----------------------------------------------------------------------------
(* Where the goroutines are *)

(* A goroutine that goes to a legal place leaves all of them in one.       *)
LEMMA GotoPlaced ==
  ASSUME ThreadsInv, NEW t \in Threads, NEW p \in PCs, NEW l \in Locals,
         At(t, p, Kept(l, p)), Goto(t, p, l)
  PROVE  ThreadsInv'
<1>1. Kept(l, p) \in Locals
  BY DEF Kept, Fresh, Locals, Keys
<1>2. pc' = [pc EXCEPT ![t] = p] /\ loc' = [loc EXCEPT ![t] = Kept(l, p)]
  BY DEF Goto
<1>3. ThreadsTyped'
  BY <1>1, <1>2 DEF ThreadsInv, ThreadsTyped
<1>4. ASSUME NEW u \in Threads PROVE At(u, pc'[u], loc'[u])
  <2>1. CASE u = t
    BY <2>1, <1>2 DEF ThreadsInv, ThreadsTyped
  <2>2. CASE u # t
    BY <2>2, <1>2 DEF ThreadsInv, ThreadsTyped
  <2> QED
    BY <2>1, <2>2
<1> QED
  BY <1>3, <1>4 DEF ThreadsInv

(* Leaving for the next call, or the next finding, is always legal.         *)
LEMMA IdlePlaced ==
  ASSUME ThreadsInv, NEW t \in Threads, NEW l \in Locals, Goto(t, "idle", l)
  PROVE  ThreadsInv'
<1>1. At(t, "idle", Kept(l, "idle"))
  BY DEF At, CallerPCs, SweeperPCs, ReviewPCs, AtPCs
<1> QED
  BY <1>1, GotoPlaced DEF PCs

(* A sweeper may always go on to its next finding.                          *)
LEMMA ProposePlaced ==
  ASSUME ThreadsInv, NEW t \in Sweepers, NEW l \in Locals, Goto(t, "propose", l)
  PROVE  ThreadsInv'
<1>1. At(t, "propose", Kept(l, "propose"))
  BY ThreadsAssumption DEF At, SweeperPCs, ActivePCs, AtPCs
<1> QED
  BY <1>1, GotoPlaced DEF PCs, Threads

(* Elsewhere the locals are kept as they are.                              *)
LEMMA StaysPlaced ==
  ASSUME ThreadsInv, NEW t \in Threads, NEW p \in PCs \ {"idle", "propose"},
         NEW l \in Locals, At(t, p, l), Goto(t, p, l)
  PROVE  ThreadsInv'
<1>1. Kept(l, p) = l
  BY DEF Kept
<1> QED
  BY <1>1, GotoPlaced

(* A call starts with locals of the right types.                           *)
LEMMA FreshTyped == Fresh \in Locals
  BY DEF Fresh, Locals, Keys

(* Where the steps that read, approve and re-check go.                     *)
LEMMA CallersPlaced ==
  ASSUME ThreadsInv, RowsTyped, NEW t \in Callers, CallerStep(t)
  PROVE  ThreadsInv'
<1>0. t \in Threads /\ t \notin Sweepers /\ t # Review /\ loc[t] \in Locals
  BY ThreadsAssumption DEF Threads, ThreadsInv, ThreadsTyped
<1>1. ASSUME NEW call \in Calls, NEW i \in ActIds, CallReads(t, call, i)
      PROVE  ThreadsInv'
  <2>1. [Fresh EXCEPT !.at = i] \in Locals /\ [Fresh EXCEPT !.at = i].at = i
    BY FreshTyped DEF Fresh, Locals
  <2>2. call \in {"approve", "checkNow", "recheck", "procedurize"}
    BY <1>1 DEF CallReads, Accepts
  <2>3. Goto(t, call, [Fresh EXCEPT !.at = i])
    BY <1>1 DEF CallReads
  <2>4. At(t, call, [Fresh EXCEPT !.at = i])
    BY <1>0, <2>1, <2>2 DEF At, CallerPCs
  <2> QED
    BY <1>0, <2>1, <2>2, <2>3, <2>4, StaysPlaced DEF PCs
<1>2. CASE ApproveAction(t)
  BY <1>0, <1>2, IdlePlaced DEF ApproveAction
<1>3. CASE ApproveRunbook(t)
  <2>1. pc[t] = "approve" /\ loc[t].at \in ActIds
    BY <1>0, <1>3 DEF ApproveRunbook, ThreadsInv, At, AtPCs
  <2>2. Goto(t, "idle", loc[t]) \/ Goto(t, "confirm", loc[t])
    BY <1>3 DEF ApproveRunbook
  <2>3. At(t, "confirm", loc[t])
    BY <1>0, <2>1 DEF At, CallerPCs
  <2> QED
    BY <1>0, <2>2, <2>3, StaysPlaced, IdlePlaced DEF PCs
<1>4. CASE ConfirmReads(t)
  <2>1. pc[t] = "confirm" /\ loc[t].at \in ActIds
    BY <1>0, <1>4 DEF ConfirmReads, ThreadsInv, At, AtPCs
  <2>2. Goto(t, "idle", loc[t]) \/ Goto(t, "recheck", loc[t])
    BY <1>4 DEF ConfirmReads
  <2>3. At(t, "recheck", loc[t])
    BY <1>0, <2>1 DEF At, CallerPCs
  <2> QED
    BY <1>0, <2>2, <2>3, StaysPlaced, IdlePlaced DEF PCs
<1>5. ASSUME NEW clean \in BOOLEAN, RecheckRunbook(t, clean)
      PROVE  ThreadsInv'
  BY <1>0, <1>5, IdlePlaced DEF RecheckRunbook
<1>6. ASSUME NEW clean \in BOOLEAN, CheckPendingRunbook(t, clean)
      PROVE  ThreadsInv'
  <2>1. pc[t] = "checkNow" /\ loc[t].at \in ActIds
    BY <1>0, <1>6 DEF CheckPendingRunbook, ThreadsInv, At, AtPCs
  <2>2. Goto(t, "idle", loc[t]) \/ Goto(t, "settle", loc[t])
    BY <1>6 DEF CheckPendingRunbook
  <2>3. At(t, "settle", loc[t])
    BY <1>0, <2>1 DEF At, CallerPCs
  <2> QED
    BY <1>0, <2>2, <2>3, StaysPlaced, IdlePlaced DEF PCs
<1>7. ASSUME UNCHANGED <<pc, loc>> PROVE ThreadsInv'
  BY <1>7 DEF ThreadsInv, ThreadsTyped
<1>8. ASSUME NEW i \in ActIds, RejectAction(t, i) PROVE ThreadsInv'
  BY <1>7, <1>8 DEF RejectAction
<1>9. ASSUME NEW k, NEW j, OperatorProposes(t, k, j) PROVE ThreadsInv'
  BY <1>7, <1>9 DEF OperatorProposes
<1>10. ASSUME NEW j \in InvIds, OperatorResolves(t, j) PROVE ThreadsInv'
  BY <1>7, <1>10 DEF OperatorResolves
<1> QED
  BY <1>1, <1>2, <1>3, <1>4, <1>5, <1>6, <1>8, <1>9, <1>10 DEF CallerStep

(* The steps of a sweep.                                                   *)
LEMMA SweepersPlaced ==
  ASSUME ThreadsInv, RowsTyped, InvsTyped, NEW w \in Sweepers, SweeperStep(w)
  PROVE  ThreadsInv'
<1>0. w \in Threads /\ w \notin Callers /\ w # Review /\ loc[w] \in Locals
  BY ThreadsAssumption DEF Threads, ThreadsInv, ThreadsTyped
<1>1. ASSUME NEW j \in {0} \cup InvIds, SweepTakes(w, j) PROVE ThreadsInv'
  <2> DEFINE l == [Fresh EXCEPT !.into = j]
  <2>1. l \in Locals
    BY FreshTyped DEF Locals
  <2>2. Goto(w, "idle", Fresh) \/ Goto(w, "checks", l)
    BY <1>1 DEF SweepTakes
  <2>3. At(w, "checks", l)
    BY <1>0 DEF At, SweeperPCs, ActivePCs, AtPCs
  <2> HIDE DEF l
  <2> QED
    BY <1>0, <2>1, <2>2, <2>3, FreshTyped, StaysPlaced, IdlePlaced DEF PCs
<1>2. CASE SweepEnds(w)
  BY <1>0, <1>2, IdlePlaced DEF SweepEnds
<1>3. ASSUME NEW found \in SUBSET Checks, SweepChecks(w, found) PROVE ThreadsInv'
  <2>1. IsFiniteSet(PendingAuto)
    <3>1. PendingAuto \subseteq 1..MaxActs
      BY DEF PendingAuto, ActIds
    <3>2. IsFiniteSet(1..MaxActs)
      BY BoundsAssumption, FS_Interval
    <3> QED
      BY <3>1, <3>2, FS_Subset
  <2> DEFINE n == Cardinality(PendingAuto)
             r == IF n < MaxOpen THEN MaxOpen - n ELSE 0
  <2>2. n \in Nat
    BY <2>1, FS_CardinalityType
  <2>3. r \in Nat
    BY <2>2, BoundsAssumption
  <2>5. Goto(w, "propose", [loc[w] EXCEPT !.todo = found, !.room = r])
    BY <1>3 DEF SweepChecks
  <2> HIDE DEF n, r
  <2>4. [loc[w] EXCEPT !.todo = found, !.room = r] \in Locals
    BY <1>0, <2>3 DEF Locals
  <2> QED
    BY <2>4, <2>5, ProposePlaced
<1>4. ASSUME NEW c \in Checks, ProposeFrom(w, c) PROVE ThreadsInv'
  <2> DEFINE l == [loc[w] EXCEPT !.todo = @ \ {c}]
             l1 == [l EXCEPT !.key = CheckKey(c)]
             l2(i) == [l EXCEPT !.key = CheckKey(c), !.at = i]
  <2>1. l \in Locals /\ l.room = loc[w].room /\ loc[w].room \in Nat
    BY <1>0 DEF Locals
  <2>2. l1 \in Locals /\ l1.room = l.room /\ l1.key = CheckKey(c)
    BY <2>1 DEF Locals, Keys
  <2>3. ASSUME NEW i \in ActIds
        PROVE  /\ l2(i) \in Locals /\ l2(i).at = i /\ l2(i).room = l.room
               /\ l2(i).key = CheckKey(c)
    BY <2>1 DEF Locals, Keys
  <2> HIDE DEF l
  <2>4. CASE loc[w].room = 0
    BY <1>4, <2>1, <2>4, ProposePlaced DEF ProposeFrom, l
  <2>5. CASE loc[w].room # 0
    <3>1. \/ Goto(w, "propose", l)
          \/ Goto(w, "insert", l1)
          \/ \E i \in ActIds : Goto(w, "supersede", l2(i))
      BY <1>4, <2>5 DEF ProposeFrom, LooksUp, PendingWith, l
    <3> HIDE DEF l1, l2
    <3>2. At(w, "insert", l1)
      BY <1>0, <2>1, <2>2, <2>5 DEF At, SweeperPCs, ActivePCs, AtPCs
    <3>3. ASSUME NEW i \in ActIds PROVE At(w, "supersede", l2(i))
      BY <1>0, <2>1, <2>3, <2>5 DEF At, SweeperPCs, ActivePCs, AtPCs
    <3> QED
      BY <1>0, <2>1, <2>2, <2>3, <3>1, <3>2, <3>3, StaysPlaced, ProposePlaced DEF PCs
  <2> QED
    BY <2>4, <2>5
<1>5. CASE SweepInserts(w)
  <2> DEFINE l == [loc[w] EXCEPT !.at = NewAct, !.room = @ - 1]
  <2>1. CASE FreeActs = {}
    BY <1>0, <1>5, <2>1, ProposePlaced DEF SweepInserts
  <2>2. CASE FreeActs # {}
    <3>1. NewAct \in ActIds
      BY <2>2, NewActFree DEF FreeActs
    <3>2. loc[w].room > 0
      BY <1>0, <1>5 DEF SweepInserts, ThreadsInv, At
    <3>6. loc[w].room \in Nat
      BY <1>0 DEF Locals
    <3>7. loc[w].room - 1 \in Nat
      BY <3>2, <3>6
    <3>3. l \in Locals /\ l.at = NewAct
      BY <1>0, <3>1, <3>7 DEF Locals
    <3>4. Goto(w, "autonomy", l)
      BY <1>5, <2>2 DEF SweepInserts
    <3>5. At(w, "autonomy", l)
      BY <1>0, <3>1, <3>3 DEF At, SweeperPCs, ActivePCs, AtPCs
    <3> HIDE DEF l
    <3> QED
      BY <1>0, <3>3, <3>4, <3>5, StaysPlaced DEF PCs
  <2> QED
    BY <2>1, <2>2
<1>6. CASE AutonomyGate(w)
  <2>1. CASE pc[w] = "autonomy" /\ Goto(w, "autoCheck", loc[w])
    <3>1. At(w, "autoCheck", loc[w])
      BY <1>0, <2>1 DEF ThreadsInv, At, SweeperPCs, ActivePCs, AtPCs
    <3> QED
      BY <1>0, <2>1, <3>1, StaysPlaced DEF PCs
  <2> QED
    BY <1>0, <1>6, <2>1, ProposePlaced DEF AutonomyGate
<1>7. ASSUME NEW failing \in BOOLEAN, AutonomyStamps(w, failing) PROVE ThreadsInv'
  <2>1. CASE pc[w] = "autoCheck" /\ Goto(w, "procedurize", loc[w])
    <3>1. At(w, "procedurize", loc[w])
      BY <1>0, <2>1 DEF ThreadsInv, At, SweeperPCs, ActivePCs, AtPCs
    <3> QED
      BY <1>0, <2>1, <3>1, StaysPlaced DEF PCs
  <2> QED
    BY <1>0, <1>7, <2>1, ProposePlaced DEF AutonomyStamps
<1> QED
  BY <1>1, <1>2, <1>3, <1>4, <1>5, <1>6, <1>7 DEF SweeperStep

(* The steps that callers, sweepers and the review share.                  *)
LEMMA SharedPlaced ==
  ASSUME ThreadsInv, RowsTyped, NEW t \in Threads,
         Settles(t) \/ Supersedes(t) \/ ProcedurizeCreates(t) \/ ProcedurizeApproves(t)
  PROVE  ThreadsInv'
<1>0. loc[t] \in Locals /\ At(t, pc[t], loc[t])
  BY DEF ThreadsInv, ThreadsTyped
<1>1. ASSUME Goto(t, IF t \in Sweepers THEN "propose" ELSE "idle", loc[t])
      PROVE  ThreadsInv'
  BY <1>0, <1>1, IdlePlaced, ProposePlaced
<1>2. CASE Settles(t)
  BY <1>1, <1>2 DEF Settles
<1>3. CASE Supersedes(t)
  <2>1. At(t, "insert", loc[t]) /\ Goto(t, "insert", loc[t])
    BY <1>0, <1>3 DEF Supersedes, At, CallerPCs, SweeperPCs, ActivePCs, ReviewPCs, AtPCs
  <2> QED
    BY <1>0, <2>1, StaysPlaced DEF PCs
<1>4. CASE ProcedurizeCreates(t)
  <2> DEFINE l == [loc[t] EXCEPT !.made = NewAct]
  <2>1. CASE FreeActs = {}
    BY <1>1, <1>4, <2>1 DEF ProcedurizeCreates
  <2>2. CASE FreeActs # {}
    <3>1. NewAct \in ActIds
      BY <2>2, NewActFree DEF FreeActs
    <3>2. l \in Locals /\ l.made = NewAct /\ l.at = loc[t].at
      BY <1>0, <3>1 DEF Locals
    <3>3. pc[t] = "procedurize" /\ Goto(t, "procApprove", l)
      BY <1>4, <2>2 DEF ProcedurizeCreates
    <3> HIDE DEF l
    <3>4. At(t, "procApprove", l)
      BY <1>0, <3>1, <3>2, <3>3
      DEF At, CallerPCs, SweeperPCs, ActivePCs, ReviewPCs, AtPCs
    <3> QED
      BY <3>2, <3>3, <3>4, StaysPlaced DEF PCs
  <2> QED
    BY <2>1, <2>2
<1>5. CASE ProcedurizeApproves(t)
  <2>1. CASE pc[t] = "procApprove" /\ Goto(t, "settle", loc[t])
    <3>1. At(t, "settle", loc[t])
      BY <1>0, <2>1 DEF At, CallerPCs, SweeperPCs, ActivePCs, ReviewPCs, AtPCs
    <3> QED
      BY <1>0, <2>1, <3>1, StaysPlaced DEF PCs
  <2> QED
    BY <1>1, <1>5, <2>1 DEF ProcedurizeApproves
<1> QED
  BY <1>2, <1>3, <1>4, <1>5

(* The anomaly hook, which carries a code until its investigation is known. *)
LEMMA HookPlaced ==
  ASSUME ThreadsInv, InvsTyped,
         (\E c \in Codes : HookReads(c)) \/ HookOpens \/ HookMaps
  PROVE  ThreadsInv'
<1>0. /\ Hook \in Threads /\ Hook \in Sweepers /\ Hook \notin Callers /\ Hook # Review
      /\ loc[Hook] \in Locals /\ At(Hook, pc[Hook], loc[Hook])
  BY ThreadsAssumption DEF Threads, ThreadsInv, ThreadsTyped
<1>1. ASSUME NEW j \in {0} \cup InvIds, Goto(Hook, "begin", [Fresh EXCEPT !.into = j])
      PROVE  ThreadsInv'
  <2>1. [Fresh EXCEPT !.into = j] \in Locals
    BY FreshTyped DEF Locals
  <2>2. At(Hook, "begin", [Fresh EXCEPT !.into = j])
    BY <1>0 DEF At, SweeperPCs, AtPCs
  <2> QED
    BY <1>0, <1>1, <2>1, <2>2, StaysPlaced DEF PCs
<1>2. ASSUME NEW c \in Codes, HookReads(c) PROVE ThreadsInv'
  <2> DEFINE l == [Fresh EXCEPT !.code = c]
  <2>1. CASE openAnomaly[c] # 0
    <3>1. openAnomaly[c] \in {0} \cup InvIds
      BY DEF InvsTyped
    <3> QED
      BY <1>1, <1>2, <2>1, <3>1 DEF HookReads
  <2>2. CASE openAnomaly[c] = 0
    <3>1. l \in Locals /\ l.code = c
      BY FreshTyped DEF Locals
    <3>2. Goto(Hook, "open", l)
      BY <1>2, <2>2 DEF HookReads
    <3> HIDE DEF l
    <3>3. At(Hook, "open", l)
      BY <1>0, <3>1 DEF At, SweeperPCs, ActivePCs, AtPCs
    <3> QED
      BY <1>0, <3>1, <3>2, <3>3, StaysPlaced DEF PCs
  <2> QED
    BY <2>1, <2>2
<1>3. CASE HookOpens
  <2> DEFINE l == [loc[Hook] EXCEPT !.into = NewInv]
  <2>1. CASE FreeInvs = {}
    BY <1>0, <1>3, <2>1, FreshTyped, IdlePlaced DEF HookOpens
  <2>2. CASE FreeInvs # {}
    <3>1. NewInv \in InvIds
      BY <2>2, NewInvFree DEF FreeInvs
    <3>2. l \in Locals /\ l.code = loc[Hook].code
      BY <1>0, <3>1 DEF Locals
    <3>3. pc[Hook] = "open" /\ Goto(Hook, "map", l)
      BY <1>3, <2>2 DEF HookOpens
    <3> HIDE DEF l
    <3>4. At(Hook, "map", l)
      BY <1>0, <3>2, <3>3 DEF At, SweeperPCs, ActivePCs, AtPCs
    <3> QED
      BY <1>0, <3>2, <3>3, <3>4, StaysPlaced DEF PCs
  <2> QED
    BY <2>1, <2>2
<1>4. CASE HookMaps
  <2>1. \E j \in {0} \cup InvIds : Goto(Hook, "begin", [Fresh EXCEPT !.into = j])
    <3>1. loc[Hook].code \in Codes /\ loc[Hook].into \in {0} \cup InvIds
      BY <1>0, <1>4 DEF HookMaps, At, Locals
    <3>2. openAnomaly[loc[Hook].code] \in {0} \cup InvIds
      BY <3>1 DEF InvsTyped
    <3> QED
      BY <1>4, <3>1, <3>2 DEF HookMaps
  <2> QED
    BY <1>1, <2>1
<1> QED
  BY <1>2, <1>3, <1>4

(* The self-review pass.                                                   *)
LEMMA ReviewPlaced ==
  ASSUME ThreadsInv, ReviewStep
  PROVE  ThreadsInv'
<1>0. /\ Review \in Threads /\ Review \notin Callers /\ Review \notin Sweepers
      /\ loc[Review] \in Locals /\ At(Review, pc[Review], loc[Review])
  BY ThreadsAssumption DEF Threads, ThreadsInv, ThreadsTyped
<1>1. CASE ReviewInserts
  BY <1>0, <1>1, IdlePlaced DEF ReviewInserts
<1>2. ASSUME NEW j \in InvIds, ReviewProposes(j) PROVE ThreadsInv'
  <2> DEFINE l1 == [loc[Review] EXCEPT !.key = CloseKey(j)]
             l2(i) == [loc[Review] EXCEPT !.key = CloseKey(j), !.at = i]
  <2>1. l1 \in Locals /\ l1.key = CloseKey(j)
    BY <1>0 DEF Locals, Keys
  <2>2. ASSUME NEW i \in ActIds
        PROVE  l2(i) \in Locals /\ l2(i).at = i /\ l2(i).key = CloseKey(j)
    BY <1>0 DEF Locals, Keys
  <2>3. \/ Goto(Review, "idle", loc[Review])
        \/ Goto(Review, "insert", l1)
        \/ \E i \in ActIds : Goto(Review, "supersede", l2(i))
    BY <1>2 DEF ReviewProposes, LooksUp, PendingWith
  <2> HIDE DEF l1, l2
  <2>4. At(Review, "insert", l1)
    BY <1>0, <2>1 DEF At, ReviewPCs, AtPCs
  <2>5. ASSUME NEW i \in ActIds PROVE At(Review, "supersede", l2(i))
    BY <1>0, <2>2 DEF At, ReviewPCs
  <2> QED
    BY <1>0, <2>1, <2>2, <2>3, <2>4, <2>5, StaysPlaced, IdlePlaced DEF PCs
<1>3. ASSUME NEW i \in ActIds, ReviewPromotes(i) PROVE ThreadsInv'
  <2> DEFINE l == [loc[Review] EXCEPT !.at = i]
  <2>1. l \in Locals /\ l.at = i
    BY <1>0 DEF Locals
  <2>2. Goto(Review, "idle", l) \/ Goto(Review, "promoted", l)
    BY <1>3 DEF ReviewPromotes
  <2> HIDE DEF l
  <2>3. At(Review, "promoted", l)
    BY <1>0, <2>1 DEF At, ReviewPCs
  <2> QED
    BY <1>0, <2>1, <2>2, <2>3, StaysPlaced, IdlePlaced DEF PCs
<1>4. ASSUME NEW i \in ActIds, ReviewSupersedes(i) PROVE ThreadsInv'
  BY <1>4 DEF ReviewSupersedes, ThreadsInv, ThreadsTyped
<1>5. ASSUME NEW clean \in BOOLEAN, ReviewResolves(clean) PROVE ThreadsInv'
  BY <1>0, <1>5, IdlePlaced DEF ReviewResolves
<1> QED
  BY <1>1, <1>2, <1>3, <1>4, <1>5 DEF ReviewStep

(* After a restart nobody is anywhere.                                     *)
LEMMA RestartPlaced ==
  ASSUME NEW old, Restart(old)
  PROVE  ThreadsInv'
<1>1. ASSUME NEW t \in Threads PROVE At(t, "idle", Fresh)
  BY DEF At, CallerPCs, SweeperPCs, ReviewPCs, AtPCs
<1> QED
  BY <1>1, FreshTyped DEF Restart, ThreadsInv, ThreadsTyped, PCs

(* An executor moves no other goroutine.                                   *)
LEMMA ExecMovesNone ==
  ASSUME NEW i \in ActIds, ExecStep(i)
  PROVE  UNCHANGED <<pc, loc, sweeping, autoRuns>>
BY DEF ExecStep, ExecStarts, ExecCannotStart, ExecDispatches, ExecFinalizes, ExecResolves,
       ProcedureEnds

(* Every step leaves every goroutine in a legal place.                     *)
LEMMA ThreadsStep ==
  ASSUME ThreadsInv, RowsTyped, InvsTyped, [Next]_vars
  PROVE  ThreadsInv'
<1>1. ASSUME UNCHANGED <<pc, loc>> PROVE ThreadsInv'
  BY <1>1 DEF ThreadsInv, ThreadsTyped
<1>2. ASSUME NEW j \in InvIds, Unmap(j) PROVE ThreadsInv'
  BY <1>1, <1>2 DEF Unmap
<1>3. CASE UNCHANGED vars
  BY <1>1, <1>3 DEF vars
<1> QED
  BY <1>1, <1>2, <1>3, CallersPlaced, SweepersPlaced, SharedPlaced, HookPlaced, ReviewPlaced,
     RestartPlaced, ExecMovesNone DEF Next

-----------------------------------------------------------------------------
(* The rows and their executors *)

(* What an executor's place says of its row, and when the operation of a   *)
(* row may have been started.                                              *)
ExecInv ==
  \A i \in ActIds :
    /\ status[i] \in {"absent", "pending", "rejected", "superseded"} => exec[i] = "none"
    /\ status[i] \in {"absent", "pending", "approved", "rejected", "superseded"}
         => dispatched[i] = 0
    /\ exec[i] = "spawned" => status[i] = "approved"
    /\ exec[i] = "dispatch" => status[i] = "executing" /\ dispatched[i] = 0
    /\ exec[i] = "finalize" => status[i] = "executing"
    /\ exec[i] = "resolve" => status[i] = "done"
    /\ dispatched[i] <= 1

RowsInv == RowsTyped /\ ExecInv

(* A row never disappears, and never changes what it proposes.             *)
Keeps == \A i \in ActIds :
  status[i] # "absent" => status'[i] # "absent" /\ act'[i] = act[i]

(* No row with a dedupe key becomes pending.                               *)
NoNewPending == \A i \in ActIds :
  status'[i] = "pending" /\ act'[i].key # NoKey => status[i] = "pending" /\ act'[i] = act[i]

(* A new row is pending and nothing executes it.                           *)
LEMMA InsertRows ==
  ASSUME RowsInv, NEW i \in FreeActs, NEW kind \in Kinds, NEW key \in Keys,
         NEW j \in {0} \cup InvIds, NEW of \in ActIds \cup {0},
         CreateAction(i, kind, key, j, of), UNCHANGED execVars
  PROVE  RowsInv' /\ Keeps /\ (key = NoKey => NoNewPending)
<1>1. i \in ActIds /\ status[i] = "absent"
  BY DEF FreeActs
<1>2. RowsTyped' /\ Keeps
  BY <1>1 DEF RowsInv, RowsTyped, CreateAction, execVars, Rows, Statuses, Keeps
<1>4. key = NoKey => NoNewPending
  BY <1>1 DEF RowsInv, RowsTyped, CreateAction, NoNewPending
<1>3. ExecInv'
  BY <1>1 DEF RowsInv, RowsTyped, ExecInv, CreateAction, execVars
<1> QED
  BY <1>2, <1>3, <1>4 DEF RowsInv

(* A row nobody executes is closed, or verified later.                     *)
LEMMA CloseRows ==
  ASSUME RowsInv, NEW i \in ActIds, NEW from, NEW to, CAS(i, from, to), UNCHANGED execVars,
         \/ from = "pending" /\ to \in {"rejected", "superseded", "done_unverified"}
         \/ from = "done_unverified" /\ to = "done"
  PROVE  RowsInv' /\ Keeps /\ NoNewPending
<1>1. RowsTyped' /\ Keeps /\ NoNewPending
  BY DEF RowsInv, RowsTyped, CAS, execVars, Statuses, Keeps, NoNewPending
<1>2. ExecInv'
  BY DEF RowsInv, RowsTyped, ExecInv, CAS, execVars
<1> QED
  BY <1>1, <1>2 DEF RowsInv

(* An approval spawns the one executor of its row.                         *)
LEMMA ApproveRows ==
  ASSUME RowsInv, NEW i \in ActIds, Approve(i)
  PROVE  RowsInv' /\ Keeps /\ NoNewPending
<1>1. RowsTyped' /\ Keeps /\ NoNewPending
  BY DEF RowsInv, RowsTyped, Approve, CAS, Statuses, Keeps, NoNewPending
<1>2. ExecInv'
  BY DEF RowsInv, RowsTyped, ExecInv, Approve, CAS
<1> QED
  BY <1>1, <1>2 DEF RowsInv

(* The executor follows its row from approved to its end.                  *)
LEMMA ExecRows ==
  ASSUME RowsInv, NEW i \in ActIds, ExecStep(i)
  PROVE  RowsInv' /\ Keeps /\ NoNewPending
<1> USE DEF RowsInv, RowsTyped, ExecInv, CAS, Statuses, Keeps, NoNewPending, rowVars
<1>1. CASE ExecStarts(i)
  BY <1>1 DEF ExecStarts
<1>2. CASE ExecCannotStart(i)
  BY <1>2 DEF ExecCannotStart
<1>3. CASE ExecDispatches(i)
  BY <1>3 DEF ExecDispatches
<1>4. ASSUME NEW to \in Ends \cup {"executing"}, ExecFinalizes(i, to)
      PROVE  RowsInv' /\ Keeps /\ NoNewPending
  BY <1>4 DEF ExecFinalizes, Ends
<1>5. ASSUME NEW clean \in BOOLEAN, ExecResolves(i, clean)
      PROVE  RowsInv' /\ Keeps /\ NoNewPending
  BY <1>5 DEF ExecResolves
<1>6. ASSUME NEW to \in Ends, ProcedureEnds(i, to)
      PROVE  RowsInv' /\ Keeps /\ NoNewPending
  BY <1>6 DEF ProcedureEnds, Ends, execVars
<1> QED
  BY <1>1, <1>2, <1>3, <1>4, <1>5, <1>6 DEF ExecStep

(* A restart fails rows whose executor is gone.                            *)
LEMMA RestartRows ==
  ASSUME RowsInv, NEW old \in SUBSET ActIds, Restart(old)
  PROVE  RowsInv' /\ Keeps /\ NoNewPending
<1>1. RowsTyped' /\ Keeps /\ NoNewPending
  BY DEF RowsInv, RowsTyped, Restart, Statuses, Keeps, NoNewPending
<1>2. ExecInv'
  BY DEF RowsInv, RowsTyped, ExecInv, Restart
<1> QED
  BY <1>1, <1>2 DEF RowsInv

(* Steps that touch neither rows nor executors.                            *)
LEMMA SameRows ==
  ASSUME RowsInv, UNCHANGED <<rowVars, execVars>>
  PROVE  RowsInv' /\ Keeps /\ NoNewPending
BY DEF RowsInv, RowsTyped, ExecInv, rowVars, execVars, Keeps, NoNewPending

(* The rows after the step of an operator's call.                          *)
LEMMA CallersRows ==
  ASSUME ThreadsInv, RowsInv, NEW t \in Callers, CallerStep(t)
  PROVE  RowsInv' /\ Keeps /\ NoNewPending
<1>0. pc[t] = "approve" => loc[t].at \in ActIds
  BY DEF ThreadsInv, At, AtPCs, Threads
<1>1. ASSUME NEW call \in Calls, NEW i \in ActIds, CallReads(t, call, i)
      PROVE  RowsInv' /\ Keeps /\ NoNewPending
  BY <1>1, SameRows DEF CallReads
<1>2. CASE ApproveAction(t)
  BY <1>0, <1>2, ApproveRows DEF ApproveAction
<1>3. CASE ApproveRunbook(t)
  BY <1>0, <1>3, CloseRows DEF ApproveRunbook
<1>4. CASE ConfirmReads(t)
  BY <1>4, SameRows DEF ConfirmReads
<1>5. ASSUME NEW clean \in BOOLEAN, RecheckRunbook(t, clean) \/ CheckPendingRunbook(t, clean)
      PROVE  RowsInv' /\ Keeps /\ NoNewPending
  BY <1>5, SameRows DEF RecheckRunbook, CheckPendingRunbook
<1>6. ASSUME NEW i \in ActIds, RejectAction(t, i)
      PROVE  RowsInv' /\ Keeps /\ NoNewPending
  BY <1>6, CloseRows DEF RejectAction
<1>7. ASSUME NEW k \in {"fix", "runbook"}, NEW j \in Named, OperatorProposes(t, k, j)
      PROVE  RowsInv' /\ Keeps /\ NoNewPending
  <2>1. j \in {0} \cup InvIds /\ k \in Kinds /\ NoKey \in Keys
    BY BoundsAssumption DEF InvIds, Kinds, Runbooks, Keys
  <2>2. /\ NewAct \in FreeActs /\ NewAct \in ActIds
        /\ CreateAction(NewAct, k, NoKey, j, NewAct) /\ UNCHANGED execVars
    BY <1>7, NewActFree DEF OperatorProposes, FreeActs
  <2> QED
    BY <2>1, <2>2, InsertRows
<1>8. ASSUME NEW j \in InvIds, OperatorResolves(t, j)
      PROVE  RowsInv' /\ Keeps /\ NoNewPending
  BY <1>8, SameRows DEF OperatorResolves
<1> QED
  BY <1>1, <1>2, <1>3, <1>4, <1>5, <1>6, <1>7, <1>8 DEF CallerStep

(* The insert of a sweep.                                                  *)
LEMMA SweepInsertsRows ==
  ASSUME ThreadsInv, RowsInv, NEW w \in Sweepers, SweepInserts(w)
  PROVE  RowsInv' /\ Keeps
<1>1. CASE FreeActs = {}
  BY <1>1, SameRows DEF SweepInserts
<1>2. CASE FreeActs # {}
  <2>1. loc[w].key \in Keys /\ loc[w].into \in {0} \cup InvIds
    BY DEF ThreadsInv, ThreadsTyped, Threads, Locals
  <2>2. /\ NewAct \in FreeActs /\ NewAct \in ActIds /\ UNCHANGED execVars
        /\ \E k \in Kinds : CreateAction(NewAct, k, loc[w].key, loc[w].into, NewAct)
    BY <1>2, NewActFree DEF SweepInserts, FreeActs, Kinds, Runbooks
  <2> QED
    BY <2>1, <2>2, InsertRows
<1> QED
  BY <1>1, <1>2

(* The insert of a closure by the review.                                  *)
LEMMA ReviewInsertsRows ==
  ASSUME ThreadsInv, RowsInv, ReviewInserts
  PROVE  RowsInv' /\ Keeps
<1>1. CASE FreeActs = {}
  BY <1>1, SameRows DEF ReviewInserts
<1>2. CASE FreeActs # {}
  <2>1. PICK j \in InvIds : loc[Review].key = CloseKey(j)
    BY DEF ReviewInserts, ThreadsInv, At, Threads
  <2>2. loc[Review].key \in Keys /\ loc[Review].key[2] = j
    BY <2>1 DEF Keys, CloseKey
  <2>3. /\ NewAct \in FreeActs /\ NewAct \in ActIds /\ UNCHANGED execVars
        /\ CreateAction(NewAct, "close", loc[Review].key, j, NewAct)
    BY <1>2, <2>2, NewActFree DEF ReviewInserts, FreeActs
  <2>4. "close" \in Kinds
    BY DEF Kinds, Runbooks
  <2> QED
    BY <2>2, <2>3, <2>4, InsertRows
<1> QED
  BY <1>1, <1>2

(* The rows after a step that callers, sweepers and the review share.      *)
LEMMA SharedRows ==
  ASSUME ThreadsInv, RowsInv, NEW t \in Threads,
         Settles(t) \/ Supersedes(t) \/ ProcedurizeCreates(t) \/ ProcedurizeApproves(t)
  PROVE  RowsInv' /\ Keeps /\ NoNewPending
<1>0. /\ pc[t] \in {"settle", "supersede", "procedurize"} => loc[t].at \in ActIds
      /\ pc[t] = "procApprove" => loc[t].made \in ActIds
  BY DEF ThreadsInv, At, AtPCs
<1>1. CASE Settles(t)
  BY <1>0, <1>1, CloseRows DEF Settles
<1>2. CASE Supersedes(t)
  BY <1>0, <1>2, CloseRows DEF Supersedes
<1>3. CASE ProcedurizeCreates(t)
  <2>1. CASE FreeActs = {}
    BY <1>3, <2>1, SameRows DEF ProcedurizeCreates
  <2>2. CASE FreeActs # {}
    <3> DEFINE r == act[loc[t].at]
    <3>1. r \in Rows
      BY <1>0, <1>3 DEF ProcedurizeCreates, RowsInv, RowsTyped
    <3>2. r.inv \in {0} \cup InvIds /\ r.of \in ActIds \cup {0} /\ NoKey \in Keys
      BY <3>1 DEF Rows, Keys
    <3>3. /\ NewAct \in FreeActs /\ UNCHANGED execVars
          /\ CreateAction(NewAct, "procedure", NoKey, r.inv, r.of)
      BY <1>3, <2>2, NewActFree DEF ProcedurizeCreates
    <3>4. "procedure" \in Kinds
      BY DEF Kinds
    <3> HIDE DEF r
    <3> QED
      BY <3>2, <3>3, <3>4, InsertRows
  <2> QED
    BY <2>1, <2>2
<1>4. CASE ProcedurizeApproves(t)
  BY <1>0, <1>4, ApproveRows DEF ProcedurizeApproves
<1> QED
  BY <1>1, <1>2, <1>3, <1>4

(* The remaining steps of sweeps.                                          *)
LEMMA SweepersRows ==
  ASSUME ThreadsInv, RowsInv, NEW w \in Sweepers, SweeperStep(w), ~SweepInserts(w)
  PROVE  RowsInv' /\ Keeps /\ NoNewPending
<1>1. UNCHANGED <<rowVars, execVars>>
  BY DEF SweeperStep, SweepTakes, SweepEnds, SweepChecks, ProposeFrom, AutonomyGate,
         AutonomyStamps
<1> QED
  BY <1>1, SameRows

(* The remaining steps of the review.                                      *)
LEMMA ReviewRows ==
  ASSUME ThreadsInv, RowsInv, ReviewStep, ~ReviewInserts
  PROVE  RowsInv' /\ Keeps /\ NoNewPending
<1>1. ASSUME NEW i \in ActIds, ReviewPromotes(i) \/ ReviewSupersedes(i)
      PROVE  RowsInv' /\ Keeps /\ NoNewPending
  BY <1>1, CloseRows DEF ReviewPromotes, ReviewSupersedes
<1>2. ASSUME (\E j \in InvIds : ReviewProposes(j))
             \/ \E clean \in BOOLEAN : ReviewResolves(clean)
      PROVE  RowsInv' /\ Keeps /\ NoNewPending
  BY <1>2, SameRows DEF ReviewProposes, ReviewResolves
<1> QED
  BY <1>1, <1>2 DEF ReviewStep

(* The hook and the map change no row.                                     *)
LEMMA HookRows ==
  ASSUME RowsInv,
         \/ (\E c \in Codes : HookReads(c)) \/ HookOpens \/ HookMaps
         \/ \E j \in InvIds : Unmap(j)
         \/ UNCHANGED vars
  PROVE  RowsInv' /\ Keeps /\ NoNewPending
<1>1. UNCHANGED <<rowVars, execVars>>
  BY DEF HookReads, HookOpens, HookMaps, Unmap, vars, rowVars, execVars
<1> QED
  BY <1>1, SameRows

(* Only two steps make a row with a dedupe key pending.                    *)
Inserts == ReviewInserts \/ \E w \in Sweepers : SweepInserts(w)

(* Every step keeps the rows and their executors consistent.               *)
LEMMA RowsStep ==
  ASSUME ThreadsInv, RowsInv, [Next]_vars
  PROVE  RowsInv' /\ Keeps /\ (NoNewPending \/ Inserts)
BY CallersRows, SweepersRows, SweepInsertsRows, ReviewInsertsRows, SharedRows, ReviewRows,
   HookRows, ExecRows, RestartRows DEF Next, Inserts

-----------------------------------------------------------------------------
(* One sweep at a time *)

(* Only thread t moves.                                                    *)
Others(t) == \A u \in Threads \ {t} : pc'[u] = pc[u] /\ loc'[u] = loc[u]

(* A goroutine that goes somewhere moves alone.                            *)
LEMMA GotoOthers ==
  ASSUME ThreadsInv, NEW t \in Threads, NEW p, NEW l, Goto(t, p, l)
  PROVE  Others(t) /\ pc'[t] = p /\ loc'[t] = Kept(l, p)
BY DEF ThreadsInv, ThreadsTyped, Goto, Others

(* An operator's call moves no other goroutine.                            *)
LEMMA CallersMove ==
  ASSUME ThreadsInv, NEW t \in Callers, CallerStep(t)
  PROVE  Others(t) /\ UNCHANGED <<sweeping, autoRuns>>
<1>0. t \in Threads
  BY DEF Threads
<1>1. UNCHANGED <<sweeping, autoRuns>> /\ ((\E p, l : Goto(t, p, l)) \/ UNCHANGED <<pc, loc>>)
  BY DEF CallerStep, CallReads, ApproveAction, ApproveRunbook, ConfirmReads, RecheckRunbook,
         CheckPendingRunbook, RejectAction, OperatorProposes, OperatorResolves
<1>2. UNCHANGED <<pc, loc>> => Others(t)
  BY DEF Others
<1> QED
  BY <1>0, <1>1, <1>2, GotoOthers

(* Nor do the shared steps, which a sweeper takes inside its sweep.        *)
LEMMA SharedMove ==
  ASSUME ThreadsInv, NEW t \in Threads,
         Settles(t) \/ Supersedes(t) \/ ProcedurizeCreates(t) \/ ProcedurizeApproves(t)
  PROVE  /\ Others(t) /\ UNCHANGED <<sweeping, autoRuns>> /\ UNCHANGED invVars
         /\ pc[t] \in ActivePCs
         /\ pc'[t] \in {"supersede", "insert", "autonomy", "autoCheck"} => Supersedes(t)
<1>1. /\ UNCHANGED <<sweeping, autoRuns>> /\ UNCHANGED invVars /\ pc[t] \in ActivePCs
      /\ \E p, l : Goto(t, p, l)
  BY DEF Settles, Supersedes, ProcedurizeCreates, ProcedurizeApproves, ActivePCs
<1>2. Others(t)
  BY <1>1, GotoOthers
<1>3. pc'[t] \in {"supersede", "insert", "autonomy", "autoCheck"} => Supersedes(t)
  BY DEF ThreadsInv, ThreadsTyped, Goto, Settles, ProcedurizeCreates, ProcedurizeApproves
<1> QED
  BY <1>1, <1>2, <1>3

(* The hook outside its sweep.                                             *)
LEMMA HookMove ==
  ASSUME ThreadsInv, (\E c \in Codes : HookReads(c)) \/ HookOpens \/ HookMaps
  PROVE  /\ Others(Hook) /\ UNCHANGED <<sweeping, autoRuns>> /\ UNCHANGED <<rowVars, execVars>>
         /\ pc'[Hook] \in {"idle", "begin", "open", "map"}
<1>1. /\ UNCHANGED <<sweeping, autoRuns>> /\ UNCHANGED <<rowVars, execVars>>
      /\ \E p \in {"idle", "begin", "open", "map"} : \E l : Goto(Hook, p, l)
  BY DEF HookReads, HookOpens, HookMaps
<1> QED
  BY <1>1, GotoOthers, ThreadsAssumption DEF Threads

(* The review.                                                             *)
LEMMA ReviewMove ==
  ASSUME ThreadsInv, ReviewStep
  PROVE  Others(Review) /\ UNCHANGED <<sweeping, autoRuns>>
<1>0. Review \in Threads
  BY DEF Threads
<1>1. /\ UNCHANGED <<sweeping, autoRuns>>
      /\ (\E p, l : Goto(Review, p, l)) \/ UNCHANGED <<pc, loc>>
  BY DEF ReviewStep, ReviewInserts, ReviewProposes, LooksUp, ReviewPromotes, ReviewSupersedes,
         ReviewResolves
<1>2. UNCHANGED <<pc, loc>> => Others(Review)
  BY DEF Others
<1> QED
  BY <1>0, <1>1, <1>2, GotoOthers

(* A sweeper that is not just taking the flag holds it.                    *)
LEMMA SweepersMove ==
  ASSUME ThreadsInv, NEW w \in Sweepers, SweeperStep(w)
  PROVE  /\ Others(w) /\ UNCHANGED invVars
         /\ \/ \E j \in {0} \cup InvIds : SweepTakes(w, j)
            \/ pc[w] \in ActivePCs /\ SweepEnds(w)
            \/ pc[w] \in ActivePCs /\ UNCHANGED sweeping
<1>0. w \in Threads
  BY DEF Threads
<1>1. UNCHANGED invVars /\ \E p, l : Goto(w, p, l)
  BY DEF SweeperStep, SweepTakes, SweepEnds, SweepChecks, ProposeFrom, LooksUp, SweepInserts,
         AutonomyGate, AutonomyStamps
<1>2. \/ \E j \in {0} \cup InvIds : SweepTakes(w, j)
      \/ pc[w] \in ActivePCs /\ SweepEnds(w)
      \/ pc[w] \in ActivePCs /\ UNCHANGED sweeping
  BY DEF SweeperStep, SweepEnds, SweepChecks, ProposeFrom, SweepInserts, AutonomyGate,
         AutonomyStamps, ActivePCs
<1> QED
  BY <1>0, <1>1, <1>2, GotoOthers

(* Only the holder of the flag is inside a sweep.                          *)
SweepInv ==
  /\ \A w \in Sweepers : pc[w] \in ActivePCs => sweeping
  /\ \A v, w \in Sweepers : pc[v] \in ActivePCs /\ pc[w] \in ActivePCs => v = w

(* Every step leaves at most one goroutine inside a sweep.                 *)
LEMMA SweepStep ==
  ASSUME ThreadsInv, SweepInv, [Next]_vars
  PROVE  SweepInv'
<1>0. Sweepers \subseteq Threads /\ Hook \in Sweepers /\ Review \notin Sweepers
      /\ \A t \in Callers : t \notin Sweepers
  BY ThreadsAssumption DEF Threads
<1>1. ASSUME NEW t \in Threads, Others(t), UNCHANGED sweeping,
             t \in Sweepers /\ pc'[t] \in ActivePCs => pc[t] \in ActivePCs
      PROVE  SweepInv'
  <2>1. \A u \in Sweepers : pc'[u] \in ActivePCs => pc[u] \in ActivePCs
    BY <1>0, <1>1 DEF Others
  <2> QED
    BY <1>1, <2>1 DEF SweepInv
<1>2. ASSUME UNCHANGED <<pc, sweeping>> PROVE SweepInv'
  BY <1>2 DEF SweepInv
<1>3. ASSUME NEW t \in Callers, CallerStep(t) PROVE SweepInv'
  BY <1>0, <1>1, <1>3, CallersMove DEF Threads
<1>4. ASSUME NEW t \in Threads,
             Settles(t) \/ Supersedes(t) \/ ProcedurizeCreates(t) \/ ProcedurizeApproves(t)
      PROVE  SweepInv'
  BY <1>1, <1>4, SharedMove
<1>5. CASE (\E c \in Codes : HookReads(c)) \/ HookOpens \/ HookMaps
  BY <1>0, <1>1, <1>5, HookMove DEF ActivePCs
<1>6. CASE ReviewStep
  BY <1>0, <1>1, <1>6, ReviewMove DEF Threads
<1>7. ASSUME NEW w \in Sweepers, SweeperStep(w) PROVE SweepInv'
  <2>1. ASSUME NEW j \in {0} \cup InvIds, SweepTakes(w, j) PROVE SweepInv'
    <3>1. CASE sweeping
      <4>1. pc'[w] = "idle" /\ UNCHANGED sweeping /\ Others(w)
        BY <1>0, <2>1, <3>1, GotoOthers DEF SweepTakes
      <4> QED
        BY <1>0, <1>1, <4>1 DEF ActivePCs
    <3>2. CASE ~sweeping
      <4>1. sweeping' = TRUE /\ Others(w)
        BY <1>0, <2>1, <3>2, GotoOthers DEF SweepTakes
      <4>2. \A u \in Sweepers \ {w} : pc'[u] \notin ActivePCs
        BY <1>0, <3>2, <4>1 DEF SweepInv, Others
      <4> QED
        BY <4>1, <4>2 DEF SweepInv
    <3> QED
      BY <3>1, <3>2
  <2>2. CASE pc[w] \in ActivePCs /\ SweepEnds(w)
    <3>1. pc'[w] = "idle" /\ Others(w)
      BY <1>0, <2>2, GotoOthers DEF SweepEnds
    <3>2. \A u \in Sweepers : pc'[u] \notin ActivePCs
      BY <1>0, <2>2, <3>1 DEF SweepInv, Others, ActivePCs
    <3> QED
      BY <3>2 DEF SweepInv
  <2>3. CASE pc[w] \in ActivePCs /\ UNCHANGED sweeping
    BY <1>0, <1>1, <1>7, <2>3, SweepersMove
  <2> QED
    BY <1>7, <2>1, <2>2, <2>3, SweepersMove
<1>8. ASSUME NEW old, Restart(old) PROVE SweepInv'
  BY <1>0, <1>8 DEF Restart, SweepInv, ActivePCs
<1>9. ASSUME (\E j \in InvIds : Unmap(j)) \/ UNCHANGED vars PROVE SweepInv'
  BY <1>2, <1>9 DEF Unmap, vars
<1>10. ASSUME NEW i \in ActIds, ExecStep(i) PROVE SweepInv'
  BY <1>2, <1>10, ExecMovesNone
<1> QED
  BY <1>3, <1>4, <1>5, <1>6, <1>7, <1>8, <1>9, <1>10 DEF Next

-----------------------------------------------------------------------------
(* One pending row for a dedupe key *)

(* Thread t at p with locals l: when it is about to insert, no row with    *)
(* its key is pending but the one it supersedes first.                     *)
Claims(t, p, l) ==
  /\ p = "supersede" => PendingWith(l.key) \subseteq {l.at}
  /\ p = "insert" => PendingWith(l.key) = {}

KeyInv == \A t \in Threads : Claims(t, pc[t], loc[t])

(* The keys differ from each other and from none.                          *)
LEMMA KeysDiffer ==
  /\ \A c \in Checks, j \in InvIds : CheckKey(c) # CloseKey(j)
  /\ \A c \in Checks : CheckKey(c) # NoKey /\ CheckKey(c)[1] = "check" /\ CheckKey(c)[2] = c
  /\ \A j \in InvIds : CloseKey(j) # NoKey /\ CloseKey(j)[1] = "close" /\ CloseKey(j)[2] = j
BY DEF CheckKey, CloseKey, NoKey

(* Where no row with a key becomes pending, the claims stay good of all    *)
(* who did not just make theirs.                                           *)
LEMMA ClaimsKept ==
  ASSUME ThreadsInv, RowsInv, ThreadsInv', NoNewPending, NEW u \in Threads,
         Claims(u, pc[u], loc[u]), pc'[u] = pc[u], loc'[u] = loc[u]
  PROVE  Claims(u, pc[u], loc[u])'
<1>1. CASE pc[u] \in {"supersede", "insert"}
  <2>1. loc[u].key # NoKey
    <3>1. u \in Sweepers \/ u = Review
      BY <1>1 DEF ThreadsInv, At, Threads, CallerPCs
    <3> QED
      BY <1>1, <3>1, KeysDiffer DEF ThreadsInv, At
  <2>2. PendingWith(loc[u].key)' \subseteq PendingWith(loc[u].key)
    BY <2>1 DEF NoNewPending, PendingWith
  <2> QED
    BY <2>2 DEF Claims
<1>2. CASE pc[u] \notin {"supersede", "insert"}
  BY <1>2 DEF Claims
<1> QED
  BY <1>1, <1>2

(* The insert itself happens where the claim is that there is no row.      *)
LEMMA InsertUnique ==
  ASSUME RowsInv, OnePendingPerKey, NEW i \in FreeActs, NEW kind, NEW key, NEW j, NEW of,
         CreateAction(i, kind, key, j, of), PendingWith(key) = {}
  PROVE  OnePendingPerKey'
<1>1. i \in ActIds /\ status' = [status EXCEPT ![i] = "pending"]
      /\ act' = [act EXCEPT ![i] = [kind |-> kind, key |-> key, inv |-> j, of |-> of]]
  BY DEF FreeActs, CreateAction
<1>2. act'[i].key = key /\ \A k \in ActIds \ {i} : act'[k] = act[k] /\ status'[k] = status[k]
  BY <1>1 DEF RowsInv, RowsTyped
<1>3. \A k \in ActIds \ {i} : status'[k] = "pending" => act'[k].key # key
  BY <1>2 DEF PendingWith
<1> QED
  BY <1>2, <1>3 DEF OnePendingPerKey

(* Only leaving for the next call or finding loses locals.                 *)
LEMMA KeptElsewhere ==
  ASSUME NEW l, NEW p, p # "idle", p # "propose"
  PROVE  Kept(l, p) = l
BY DEF Kept

(* A lookup claims the key it found free, or the row it found.             *)
LEMMA LooksUpClaims ==
  ASSUME ThreadsInv, OnePendingPerKey, NEW t \in Threads, NEW k \in Keys \ {NoKey},
         NEW l \in Locals, NEW next \in {"propose", "idle"}, LooksUp(t, k, l, next),
         UNCHANGED rowVars
  PROVE  Claims(t, pc[t], loc[t])'
<1>0. \A q : PendingWith(q)' = PendingWith(q)
  BY DEF rowVars, PendingWith
<1>1. ASSUME PendingWith(k) = {}, Goto(t, "insert", [l EXCEPT !.key = k])
      PROVE  Claims(t, pc[t], loc[t])'
  <2> DEFINE m == [l EXCEPT !.key = k]
  <2>1. m.key = k
    BY DEF Locals
  <2>2. pc'[t] = "insert" /\ loc'[t] = m
    BY <1>1, KeptElsewhere, GotoOthers
  <2> HIDE DEF m
  <2> QED
    BY <1>0, <1>1, <2>1, <2>2 DEF Claims
<1>2. ASSUME NEW i \in PendingWith(k), Goto(t, "supersede", [l EXCEPT !.key = k, !.at = i])
      PROVE  Claims(t, pc[t], loc[t])'
  <2> DEFINE m == [l EXCEPT !.key = k, !.at = i]
  <2>1. m.key = k /\ m.at = i
    BY DEF Locals
  <2>2. PendingWith(k) \subseteq {i}
    BY DEF PendingWith, OnePendingPerKey
  <2>3. pc'[t] = "supersede" /\ loc'[t] = m
    BY <1>2, KeptElsewhere, GotoOthers
  <2> HIDE DEF m
  <2> QED
    BY <1>0, <2>1, <2>2, <2>3 DEF Claims
<1>3. ASSUME Goto(t, next, l) PROVE Claims(t, pc[t], loc[t])'
  BY <1>3, GotoOthers DEF Claims
<1> QED
  BY <1>1, <1>2, <1>3 DEF LooksUp

(* A key is superseded before the insert.                                  *)
LEMMA SupersedesClaims ==
  ASSUME ThreadsInv, RowsInv, NEW t \in Threads, Claims(t, pc[t], loc[t]), Supersedes(t)
  PROVE  Claims(t, pc[t], loc[t])'
<1>1. /\ pc[t] = "supersede" /\ loc[t].at \in ActIds
      /\ CAS(loc[t].at, "pending", "superseded") /\ Goto(t, "insert", loc[t])
  BY DEF Supersedes, ThreadsInv, At, AtPCs
<1>2. pc'[t] = "insert" /\ loc'[t] = loc[t]
  BY <1>1, KeptElsewhere, GotoOthers
<1>3. PendingWith(loc[t].key) \subseteq {loc[t].at}
  BY <1>1 DEF Claims
<1>4. PendingWith(loc[t].key)' = {}
  BY <1>1, <1>2, <1>3 DEF PendingWith, CAS, RowsInv, RowsTyped
<1> QED
  BY <1>2, <1>4 DEF Claims

(* Where no row with a key becomes pending, there is still one for a key.  *)
LEMMA StillUnique ==
  ASSUME OnePendingPerKey, NoNewPending
  PROVE  OnePendingPerKey'
BY DEF OnePendingPerKey, NoNewPending

KeysInv == KeyInv /\ OnePendingPerKey

(* The insert of a sweep or of the review, whose claim nobody else can     *)
(* hold: there is one sweep, one review, and their keys differ.            *)
LEMMA InsertStep ==
  ASSUME ThreadsInv, RowsInv, SweepInv, KeysInv, NEW t \in Threads, ThreadsInv',
         pc[t] = "insert", Others(t), pc'[t] \notin {"supersede", "insert"},
         NEW i \in FreeActs, NEW kind, NEW j, NEW of,
         CreateAction(i, kind, loc[t].key, j, of)
  PROVE  KeysInv'
<1>1. PendingWith(loc[t].key) = {}
  BY DEF KeysInv, KeyInv, Claims
<1>2. OnePendingPerKey'
  BY <1>1, InsertUnique DEF KeysInv
<1>3. ASSUME NEW u \in Threads PROVE Claims(u, pc[u], loc[u])'
  <2>1. CASE u = t
    BY <2>1 DEF Claims
  <2>2. CASE u # t /\ pc[u] \notin {"supersede", "insert"}
    BY <2>2 DEF Claims, Others
  <2>3. CASE u # t /\ pc[u] \in {"supersede", "insert"}
    <3>1. loc[u].key # loc[t].key
      <4>1. /\ u \in Sweepers \/ u = Review
            /\ t \in Sweepers \/ t = Review
        BY <2>3 DEF ThreadsInv, At, Threads, CallerPCs
      <4>2. ~(u \in Sweepers /\ t \in Sweepers)
        BY <2>3 DEF SweepInv, ActivePCs
      <4>3. /\ u \in Sweepers => \E c \in Checks : loc[u].key = CheckKey(c)
            /\ t \in Sweepers => \E c \in Checks : loc[t].key = CheckKey(c)
            /\ u = Review => \E k \in InvIds : loc[u].key = CloseKey(k)
            /\ t = Review => \E k \in InvIds : loc[t].key = CloseKey(k)
        BY <2>3 DEF ThreadsInv, At
      <4> QED
        BY <2>3, <4>1, <4>2, <4>3, KeysDiffer
    <3>2. /\ i \in ActIds /\ act'[i].key = loc[t].key
          /\ \A k \in ActIds \ {i} : act'[k] = act[k] /\ status'[k] = status[k]
      BY DEF FreeActs, CreateAction, RowsInv, RowsTyped
    <3>3. pc'[u] = pc[u] /\ loc'[u] = loc[u]
      BY <2>3 DEF Others
    <3>4. PendingWith(loc[u].key)' \subseteq PendingWith(loc[u].key)
      BY <3>1, <3>2, <3>3 DEF PendingWith
    <3>5. Claims(u, pc[u], loc[u])
      BY DEF KeysInv, KeyInv
    <3> QED
      BY <3>3, <3>4, <3>5 DEF Claims
  <2> QED
    BY <2>1, <2>2, <2>3
<1> QED
  BY <1>2, <1>3 DEF KeysInv, KeyInv

(* Every step but an insert keeps the claims of all but at most one        *)
(* goroutine, and that one's own is good.                                  *)
LEMMA MoverStep ==
  ASSUME ThreadsInv, RowsInv, ThreadsInv', KeysInv, NoNewPending, NEW t \in Threads, Others(t),
         Claims(t, pc[t], loc[t])'
  PROVE  KeysInv'
<1>1. ASSUME NEW u \in Threads PROVE Claims(u, pc[u], loc[u])'
  BY ClaimsKept DEF KeysInv, KeyInv, Others
<1> QED
  BY <1>1, StillUnique DEF KeysInv, KeyInv

(* Every step keeps one pending row for a key.                             *)
LEMMA KeysStep ==
  ASSUME ThreadsInv, RowsInv, InvsTyped, SweepInv, KeysInv, [Next]_vars
  PROVE  KeysInv'
<1>0. ThreadsInv' /\ Sweepers \subseteq Threads /\ Hook \in Sweepers /\ Review \in Threads
      /\ Callers \subseteq Threads
  BY ThreadsStep, ThreadsAssumption DEF Threads, RowsInv
<1>1. ASSUME NoNewPending, UNCHANGED <<pc, loc>> PROVE KeysInv'
  BY <1>0, <1>1, ClaimsKept, StillUnique DEF KeysInv, KeyInv
<1>2. ASSUME NEW t \in Callers, CallerStep(t) PROVE KeysInv'
  <2>1. pc'[t] \in CallerPCs
    BY <1>0 DEF ThreadsInv, At
  <2>2. Claims(t, pc[t], loc[t])'
    BY <2>1 DEF Claims, CallerPCs
  <2> QED
    BY <1>0, <1>2, <2>2, MoverStep, CallersMove, CallersRows
<1>3. ASSUME NEW t \in Threads,
             Settles(t) \/ Supersedes(t) \/ ProcedurizeCreates(t) \/ ProcedurizeApproves(t)
      PROVE  KeysInv'
  <2>1. CASE Supersedes(t)
    BY <1>0, <1>3, <2>1, MoverStep, SharedMove, SharedRows, SupersedesClaims DEF KeysInv, KeyInv
  <2>2. CASE ~Supersedes(t)
    <3>1. pc'[t] \notin {"supersede", "insert"}
      BY <1>3, <2>2, SharedMove
    <3> QED
      BY <1>0, <1>3, <3>1, MoverStep, SharedMove, SharedRows DEF Claims
  <2> QED
    BY <2>1, <2>2
<1>4. CASE (\E c \in Codes : HookReads(c)) \/ HookOpens \/ HookMaps
  <2>1. Claims(Hook, pc[Hook], loc[Hook])' /\ Others(Hook)
    BY <1>4, HookMove DEF Claims
  <2> QED
    BY <1>0, <1>4, <2>1, MoverStep, HookRows
<1>5. ASSUME NEW w \in Sweepers, SweeperStep(w), ~SweepInserts(w) PROVE KeysInv'
  <2>1. Claims(w, pc[w], loc[w])'
    <3>1. ASSUME NEW c \in Checks, ProposeFrom(w, c) PROVE Claims(w, pc[w], loc[w])'
      <4> DEFINE l == [loc[w] EXCEPT !.todo = @ \ {c}]
      <4>1. l \in Locals
        BY <1>0 DEF ThreadsInv, ThreadsTyped, Locals
      <4>2. CheckKey(c) \in Keys \ {NoKey}
        BY KeysDiffer DEF Keys
      <4>3. UNCHANGED rowVars /\ (Goto(w, "propose", l) \/ LooksUp(w, CheckKey(c), l, "propose"))
        BY <3>1 DEF ProposeFrom
      <4> HIDE DEF l
      <4>4. Goto(w, "propose", l) => Claims(w, pc[w], loc[w])'
        BY <1>0, GotoOthers DEF Claims
      <4> QED
        BY <1>0, <4>1, <4>2, <4>3, <4>4, LooksUpClaims DEF KeysInv
    <3>2. ASSUME \A c \in Checks : ~ProposeFrom(w, c)
          PROVE  pc'[w] \notin {"supersede", "insert"}
      <4>1. \E p \in PCs \ {"supersede", "insert"} : \E l : Goto(w, p, l)
        BY <1>5, <3>2 DEF SweeperStep, SweepTakes, SweepEnds, SweepChecks, AutonomyGate,
                          AutonomyStamps, PCs
      <4> QED
        BY <1>0, <4>1, GotoOthers
    <3> QED
      BY <3>1, <3>2 DEF Claims
  <2> QED
    BY <1>0, <1>5, <2>1, MoverStep, SweepersMove, SweepersRows
<1>6. ASSUME NEW w \in Sweepers, SweepInserts(w) PROVE KeysInv'
  <2>0. \E p \in {"propose", "autonomy"} : \E l : Goto(w, p, l)
    BY <1>6 DEF SweepInserts
  <2>1. Others(w) /\ pc'[w] \notin {"supersede", "insert"} /\ pc[w] = "insert"
    BY <1>0, <1>6, <2>0, GotoOthers DEF SweepInserts
  <2>2. CASE FreeActs = {}
    BY <1>0, <1>6, <2>1, <2>2, MoverStep, SameRows DEF SweepInserts, Claims
  <2>3. CASE FreeActs # {}
    BY <1>0, <1>6, <2>1, <2>3, InsertStep, NewActFree DEF SweepInserts
  <2> QED
    BY <2>2, <2>3
<1>7. CASE ReviewInserts
  <2>1. Others(Review) /\ pc'[Review] = "idle" /\ pc[Review] = "insert"
    BY <1>0, <1>7, GotoOthers DEF ReviewInserts
  <2>2. CASE FreeActs = {}
    BY <1>0, <1>7, <2>1, <2>2, MoverStep, SameRows DEF ReviewInserts, Claims
  <2>3. CASE FreeActs # {}
    BY <1>0, <1>7, <2>1, <2>3, InsertStep, NewActFree DEF ReviewInserts
  <2> QED
    BY <2>2, <2>3
<1>8. ASSUME ReviewStep, ~ReviewInserts PROVE KeysInv'
  <2>1. Claims(Review, pc[Review], loc[Review])'
    <3>1. ASSUME NEW j \in InvIds, ReviewProposes(j)
          PROVE  Claims(Review, pc[Review], loc[Review])'
      <4>1. loc[Review] \in Locals
        BY <1>0 DEF ThreadsInv, ThreadsTyped
      <4>2. CloseKey(j) \in Keys \ {NoKey}
        BY KeysDiffer DEF Keys
      <4> QED
        BY <1>0, <3>1, <4>1, <4>2, LooksUpClaims DEF ReviewProposes, KeysInv
    <3>2. ASSUME NEW i \in ActIds, ReviewSupersedes(i)
          PROVE  Claims(Review, pc[Review], loc[Review])'
      BY <3>2 DEF ReviewSupersedes, Claims
    <3>3. ASSUME NEW i \in ActIds, ReviewPromotes(i)
          PROVE  Claims(Review, pc[Review], loc[Review])'
      <4>1. \E p \in {"idle", "promoted"} : \E l : Goto(Review, p, l)
        BY <3>3 DEF ReviewPromotes
      <4> QED
        BY <1>0, <4>1, GotoOthers DEF Claims
    <3>4. ASSUME NEW clean \in BOOLEAN, ReviewResolves(clean)
          PROVE  Claims(Review, pc[Review], loc[Review])'
      BY <1>0, <3>4, GotoOthers DEF ReviewResolves, Claims
    <3> QED
      BY <1>8, <3>1, <3>2, <3>3, <3>4 DEF ReviewStep
  <2> QED
    BY <1>0, <1>8, <2>1, MoverStep, ReviewMove, ReviewRows
<1>9. ASSUME NEW i \in ActIds, ExecStep(i) PROVE KeysInv'
  BY <1>1, <1>9, ExecMovesNone, ExecRows
<1>10. ASSUME NEW old \in SUBSET ActIds, Restart(old) PROVE KeysInv'
  <2>1. \A u \in Threads : Claims(u, pc[u], loc[u])'
    BY <1>10 DEF Restart, Claims
  <2> QED
    BY <1>10, <2>1, RestartRows, StillUnique DEF KeysInv, KeyInv
<1>11. ASSUME (\E j \in InvIds : Unmap(j)) \/ UNCHANGED vars PROVE KeysInv'
  BY <1>1, <1>11, HookRows DEF Unmap, vars
<1> QED
  BY <1>2, <1>3, <1>4, <1>5, <1>6, <1>7, <1>8, <1>9, <1>10, <1>11 DEF Next

-----------------------------------------------------------------------------
(* One open investigation for a code *)

(* The map knows every open investigation of a code, or the hook is about  *)
(* to enter it; the hook enters one only for a code the map has none for.  *)
MapInv ==
  /\ \A j \in closing : istatus[j] = "closed"
  /\ \A j \in InvIds : istatus[j] = "open" /\ trigger[j] \in Codes =>
       \/ openAnomaly[trigger[j]] = j
       \/ pc[Hook] = "map" /\ loc[Hook].into = j /\ loc[Hook].code = trigger[j]
  /\ pc[Hook] \in {"open", "map"} => openAnomaly[loc[Hook].code] = 0

InvsInv == InvsTyped /\ MapInv

(* So there is one at most.                                                *)
LEMMA MapIsUnique == ThreadsInv /\ InvsInv => OneOpenPerCode
<1> SUFFICES ASSUME ThreadsInv, InvsInv, NEW c \in Codes, NEW j \in OpenOf(c), NEW k \in OpenOf(c)
             PROVE  j = k
  BY DEF OneOpenPerCode
<1>1. /\ j \in InvIds /\ istatus[j] = "open" /\ trigger[j] = c
      /\ k \in InvIds /\ istatus[k] = "open" /\ trigger[k] = c
  BY DEF OpenOf
<1>2. j # 0 /\ k # 0
  BY <1>1 DEF InvIds
<1> QED
  BY <1>1, <1>2 DEF InvsInv, MapInv

(* Steps that leave the investigations alone, while the hook stays or is   *)
(* not opening one.                                                        *)
LEMMA SameInvs ==
  ASSUME InvsInv, UNCHANGED invVars,
         \/ pc'[Hook] = pc[Hook] /\ loc'[Hook] = loc[Hook]
         \/ pc[Hook] \notin {"open", "map"} /\ pc'[Hook] \notin {"open", "map"}
  PROVE  InvsInv'
BY DEF InvsInv, InvsTyped, MapInv, invVars

(* Closing an investigation leaves one open investigation fewer.           *)
LEMMA ResolveInvs ==
  ASSUME InvsInv, NEW j \in InvIds, ResolveInvestigation(j),
         pc'[Hook] = pc[Hook], loc'[Hook] = loc[Hook]
  PROVE  InvsInv'
BY DEF InvsInv, InvsTyped, MapInv, ResolveInvestigation

(* The end of a re-check closes its investigation or nothing.              *)
LEMMA FinishInvs ==
  ASSUME InvsInv, NEW j \in {0} \cup InvIds, NEW clean \in BOOLEAN, FinishResolution(j, clean),
         pc'[Hook] = pc[Hook], loc'[Hook] = loc[Hook]
  PROVE  InvsInv'
BY ResolveInvs, SameInvs DEF FinishResolution

(* The hook reads the map, inserts the row, and enters it.                 *)
LEMMA HookInvs ==
  ASSUME ThreadsInv, InvsInv, (\E c \in Codes : HookReads(c)) \/ HookOpens \/ HookMaps
  PROVE  InvsInv'
<1>0. Hook \in Threads /\ loc[Hook] \in Locals /\ At(Hook, pc[Hook], loc[Hook])
  BY ThreadsAssumption DEF Threads, ThreadsInv, ThreadsTyped
<1>1. ASSUME NEW c \in Codes, HookReads(c) PROVE InvsInv'
  <2>1. CASE openAnomaly[c] # 0
    <3>1. pc[Hook] = "idle" /\ pc'[Hook] = "begin"
      BY <1>0, <1>1, <2>1, GotoOthers DEF HookReads
    <3> QED
      BY <1>1, <3>1, SameInvs DEF HookReads
  <2>2. CASE openAnomaly[c] = 0
    <3> DEFINE l == [Fresh EXCEPT !.code = c]
    <3>1. l.code = c
      BY FreshTyped DEF Locals
    <3>2. pc[Hook] = "idle" /\ pc'[Hook] = "open" /\ loc'[Hook] = l /\ UNCHANGED invVars
      BY <1>0, <1>1, <2>2, KeptElsewhere, GotoOthers DEF HookReads
    <3> HIDE DEF l
    <3> QED
      BY <2>2, <3>1, <3>2 DEF InvsInv, InvsTyped, MapInv, invVars
  <2> QED
    BY <2>1, <2>2
<1>2. CASE HookOpens
  <2> DEFINE l == [loc[Hook] EXCEPT !.into = NewInv]
  <2>1. CASE FreeInvs = {}
    <3>1. pc[Hook] = "open" /\ pc'[Hook] = "idle" /\ UNCHANGED invVars
      BY <1>0, <1>2, <2>1, GotoOthers DEF HookOpens
    <3> QED
      BY <3>1 DEF InvsInv, InvsTyped, MapInv, invVars
  <2>2. CASE FreeInvs # {}
    <3>1. NewInv \in InvIds /\ istatus[NewInv] = "absent"
      BY <2>2, NewInvFree DEF FreeInvs
    <3>2. l.into = NewInv /\ l.code = loc[Hook].code
      BY <1>0 DEF Locals
    <3>3. /\ pc[Hook] = "open" /\ loc[Hook].code \in Codes
          /\ CreateInvestigation(NewInv, loc[Hook].code)
      BY <1>0, <1>2, <2>2 DEF HookOpens, At
    <3>4. pc'[Hook] = "map" /\ loc'[Hook] = l
      BY <1>0, <1>2, <2>2, KeptElsewhere, GotoOthers DEF HookOpens
    <3> HIDE DEF l
    <3>5. InvsTyped'
      BY <3>1, <3>3 DEF InvsInv, InvsTyped, CreateInvestigation
    <3>6. MapInv'
      BY <3>1, <3>2, <3>3, <3>4 DEF InvsInv, InvsTyped, MapInv, CreateInvestigation
    <3> QED
      BY <3>5, <3>6 DEF InvsInv
  <2> QED
    BY <2>1, <2>2
<1>3. CASE HookMaps
  <2> DEFINE c == loc[Hook].code
  <2>1. pc[Hook] = "map" /\ c \in Codes /\ openAnomaly[c] = 0
    BY <1>0, <1>3 DEF HookMaps, At, InvsInv, MapInv
  <2>2. /\ openAnomaly' = [openAnomaly EXCEPT ![c] = loc[Hook].into]
        /\ UNCHANGED <<istatus, trigger, closing>>
    BY <1>3, <2>1 DEF HookMaps
  <2>3. pc'[Hook] = "begin"
    BY <1>0, <1>3, GotoOthers DEF HookMaps
  <2>4. loc[Hook].into \in {0} \cup InvIds
    BY <1>0 DEF Locals
  <2> HIDE DEF c
  <2>5. \A j \in InvIds : istatus[j] = "open" /\ trigger[j] = c => j = loc[Hook].into
    BY <2>1 DEF InvsInv, MapInv, InvIds
  <2>6. InvsTyped'
    BY <2>2, <2>4 DEF InvsInv, InvsTyped
  <2>7. MapInv'
    <3>1. \A j \in InvIds : istatus[j] = "open" /\ trigger[j] \in Codes /\ trigger[j] # c
                             => openAnomaly[trigger[j]] = j
      BY DEF InvsInv, MapInv, c
    <3> QED
      BY <2>1, <2>2, <2>3, <2>5, <3>1 DEF InvsInv, InvsTyped, MapInv
  <2> QED
    BY <2>6, <2>7 DEF InvsInv
<1> QED
  BY <1>1, <1>2, <1>3

(* A restart finds the one open investigation of every code again.         *)
LEMMA RestartInvs ==
  ASSUME ThreadsInv, InvsInv, NEW old, Restart(old)
  PROVE  InvsInv'
<1>1. ASSUME NEW c \in Codes, NEW j \in OpenOf(c) PROVE Newest(c) = j
  <2>1. OpenOf(c) = {j}
    BY MapIsUnique DEF OneOpenPerCode
  <2>2. j \in Nat
    BY DEF OpenOf, InvIds
  <2>3. Newest(c) \in OpenOf(c)
    BY <2>1, <2>2 DEF Newest
  <2> QED
    BY <2>1, <2>3
<1>2. \A c \in Codes : Reconciled[c] = IF OpenOf(c) = {} THEN 0 ELSE Newest(c)
  BY DEF Reconciled
<1>3. \A c \in Codes : Reconciled[c] \in {0} \cup InvIds
  BY <1>1, <1>2 DEF OpenOf
<1>4. InvsTyped'
  BY <1>3 DEF InvsInv, InvsTyped, Restart, Reconciled
<1>5. \A j \in InvIds : istatus[j] = "open" /\ trigger[j] \in Codes => Reconciled[trigger[j]] = j
  BY <1>1, <1>2 DEF OpenOf
<1>6. pc'[Hook] = "idle"
  BY ThreadsAssumption DEF Restart, Threads
<1>7. MapInv'
  BY <1>5, <1>6 DEF MapInv, Restart
<1> QED
  BY <1>4, <1>7 DEF InvsInv

(* Every step keeps one open investigation for a code.                     *)
LEMMA InvsStep ==
  ASSUME ThreadsInv, RowsInv, InvsInv, [Next]_vars
  PROVE  InvsInv'
<1>0. /\ Hook \in Threads /\ Hook \in Sweepers /\ Hook \notin Callers /\ Hook # Review
      /\ Callers \subseteq Threads /\ Sweepers \subseteq Threads /\ Review \in Threads
  BY ThreadsAssumption DEF Threads
<1>1. ASSUME UNCHANGED invVars, UNCHANGED <<pc, loc>> PROVE InvsInv'
  BY <1>1, SameInvs
<1>2. ASSUME NEW i \in ActIds PROVE act[i].inv \in {0} \cup InvIds
  BY DEF RowsInv, RowsTyped, Rows
<1>3. ASSUME NEW t \in Callers, CallerStep(t) PROVE InvsInv'
  <2>1. pc'[Hook] = pc[Hook] /\ loc'[Hook] = loc[Hook]
    BY <1>0, <1>3, CallersMove DEF Others
  <2>2. pc[t] \in {"recheck", "checkNow"} => loc[t].at \in ActIds
    BY <1>0 DEF ThreadsInv, At, AtPCs
  <2>3. ASSUME NEW clean \in BOOLEAN, RecheckRunbook(t, clean) \/ CheckPendingRunbook(t, clean)
        PROVE  InvsInv'
    <3>1. /\ act[loc[t].at].inv \in {0} \cup InvIds
          /\ FinishResolution(act[loc[t].at].inv, clean)
      BY <1>2, <2>2, <2>3 DEF RecheckRunbook, CheckPendingRunbook
    <3> QED
      BY <2>1, <3>1, FinishInvs
  <2>4. ASSUME NEW j \in InvIds, OperatorResolves(t, j) PROVE InvsInv'
    BY <2>1, <2>4, ResolveInvs DEF OperatorResolves
  <2>5. \/ UNCHANGED invVars
        \/ \E clean \in BOOLEAN : RecheckRunbook(t, clean) \/ CheckPendingRunbook(t, clean)
        \/ \E j \in InvIds : OperatorResolves(t, j)
    BY <1>3 DEF CallerStep, CallReads, ApproveAction, ApproveRunbook, ConfirmReads,
                RejectAction, OperatorProposes
  <2> QED
    BY <2>1, <2>3, <2>4, <2>5, SameInvs
<1>4. ASSUME NEW t \in Threads,
             Settles(t) \/ Supersedes(t) \/ ProcedurizeCreates(t) \/ ProcedurizeApproves(t)
      PROVE  InvsInv'
  <2>1. Others(t) /\ UNCHANGED invVars /\ pc[t] \in ActivePCs
    BY <1>4, SharedMove
  <2>2. t = Hook => pc'[Hook] \notin {"open", "map"}
    <3>1. \E p \in {"idle", "propose", "insert", "procApprove", "settle"} : \E l : Goto(t, p, l)
      BY <1>4 DEF Settles, Supersedes, ProcedurizeCreates, ProcedurizeApproves
    <3> QED
      BY <3>1, GotoOthers
  <2> QED
    BY <1>0, <2>1, <2>2, SameInvs DEF Others, ActivePCs
<1>5. CASE (\E c \in Codes : HookReads(c)) \/ HookOpens \/ HookMaps
  BY <1>5, HookInvs
<1>6. ASSUME NEW w \in Sweepers, SweeperStep(w) PROVE InvsInv'
  <2>1. Others(w) /\ UNCHANGED invVars
    BY <1>6, SweepersMove
  <2>2. pc[w] \notin {"open", "map"} /\ pc'[w] \notin {"open", "map"}
    <3>1. /\ pc[w] \notin {"open", "map"}
          /\ \E p \in PCs \ {"open", "map"} : \E l : Goto(w, p, l)
      BY <1>6 DEF SweeperStep, SweepTakes, SweepEnds, SweepChecks, ProposeFrom, LooksUp,
                  SweepInserts, AutonomyGate, AutonomyStamps, PCs
    <3> QED
      BY <1>0, <3>1, GotoOthers
  <2> QED
    BY <1>0, <2>1, <2>2, SameInvs DEF Others
<1>7. CASE ReviewStep
  <2>1. pc'[Hook] = pc[Hook] /\ loc'[Hook] = loc[Hook]
    BY <1>0, <1>7, ReviewMove DEF Others
  <2>2. ASSUME NEW clean \in BOOLEAN, ReviewResolves(clean) PROVE InvsInv'
    <3>1. /\ act[loc[Review].at].inv \in {0} \cup InvIds
          /\ FinishResolution(act[loc[Review].at].inv, clean)
      BY <1>0, <1>2, <2>2 DEF ReviewResolves, ThreadsInv, At, AtPCs
    <3> QED
      BY <2>1, <3>1, FinishInvs
  <2>3. UNCHANGED invVars \/ \E clean \in BOOLEAN : ReviewResolves(clean)
    BY <1>7 DEF ReviewStep, ReviewInserts, ReviewProposes, ReviewPromotes, ReviewSupersedes
  <2> QED
    BY <2>1, <2>2, <2>3, SameInvs
<1>8. ASSUME NEW i \in ActIds, ExecStep(i) PROVE InvsInv'
  <2>1. UNCHANGED <<pc, loc>>
    BY <1>8, ExecMovesNone
  <2>2. \/ UNCHANGED invVars
        \/ \E clean \in BOOLEAN : FinishResolution(act[i].inv, clean)
    BY <1>8 DEF ExecStep, ExecStarts, ExecCannotStart, ExecDispatches, ExecFinalizes,
                ExecResolves, ProcedureEnds
  <2> QED
    BY <1>1, <1>2, <2>1, <2>2, FinishInvs
<1>9. ASSUME NEW j \in InvIds, Unmap(j) PROVE InvsInv'
  <2>1. istatus[j] = "closed"
    BY <1>9 DEF Unmap, InvsInv, MapInv
  <2>2. pc[Hook] \in {"open", "map"} => loc[Hook].code \in Codes
    BY <1>0 DEF ThreadsInv, At
  <2>3. /\ openAnomaly' = [c \in Codes |-> IF openAnomaly[c] = j THEN 0 ELSE openAnomaly[c]]
        /\ closing' = closing \ {j}
        /\ UNCHANGED <<istatus, trigger, pc, loc>>
    BY <1>9 DEF Unmap
  <2>4. InvsTyped'
    BY <2>3 DEF InvsInv, InvsTyped
  <2>5. MapInv'
    BY <2>1, <2>2, <2>3 DEF InvsInv, InvsTyped, MapInv
  <2> QED
    BY <2>4, <2>5 DEF InvsInv
<1>10. CASE UNCHANGED vars
  BY <1>1, <1>10 DEF vars, invVars
<1> QED
  BY <1>3, <1>4, <1>5, <1>6, <1>7, <1>8, <1>9, <1>10, RestartInvs DEF Next

-----------------------------------------------------------------------------
(* Unattended runs *)

(* The row under the policy's eye is a row of that check, and it is let    *)
(* through only while its check has runs left.                             *)
Watches(w, p, l) ==
  /\ p \in {"autonomy", "autoCheck"} =>
       /\ status[l.at] # "absent"
       /\ \E c \in Checks : /\ act[l.at].key = CheckKey(c)
                            /\ act[l.at].kind = "fix" => c \in Fixable
  /\ p = "autoCheck" =>
       act[l.at].kind = "fix" /\ autoRuns[act[l.at].key[2]] < MaxAuto

AutoInv ==
  /\ autoRuns \in [Fixable -> Nat]
  /\ \A w \in Sweepers : Watches(w, pc[w], loc[w])
  /\ UnattendedCapped

(* A sweeper that stays keeps its row, as rows do not change.              *)
LEMMA WatchesKept ==
  ASSUME ThreadsInv, Keeps, UNCHANGED autoRuns, NEW w \in Sweepers,
         Watches(w, pc[w], loc[w]), pc'[w] = pc[w], loc'[w] = loc[w]
  PROVE  Watches(w, pc[w], loc[w])'
<1>1. pc[w] \in {"autonomy", "autoCheck"} => loc[w].at \in ActIds
  BY DEF ThreadsInv, At, AtPCs, Threads
<1>2. CASE pc[w] \in {"autonomy", "autoCheck"}
  <2>1. status'[loc[w].at] # "absent" /\ act'[loc[w].at] = act[loc[w].at]
    BY <1>1, <1>2 DEF Watches, Keeps
  <2> QED
    BY <2>1 DEF Watches
<1>3. CASE pc[w] \notin {"autonomy", "autoCheck"}
  BY <1>3 DEF Watches
<1> QED
  BY <1>2, <1>3

(* Nothing is stamped unless a sweeper stamps it.                          *)
LEMMA AutoKept ==
  ASSUME ThreadsInv, AutoInv, Keeps, UNCHANGED autoRuns, NEW t \in Threads, Others(t),
         t \in Sweepers => Watches(t, pc[t], loc[t])'
  PROVE  AutoInv'
<1>1. ASSUME NEW w \in Sweepers PROVE Watches(w, pc[w], loc[w])'
  BY WatchesKept DEF AutoInv, Others, Threads
<1> QED
  BY <1>1 DEF AutoInv, UnattendedCapped

(* Every step keeps the unattended runs within the policy.                 *)
LEMMA AutoStep ==
  ASSUME ThreadsInv, RowsInv, InvsTyped, SweepInv, AutoInv, [Next]_vars
  PROVE  AutoInv'
<1>0. /\ Hook \in Threads /\ Hook \in Sweepers /\ Review \in Threads
      /\ Review \notin Sweepers /\ Callers \subseteq Threads /\ Sweepers \subseteq Threads
      /\ \A t \in Callers : t \notin Sweepers
      /\ Keeps
  BY ThreadsAssumption, RowsStep DEF Threads
<1>1. ASSUME UNCHANGED <<pc, loc, autoRuns>> PROVE AutoInv'
  BY <1>0, <1>1, WatchesKept DEF AutoInv, UnattendedCapped
<1>2. ASSUME NEW t \in Callers, CallerStep(t) PROVE AutoInv'
  BY <1>0, <1>2, AutoKept, CallersMove
<1>3. ASSUME NEW t \in Threads,
             Settles(t) \/ Supersedes(t) \/ ProcedurizeCreates(t) \/ ProcedurizeApproves(t)
      PROVE  AutoInv'
  <2>1. pc'[t] \notin {"autonomy", "autoCheck"}
    <3>1. \E p \in {"idle", "propose", "insert", "procApprove", "settle"} : \E l : Goto(t, p, l)
      BY <1>3 DEF Settles, Supersedes, ProcedurizeCreates, ProcedurizeApproves
    <3> QED
      BY <3>1, GotoOthers
  <2>2. Watches(t, pc[t], loc[t])'
    BY <2>1 DEF Watches
  <2> QED
    BY <1>0, <1>3, <2>2, AutoKept, SharedMove
<1>4. CASE (\E c \in Codes : HookReads(c)) \/ HookOpens \/ HookMaps
  <2>1. Watches(Hook, pc[Hook], loc[Hook])' /\ Others(Hook) /\ UNCHANGED autoRuns
    BY <1>4, HookMove DEF Watches
  <2> QED
    BY <1>0, <2>1, AutoKept
<1>5. ASSUME NEW w \in Sweepers, SweeperStep(w) PROVE AutoInv'
  <2>0. loc[w].at \in ActIds \/ pc[w] \notin {"autonomy", "autoCheck"}
    BY <1>0 DEF ThreadsInv, At, AtPCs
  <2>1. ASSUME UNCHANGED autoRuns, \E p \in PCs \ {"autonomy", "autoCheck"} : \E l : Goto(w, p, l)
        PROVE  AutoInv'
    <3>1. pc'[w] \notin {"autonomy", "autoCheck"} /\ Others(w)
      BY <1>0, <2>1, GotoOthers
    <3>2. Watches(w, pc[w], loc[w])'
      BY <3>1 DEF Watches
    <3> QED
      BY <1>0, <2>1, <3>1, <3>2, AutoKept
  <2>2. CASE SweepInserts(w)
    <3>1. CASE FreeActs = {}
      BY <2>1, <2>2, <3>1 DEF SweepInserts, PCs
    <3>2. CASE FreeActs # {}
      <4> DEFINE l == [loc[w] EXCEPT !.at = NewAct, !.room = @ - 1]
                 c == loc[w].key[2]
                 kind == IF c \in Fixable THEN "fix" ELSE "runbook"
      <4>1. NewAct \in ActIds /\ l.at = NewAct
        BY <1>0, <3>2, NewActFree DEF FreeActs, ThreadsInv, ThreadsTyped, Locals
      <4>2. c \in Checks /\ loc[w].key = CheckKey(c)
        BY <1>0, <2>2, KeysDiffer DEF SweepInserts, ThreadsInv, At
      <4>3. /\ Goto(w, "autonomy", l) /\ UNCHANGED autoRuns
            /\ CreateAction(NewAct, kind, loc[w].key, loc[w].into, NewAct)
        BY <2>2, <3>2 DEF SweepInserts
      <4> HIDE DEF l, c
      <4>4. pc'[w] = "autonomy" /\ loc'[w] = l /\ Others(w)
        BY <1>0, <4>3, KeptElsewhere, GotoOthers
      <4>5. status'[NewAct] = "pending" /\ act'[NewAct].key = loc[w].key
            /\ act'[NewAct].kind = kind
        BY <4>1, <4>3 DEF CreateAction, RowsInv, RowsTyped
      <4>6. Watches(w, pc[w], loc[w])'
        BY <4>1, <4>2, <4>4, <4>5 DEF Watches
      <4> QED
        BY <1>0, <4>3, <4>4, <4>6, AutoKept
    <3> QED
      BY <3>1, <3>2
  <2>3. CASE AutonomyGate(w)
    <3>1. CASE Goto(w, "propose", loc[w])
      BY <2>1, <2>3, <3>1 DEF AutonomyGate, PCs
    <3>2. CASE ~Goto(w, "propose", loc[w])
      <4>1. /\ pc[w] = "autonomy" /\ UNCHANGED <<rowVars, autoRuns>>
            /\ act[loc[w].at].kind = "fix" /\ autoRuns[act[loc[w].at].key[2]] < MaxAuto
            /\ Goto(w, "autoCheck", loc[w])
        BY <2>3, <3>2 DEF AutonomyGate
      <4>2. pc'[w] = "autoCheck" /\ loc'[w] = loc[w] /\ Others(w)
        BY <1>0, <4>1, KeptElsewhere, GotoOthers
      <4>3. Watches(w, pc[w], loc[w])
        BY DEF AutoInv
      <4>4. Watches(w, pc[w], loc[w])'
        BY <4>1, <4>2, <4>3 DEF Watches, rowVars
      <4> QED
        BY <1>0, <4>1, <4>2, <4>4, AutoKept
    <3> QED
      BY <3>1, <3>2
  <2>4. ASSUME NEW failing \in BOOLEAN, AutonomyStamps(w, failing) PROVE AutoInv'
    <3>1. CASE ~failing
      BY <2>1, <2>4, <3>1 DEF AutonomyStamps, PCs
    <3>2. CASE failing
      <4> DEFINE c == act[loc[w].at].key[2]
      <4>1. /\ pc[w] = "autoCheck"
            /\ autoRuns' = [autoRuns EXCEPT ![c] = @ + 1]
            /\ \E p \in {"procedurize", "propose"} : Goto(w, p, loc[w])
        BY <2>4, <3>2 DEF AutonomyStamps
      <4>2. c \in Fixable /\ autoRuns[c] < MaxAuto
        BY <4>1, KeysDiffer DEF AutoInv, Watches
      <4> HIDE DEF c
      <4>3. autoRuns' \in [Fixable -> Nat] /\ UnattendedCapped'
        BY <4>1, <4>2, BoundsAssumption DEF AutoInv, UnattendedCapped
      <4>4. Others(w) /\ pc'[w] \in {"procedurize", "propose"}
        BY <1>0, <4>1, GotoOthers
      <4>5. \A u \in Sweepers : pc'[u] \notin {"autonomy", "autoCheck"}
        BY <1>0, <4>1, <4>4 DEF SweepInv, ActivePCs, Others
      <4> QED
        BY <4>3, <4>5 DEF AutoInv, Watches
    <3> QED
      BY <3>1, <3>2
  <2>5. ASSUME NEW j \in {0} \cup InvIds, SweepTakes(w, j) PROVE AutoInv'
    BY <2>1, <2>5 DEF SweepTakes, PCs
  <2>6. ASSUME NEW c \in Checks, ProposeFrom(w, c) PROVE AutoInv'
    BY <2>1, <2>6 DEF ProposeFrom, LooksUp, PCs
  <2>7. ASSUME NEW found \in SUBSET Checks, SweepEnds(w) \/ SweepChecks(w, found)
        PROVE  AutoInv'
    BY <2>1, <2>7 DEF SweepEnds, SweepChecks, PCs
  <2> QED
    BY <1>5, <2>2, <2>3, <2>4, <2>5, <2>6, <2>7 DEF SweeperStep
<1>6. CASE ReviewStep
  BY <1>0, <1>6, AutoKept, ReviewMove
<1>7. ASSUME NEW i \in ActIds, ExecStep(i) PROVE AutoInv'
  BY <1>1, <1>7, ExecMovesNone
<1>8. ASSUME NEW old, Restart(old) PROVE AutoInv'
  BY <1>0, <1>8, BoundsAssumption DEF Restart, AutoInv, UnattendedCapped, Watches
<1>9. ASSUME (\E j \in InvIds : Unmap(j)) \/ UNCHANGED vars PROVE AutoInv'
  BY <1>1, <1>9 DEF Unmap, vars
<1> QED
  BY <1>2, <1>3, <1>4, <1>5, <1>6, <1>7, <1>8, <1>9 DEF Next

-----------------------------------------------------------------------------
(* The inductive invariant and what follows from it *)

IInv == ThreadsInv /\ RowsInv /\ InvsInv /\ SweepInv /\ KeysInv /\ AutoInv /\ sweeping \in BOOLEAN

(* The daemon's first start satisfies the invariant.                       *)
LEMMA InitIInv == Init => IInv
<1> SUFFICES ASSUME Init PROVE IInv
  OBVIOUS
<1>1. ThreadsInv
  BY FreshTyped
  DEF Init, ThreadsInv, ThreadsTyped, At, PCs, CallerPCs, SweeperPCs, ReviewPCs, AtPCs
<1>2. RowsInv
  BY DEF Init, RowsInv, RowsTyped, ExecInv, Statuses, Blank, Rows, Kinds, Keys
<1>3. InvsInv
  BY ThreadsAssumption DEF Init, InvsInv, InvsTyped, MapInv, Threads
<1>4. SweepInv /\ sweeping \in BOOLEAN
  BY DEF Init, SweepInv, ActivePCs, Threads
<1>5. KeysInv
  BY DEF Init, KeysInv, KeyInv, Claims, OnePendingPerKey
<1>6. AutoInv
  BY BoundsAssumption DEF Init, AutoInv, Watches, UnattendedCapped, Threads
<1> QED
  BY <1>1, <1>2, <1>3, <1>4, <1>5, <1>6 DEF IInv

(* The flag is a flag.                                                     *)
LEMMA FlagStep ==
  ASSUME ThreadsInv, sweeping \in BOOLEAN, [Next]_vars
  PROVE  sweeping' \in BOOLEAN
<1>1. ASSUME NEW w \in Sweepers, SweeperStep(w) PROVE sweeping' \in BOOLEAN
  BY <1>1, SweepersMove DEF SweepTakes, SweepEnds
<1>2. (\E j \in InvIds : Unmap(j)) \/ UNCHANGED vars \/ (\E old \in SUBSET ActIds : Restart(old))
      => sweeping' \in BOOLEAN
  BY DEF Unmap, vars, Restart
<1> QED
  BY <1>1, <1>2, CallersMove, SharedMove, HookMove, ReviewMove, ExecMovesNone DEF Next

(* Every step keeps it.                                                    *)
LEMMA StepIInv == IInv /\ [Next]_vars => IInv'
<1> SUFFICES ASSUME IInv, [Next]_vars PROVE IInv'
  OBVIOUS
<1>1. ThreadsInv /\ RowsInv /\ InvsInv /\ SweepInv /\ KeysInv /\ AutoInv /\ InvsTyped /\ RowsTyped
  BY DEF IInv, InvsInv, RowsInv
<1> QED
  BY <1>1, ThreadsStep, RowsStep, InvsStep, SweepStep, KeysStep, AutoStep, FlagStep DEF IInv

(* The model keeps the invariant.                                          *)
THEOREM Invariance == Spec => []IInv
<1> QED
  BY InitIInv, StepIInv, PTL DEF Spec

(* Tables, memory and goroutines of smith are well typed.                  *)
THEOREM TypeCorrect == Spec => []TypeOK
<1>1. IInv => TypeOK
  BY DEF IInv, ThreadsInv, ThreadsTyped, RowsInv, RowsTyped, InvsInv, InvsTyped, AutoInv, TypeOK
<1> QED
  BY <1>1, Invariance, PTL

(* An approved row is started at most once, whoever approves, rejects or   *)
(* supersedes it and whenever the daemon restarts.                         *)
THEOREM RunsOnceAlways == Spec => []RunsOnce
<1>1. IInv => RunsOnce
  BY DEF IInv, RowsInv, RowsTyped, ExecInv, RunsOnce, Statuses, Ends
<1> QED
  BY <1>1, Invariance, PTL

(* A dedupe key never has two pending rows.                                *)
THEOREM OnePending == Spec => []OnePendingPerKey
<1>1. IInv => OnePendingPerKey
  BY DEF IInv, KeysInv
<1> QED
  BY <1>1, Invariance, PTL

(* A code never has two open investigations.                               *)
THEOREM OneOpen == Spec => []OneOpenPerCode
<1>1. IInv => OneOpenPerCode
  BY MapIsUnique DEF IInv
<1> QED
  BY <1>1, Invariance, PTL

(* No check has more unattended runs than the policy allows.               *)
THEOREM Capped == Spec => []UnattendedCapped
<1>1. IInv => UnattendedCapped
  BY DEF IInv, AutoInv
<1> QED
  BY <1>1, Invariance, PTL
=============================================================================
