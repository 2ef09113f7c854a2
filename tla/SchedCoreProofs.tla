--------------------------- MODULE SchedCoreProofs ---------------------------
(***************************************************************************)
(* Proofs about SchedCore, for every set of callers, models and slots and  *)
(* every set of jump caps.                                                 *)
(***************************************************************************)
EXTENDS SchedCore, SequenceTheorems, TLAPS

-----------------------------------------------------------------------------
(* The two sequence operations of the queue, index by index.               *)

(* Inserting e at p shifts everything from p on by one place.              *)
Shifted(q, p, e, i) == IF i < p THEN q[i] ELSE IF i = p THEN e ELSE q[i - 1]
(* What the community modules' InsertAt returns, index by index.           *)
LEMMA InsertAtIndex ==
  ASSUME NEW S, NEW q \in Seq(S), NEW e \in S, NEW p \in 1..(Len(q) + 1)
  PROVE  /\ InsertAt(q, p, e) \in Seq(S)
         /\ Len(InsertAt(q, p, e)) = Len(q) + 1
         /\ \A i \in 1..(Len(q) + 1) :
              InsertAt(q, p, e)[i] = Shifted(q, p, e, i)
<1> DEFINE a == SubSeq(q, 1, p - 1)
           b == SubSeq(q, p, Len(q))
<1>1. /\ a \in Seq(S) /\ Len(a) = p - 1
      /\ \A i \in 1..(p - 1) : a[i] = q[i]
  BY SubSeqProperties
<1>2. /\ b \in Seq(S) /\ Len(b) = Len(q) - p + 1
      /\ \A i \in 1..(Len(q) - p + 1) : b[i] = q[p + i - 1]
  BY SubSeqProperties
<1>3. InsertAt(q, p, e) = (a \o <<e>>) \o b
  BY DEF InsertAt
<1> HIDE DEF a, b
<1> DEFINE h == a \o <<e>>
<1>4. /\ h \in Seq(S) /\ Len(h) = p
      /\ \A i \in 1..p : h[i] = IF i < p THEN a[i] ELSE e
  BY <1>1, ConcatProperties
<1>5. h[p] = e /\ \A i \in 1..(p - 1) : h[i] = q[i]
  BY <1>1, <1>4
<1> HIDE DEF h
<1>6. /\ h \o b \in Seq(S) /\ Len(h \o b) = Len(q) + 1
      /\ \A i \in 1..(Len(q) + 1) :
           (h \o b)[i] = IF i <= p THEN h[i] ELSE b[i - p]
  BY <1>2, <1>4, ConcatProperties
<1>7. ASSUME NEW i \in 1..(Len(q) + 1)
      PROVE  (h \o b)[i] = IF i < p THEN q[i] ELSE IF i = p THEN e ELSE q[i - 1]
  <2>1. CASE i < p   BY <2>1, <1>5, <1>6
  <2>2. CASE i = p   BY <2>2, <1>5, <1>6
  <2>3. CASE i > p
    <3>1. i - p \in 1..(Len(q) - p + 1) /\ p + (i - p) - 1 = i - 1
      BY <2>3
    <3>2. (h \o b)[i] = b[i - p]
      BY <2>3, <1>6
    <3>3. b[i - p] = q[p + (i - p) - 1]
      BY <3>1, <1>2
    <3>4. b[i - p] = q[i - 1]
      BY <3>1, <3>3
    <3>5. ~(i < p) /\ i # p
      BY <2>3
    <3>6. QED  BY <3>2, <3>4, <3>5
  <2>4. i < p \/ i = p \/ i > p
    OBVIOUS
  <2>5. QED  BY <2>1, <2>2, <2>3, <2>4
<1>8. QED
  BY <1>3, <1>6, <1>7 DEF h, Shifted

(* Removing place p closes the gap.                                        *)
LEMMA RemoveAtIndex ==
  ASSUME NEW S, NEW q \in Seq(S), NEW p \in 1..Len(q)
  PROVE  /\ RemoveAt(q, p) \in Seq(S)
         /\ Len(RemoveAt(q, p)) = Len(q) - 1
         /\ \A i \in 1..(Len(q) - 1) :
              RemoveAt(q, p)[i] = IF i < p THEN q[i] ELSE q[i + 1]
<1> DEFINE a == SubSeq(q, 1, p - 1)
           b == SubSeq(q, p + 1, Len(q))
<1>1. /\ a \in Seq(S) /\ Len(a) = p - 1
      /\ \A i \in 1..(p - 1) : a[i] = q[i]
  BY SubSeqProperties
<1>2. /\ b \in Seq(S) /\ Len(b) = Len(q) - p
      /\ \A i \in 1..(Len(q) - p) : b[i] = q[p + i]
  BY SubSeqProperties
<1>3. RemoveAt(q, p) = a \o b
  BY DEF RemoveAt
<1> HIDE DEF a, b
<1>4. /\ a \o b \in Seq(S) /\ Len(a \o b) = Len(q) - 1
      /\ \A i \in 1..(Len(q) - 1) :
           (a \o b)[i] = IF i <= p - 1 THEN a[i] ELSE b[i - (p - 1)]
  BY <1>1, <1>2, ConcatProperties
<1>5. ASSUME NEW i \in 1..(Len(q) - 1)
      PROVE  (a \o b)[i] = IF i < p THEN q[i] ELSE q[i + 1]
  <2>1. CASE i < p   BY <2>1, <1>1, <1>4
  <2>2. CASE i >= p
    <3>1. i - (p - 1) \in 1..(Len(q) - p) /\ p + (i - (p - 1)) = i + 1
      BY <2>2
    <3>2. (a \o b)[i] = b[i - (p - 1)]
      BY <2>2, <1>4
    <3>3. b[i - (p - 1)] = q[p + (i - (p - 1))]
      BY <3>1, <1>2
    <3>4. b[i - (p - 1)] = q[i + 1]
      BY <3>1, <3>3
    <3>5. ~(i < p)
      BY <2>2
    <3>6. QED  BY <3>2, <3>4, <3>5
  <2>3. i < p \/ i >= p
    OBVIOUS
  <2>4. QED  BY <2>1, <2>2, <2>3
<1>6. QED
  BY <1>3, <1>4, <1>5

-----------------------------------------------------------------------------
(* Type correctness.                                                       *)

(* Writing a verdict keeps the plans well formed.                          *)
LEMMA DecideType ==
  ASSUME TypeOK, NEW c \in Callers, NEW v \in Verdicts, Decide(c, v)
  PROVE  plan' \in [Callers -> Plans]
BY DEF TypeOK, Decide, Plans

(* Every action preserves the types.                                       *)
LEMMA TypeStep == TypeOK /\ [Next]_vars => TypeOK'
<1> SUFFICES ASSUME TypeOK, [Next]_vars PROVE TypeOK'
  OBVIOUS
<1> USE DEF TypeOK, Goto, Labels, coreVars, callVars
<1>1. ASSUME NEW c \in Callers, NEW r \in Requests, CallHit(c, r) \/ CallMiss(c, r)
      PROVE  TypeOK'
  <2>1. CASE CallHit(c, r)   BY <2>1 DEF CallHit
  <2>2. CASE CallMiss(c, r)  BY <2>2 DEF CallMiss
  <2>3. QED  BY <1>1, <2>1, <2>2
<1>2. ASSUME NEW c \in Callers, NEW p \in 1..(Len(queue) + 1), Enqueue(c, p)
      PROVE  TypeOK'
  <2>1. queue' \in Seq(Callers)
    BY <1>2, InsertAtIndex DEF Enqueue
  <2>2. jumped' \in [Callers -> Nat]
    BY <1>2 DEF Enqueue
  <2>3. QED  BY <1>2, <2>1, <2>2 DEF Enqueue, PersistTicket
<1>3. ASSUME NEW c \in Callers,
             TimeOut(c) \/ Coalesce(c) \/ StillWaiting(c) \/ TakeToken(c) \/ Sleep(c)
      PROVE  TypeOK'
  BY <1>3 DEF TimeOut, Coalesce, StillWaiting, TakeToken, Sleep, PersistTicket
<1>4. ASSUME NEW c \in Callers,
             AlreadyLoaded(c) \/ Refuse(c) \/ EvictFails(c) \/ LoadFails(c)
      PROVE  TypeOK'
  <2>1. \E v \in Verdicts : Decide(c, v)
    BY <1>4 DEF AlreadyLoaded, Refuse, EvictFails, LoadFails, Verdicts
  <2>2. plan' \in [Callers -> Plans]
    BY <2>1, DecideType
  <2>3. CASE AlreadyLoaded(c)  BY <2>2, <2>3 DEF AlreadyLoaded
  <2>4. CASE Refuse(c)         BY <2>2, <2>4 DEF Refuse
  <2>5. CASE EvictFails(c)     BY <2>2, <2>5 DEF EvictFails
  <2>6. CASE LoadFails(c)      BY <2>2, <2>6 DEF LoadFails
  <2>7. QED  BY <1>4, <2>3, <2>4, <2>5, <2>6
<1>5. ASSUME NEW c \in Callers, NEW s \in Slots, NEW E \in SUBSET Slots, Place(c, s, E)
      PROVE  TypeOK'
  <2>1. plan' \in [Callers -> Plans]
    <3> DEFINE chosen == [plan[c] EXCEPT !.slot = s, !.evict = E]
    <3>1. plan[c] \in Plans /\ plan' = [plan EXCEPT ![c] = chosen]
      BY <1>5 DEF Place
    <3>2. chosen \in Plans
      BY <3>1 DEF Plans
    <3> HIDE DEF chosen
    <3>3. QED  BY <3>1, <3>2
  <2>2. QED  BY <1>5, <2>1 DEF Place
<1>6. ASSUME NEW c \in Callers, NEW e \in Slots, Evict(c, e)
      PROVE  TypeOK'
  BY <1>6 DEF Evict, Plans
<1>7. ASSUME NEW c \in Callers, Load(c)
      PROVE  TypeOK'
  <2>1. plan' \in [Callers -> Plans]
    BY <1>7, DecideType DEF Load, Verdicts
  <2>2. req[c].model \in Models
    BY <1>7 DEF Load, Requests
  <2>3. QED  BY <1>7, <2>1, <2>2 DEF Load
<1>8. ASSUME NEW c \in Callers, Release(c)
      PROVE  TypeOK'
  BY <1>8 DEF Release, PersistTicket, Plans, NoPlan, Verdicts
<1>9. ASSUME NEW c \in Callers, ClearOutcome(c)
      PROVE  TypeOK'
  BY <1>9 DEF ClearOutcome, Forget
<1>10. ASSUME NEW c \in Callers, RecordFailure(c)
       PROVE  TypeOK'
  <2>1. req[c].model \in Models
    BY <1>10 DEF RecordFailure, Requests
  <2>2. QED  BY <1>10, <2>1 DEF RecordFailure
<1>11. ASSUME NEW c \in Callers, Dequeue(c)
       PROVE  TypeOK'
  <2>1. queue' \in Seq(Callers)
    BY <1>11, RemoveAtIndex DEF Dequeue
  <2>2. QED  BY <1>11, <2>1 DEF Dequeue
<1>12. ASSUME NEW c \in Callers, DeleteRow(c)
       PROVE  TypeOK'
  BY <1>12 DEF DeleteRow, PersistDelete, Forget
<1>13. ASSUME NEW S \in SUBSET Slots, Unload(S)
       PROVE  TypeOK'
  BY <1>13 DEF Unload
<1>14. ASSUME NEW k \in JumpCaps, SetConfig(k)
       PROVE  TypeOK'
  BY <1>14 DEF SetConfig
<1>15. CASE Restart
  <2>1. NoPlan \in Plans
    BY DEF NoPlan, Plans, Verdicts
  <2>2. queue' \in Seq(Callers)
    BY <1>15 DEF Restart
  <2>3. QED  BY <1>15, <2>1, <2>2 DEF Restart
<1>16. CASE UNCHANGED vars
  BY <1>16 DEF vars
<1>17. QED
  BY <1>1, <1>2, <1>3, <1>4, <1>5, <1>6, <1>7, <1>8, <1>9, <1>10, <1>11, <1>12,
     <1>13, <1>14, <1>15, <1>16 DEF Next, Step

(* Every variable keeps its type in every behaviour of the scheduler.      *)
THEOREM TypeCorrect == Spec => []TypeOK
<1>1. Init => TypeOK
  <2>1. NoPlan \in Plans
    BY DEF NoPlan, Plans, Verdicts
  <2>2. Init => queue \in Seq(Callers)
    BY DEF Init
  <2>3. ASSUME Init PROVE TypeOK
    <3>1. /\ jumped \in [Callers -> Nat] /\ loadBusy \in BOOLEAN
          /\ cap \in JumpCaps /\ outcomes \subseteq Models /\ rows \subseteq Callers
          /\ mode \in [Slots -> Models \cup {None}]
      BY <2>3 DEF Init
    <3>2. /\ pc \in [Callers -> Labels] /\ plan \in [Callers -> Plans]
          /\ req \in [Callers -> Requests \cup {NoRequest}]
          /\ \A c \in Callers : pc[c] = "idle"
          /\ status \in [Callers -> {"none", "queued", "loading", "loaded", "failed"}]
      BY <2>3, <2>1 DEF Init, Labels
    <3>3. QED  BY <2>3, <2>2, <3>1, <3>2 DEF TypeOK
  <2>4. QED  BY <2>3
<1>2. QED
  BY <1>1, TypeStep, PTL DEF Spec

-----------------------------------------------------------------------------
(* The load token.                                                         *)

(* Only TakeToken lets a call in, when nobody is in, and only Release and a*)
(* restart let it out.                                                     *)
LEMMA OneLoaderStep == TypeOK /\ OneLoader /\ [Next]_vars => OneLoader'
<1> SUFFICES ASSUME TypeOK, OneLoader, [Next]_vars PROVE OneLoader'
  OBVIOUS
<1> USE DEF TypeOK, OneLoader, Holding
<1>1. ASSUME NEW c \in Callers, NEW r \in Requests, CallHit(c, r) \/ CallMiss(c, r)
      PROVE  OneLoader'
  BY <1>1 DEF CallHit, CallMiss, Goto, coreVars
<1>2. ASSUME NEW c \in Callers, NEW p \in 1..(Len(queue) + 1), Enqueue(c, p)
      PROVE  OneLoader'
  BY <1>2 DEF Enqueue, Goto
<1>3. ASSUME NEW c \in Callers, TimeOut(c) \/ Coalesce(c) \/ StillWaiting(c) \/ Sleep(c)
      PROVE  OneLoader'
  <2>1. UNCHANGED loadBusy /\ pc[c] \notin Holding /\ pc'[c] \notin Holding
    BY <1>3 DEF TimeOut, Coalesce, StillWaiting, Sleep, Goto, coreVars
  <2>2. \A d \in Callers : d # c => pc'[d] = pc[d]
    BY <1>3 DEF TimeOut, Coalesce, StillWaiting, Sleep, Goto
  <2>3. QED  BY <2>1, <2>2
<1>4. ASSUME NEW c \in Callers, TakeToken(c)
      PROVE  OneLoader'
  BY <1>4 DEF TakeToken, MyTurn, Goto
<1>5. ASSUME NEW c \in Callers,
             AlreadyLoaded(c) \/ Refuse(c) \/ EvictFails(c) \/ Load(c) \/ LoadFails(c)
      PROVE  OneLoader'
  BY <1>5 DEF AlreadyLoaded, Refuse, EvictFails, Load, LoadFails, Goto, coreVars
<1>6. ASSUME NEW c \in Callers, NEW s \in Slots, NEW E \in SUBSET Slots, Place(c, s, E)
      PROVE  OneLoader'
  BY <1>6 DEF Place, Goto, coreVars
<1>7. ASSUME NEW c \in Callers, NEW e \in Slots, Evict(c, e)
      PROVE  OneLoader'
  BY <1>7 DEF Evict, coreVars
<1>8. ASSUME NEW c \in Callers, Release(c)
      PROVE  OneLoader'
  <2>1. pc[c] \in Holding /\ pc'[c] \notin Holding /\ ~loadBusy'
    BY <1>8 DEF Release
  <2>2. \A d \in Callers : d # c => pc'[d] \notin Holding
    BY <1>8, <2>1 DEF Release
  <2>3. QED  BY <2>1, <2>2
<1>9. ASSUME NEW c \in Callers, ClearOutcome(c)
      PROVE  OneLoader'
  BY <1>9 DEF ClearOutcome, coreVars
<1>10. ASSUME NEW c \in Callers, RecordFailure(c) \/ Dequeue(c) \/ DeleteRow(c)
       PROVE  OneLoader'
  <2>1. UNCHANGED loadBusy /\ pc[c] \notin Holding /\ pc'[c] \notin Holding
    BY <1>10 DEF RecordFailure, Dequeue, DeleteRow, Goto, coreVars
  <2>2. \A d \in Callers : d # c => pc'[d] = pc[d]
    BY <1>10 DEF RecordFailure, Dequeue, DeleteRow, Goto
  <2>3. QED  BY <2>1, <2>2
<1>11. ASSUME NEW S \in SUBSET Slots, Unload(S)
       PROVE  OneLoader'
  BY <1>11 DEF Unload, coreVars
<1>12. ASSUME NEW k \in JumpCaps, SetConfig(k)
       PROVE  OneLoader'
  BY <1>12 DEF SetConfig
<1>13. CASE Restart
  BY <1>13 DEF Restart
<1>14. CASE UNCHANGED vars
  BY <1>14 DEF vars
<1>15. QED
  BY <1>1, <1>2, <1>3, <1>4, <1>5, <1>6, <1>7, <1>8, <1>9, <1>10, <1>11, <1>12,
     <1>13, <1>14 DEF Next, Step

(* Two calls are never between taking and returning the token, and loadBusy*)
(* is set exactly while one is: placements, evictions and loads of the     *)
(* scheduler exclude each other, whatever the number of callers.           *)
THEOREM TokenExclusion == Spec => []OneLoader
<1>1. Init => OneLoader
  BY DEF Init, OneLoader, Holding
<1>2. QED
  BY <1>1, TypeCorrect, OneLoaderStep, PTL DEF Spec

-----------------------------------------------------------------------------
(* The queue discipline.  JumpBound is not inductive by itself: that the   *)
(* tickets behind an insertion may all be charged follows from the first   *)
(* of them having jumps to spare, which takes JumpsDecrease, and that      *)
(* takes the tickets in the queue to be the waiting calls, each once.      *)
QueueInv == TicketsMatchCalls /\ JumpsDecrease /\ JumpBound

(* Where a newcomer is put, and what the others are charged.               *)
LEMMA EnqueueEffect ==
  ASSUME TypeOK, QueueInv, NEW c \in Callers, NEW p \in 1..(Len(queue) + 1),
         Enqueue(c, p)
  PROVE  /\ queue' \in Seq(Callers) /\ Len(queue') = Len(queue) + 1
         /\ \A i \in 1..(Len(queue) + 1) :
              queue'[i] = IF i < p THEN queue[i]
                          ELSE IF i = p THEN c ELSE queue[i - 1]
         /\ \A i \in 1..Len(queue) : queue[i] \in Callers /\ queue[i] # c
         /\ jumped'[c] = 0
         /\ \A i \in 1..Len(queue) :
              jumped'[queue[i]] = IF i >= p /\ ~Small(queue[i])
                                  THEN jumped[queue[i]] + 1 ELSE jumped[queue[i]]
<1>1. queue \in Seq(Callers) /\ queue' = InsertAt(queue, p, c)
  BY DEF TypeOK, Enqueue
<1>2. /\ queue' \in Seq(Callers) /\ Len(queue') = Len(queue) + 1
      /\ \A i \in 1..(Len(queue) + 1) :
           queue'[i] = IF i < p THEN queue[i]
                       ELSE IF i = p THEN c ELSE queue[i - 1]
  <2> DEFINE r == InsertAt(queue, p, c)
  <2>1. /\ r \in Seq(Callers) /\ Len(r) = Len(queue) + 1
        /\ \A i \in 1..(Len(queue) + 1) :
             r[i] = IF i < p THEN queue[i]
                    ELSE IF i = p THEN c ELSE queue[i - 1]
    <3>1. r \in Seq(Callers)  BY <1>1, InsertAtIndex
    <3>2. Len(r) = Len(queue) + 1  BY <1>1, InsertAtIndex
    <3>3. \A i \in 1..(Len(queue) + 1) : r[i] = Shifted(queue, p, c, i)
      BY <1>1, InsertAtIndex
    <3>4. QED  BY <3>1, <3>2, <3>3 DEF Shifted
  <2> HIDE DEF r
  <2>2. queue' = r
    BY <1>1 DEF r
  <2>3. QED  BY <2>1, <2>2
<1>3. ~Queued(c)
  BY DEF QueueInv, TicketsMatchCalls, Enqueue, Goto, Enqueued, TypeOK
<1>4. \A i \in 1..Len(queue) : queue[i] \in Callers /\ queue[i] # c
  BY <1>1, <1>3 DEF Queued
<1>5. jumped'[c] = 0
  BY DEF Enqueue
<1>6. ASSUME NEW i \in 1..Len(queue)
      PROVE  jumped'[queue[i]] = IF i >= p /\ ~Small(queue[i])
                                 THEN jumped[queue[i]] + 1 ELSE jumped[queue[i]]
  <2>1. (\E k \in p..Len(queue) : queue[k] = queue[i] /\ ~Small(queue[i]))
          <=> (i >= p /\ ~Small(queue[i]))
    BY DEF QueueInv, TicketsMatchCalls
  <2>2. QED  BY <1>4, <2>1 DEF Enqueue
<1>7. QED
  BY <1>2, <1>4, <1>5, <1>6

(* The tickets behind a small newcomer all have jumps to spare, and the    *)
(* large ones ahead of it have none.                                       *)
LEMMA InsertionWall ==
  ASSUME TypeOK, QueueInv, NEW c \in Callers, NEW p \in 1..(Len(queue) + 1),
         IsInsertionPoint(c, p), NEW i \in 1..Len(queue), ~Small(queue[i])
  PROVE  /\ i >= p => jumped[queue[i]] < cap
         /\ i < p /\ Small(c) => jumped[queue[i]] >= cap
<1>1. /\ queue \in Seq(Callers) /\ cap \in Nat
      /\ \A j \in 1..Len(queue) : jumped[queue[j]] \in Nat
  BY JumpCapsAssumption DEF TypeOK
<1>2. ASSUME i >= p PROVE jumped[queue[i]] < cap
  <2>1. Jumpable(p)
    BY <1>2 DEF IsInsertionPoint
  <2>2. p \in 1..Len(queue) /\ ~Small(queue[p]) /\ jumped[queue[p]] < cap
    BY <1>2, <2>1 DEF Jumpable
  <2>3. jumped[queue[i]] <= jumped[queue[p]]
    <3>1. CASE i = p  BY <3>1, <1>1
    <3>2. CASE i > p  BY <3>2, <2>2 DEF QueueInv, JumpsDecrease
    <3>3. QED  BY <1>2, <3>1, <3>2
  <2>4. QED  BY <1>1, <2>2, <2>3
<1>3. ASSUME i < p, Small(c) PROVE jumped[queue[i]] >= cap
  <2>1. ~Jumpable(i)
    BY <1>3 DEF IsInsertionPoint
  <2>2. QED  BY <1>1, <2>1 DEF Jumpable
<1>4. QED
  BY <1>2, <1>3

(* The tickets after an enqueue are the former ones and the newcomer.      *)
LEMMA EnqueueMembers ==
  ASSUME TypeOK, QueueInv, NEW c \in Callers, NEW p \in 1..(Len(queue) + 1),
         Enqueue(c, p)
  PROVE  \A d \in Callers : Queued(d)' <=> Queued(d) \/ d = c
<1>1. ASSUME NEW d \in Callers, Queued(d)' PROVE Queued(d) \/ d = c
  <2>1. PICK i \in 1..Len(queue') : queue'[i] = d
    BY <1>1 DEF Queued
  <2>2. i \in 1..(Len(queue) + 1) /\ Len(queue) \in Nat
    BY <2>1, EnqueueEffect DEF TypeOK
  <2>3. queue'[i] = IF i < p THEN queue[i] ELSE IF i = p THEN c ELSE queue[i - 1]
    BY <2>2, EnqueueEffect
  <2>4. CASE i = p  BY <2>1, <2>3, <2>4
  <2>5. CASE i < p
    <3>1. i \in 1..Len(queue) /\ queue[i] = d
      BY <2>1, <2>2, <2>3, <2>5
    <3>2. QED  BY <3>1 DEF Queued
  <2>6. CASE i > p
    <3>1. i - 1 \in 1..Len(queue) /\ queue[i - 1] = d
      BY <2>1, <2>2, <2>3, <2>6
    <3>2. QED  BY <3>1 DEF Queued
  <2>7. QED  BY <2>2, <2>4, <2>5, <2>6
<1>2. Queued(c)'
  BY EnqueueEffect DEF Queued
<1>3. ASSUME NEW d \in Callers, NEW i \in 1..Len(queue), queue[i] = d
      PROVE  Queued(d)'
  <2>1. CASE i < p
    <3>1. i \in 1..(Len(queue) + 1)
      OBVIOUS
    <3>2. queue'[i] = d
      BY <1>3, <2>1, <3>1, EnqueueEffect
    <3>3. QED  BY <3>1, <3>2, EnqueueEffect DEF Queued
  <2>2. CASE i >= p
    <3>1. i + 1 \in 1..(Len(queue) + 1) /\ (i + 1) - 1 = i
      BY <2>2
    <3>2. queue'[i + 1] = d
      BY <1>3, <2>2, <3>1, EnqueueEffect
    <3>3. QED  BY <3>1, <3>2, EnqueueEffect DEF Queued
  <2>3. QED  BY <2>1, <2>2
<1>4. QED  BY <1>1, <1>2, <1>3 DEF Queued

(* A newcomer keeps the queue discipline.                                  *)
LEMMA EnqueueQueue ==
  ASSUME TypeOK, QueueInv, NEW c \in Callers, NEW p \in 1..(Len(queue) + 1),
         Enqueue(c, p)
  PROVE  QueueInv'
<1>1. IsInsertionPoint(c, p) /\ req' = req
  BY DEF Enqueue
<1>2. \A d : Small(d)' = Small(d)
  BY <1>1 DEF Small
<1>3. queue \in Seq(Callers) /\ cap \in JumpCaps /\ cap \in Nat
      /\ \A d \in Callers : jumped[d] \in Nat
  BY JumpCapsAssumption DEF TypeOK
<1>4. TicketsMatchCalls'
  <2>1. ASSUME NEW i \in 1..Len(queue'), NEW j \in 1..Len(queue'), queue'[i] = queue'[j]
        PROVE  i = j
    <3> DEFINE old(n) == IF n < p THEN n ELSE n - 1
    <3>0. \A n \in 1..Len(queue) : queue[n] # c
      BY EnqueueEffect
    <3>1. i \in 1..(Len(queue) + 1) /\ j \in 1..(Len(queue) + 1)
      BY EnqueueEffect
    <3>2. \A n \in 1..(Len(queue) + 1) :
             n # p => old(n) \in 1..Len(queue) /\ queue'[n] = queue[old(n)]
      BY EnqueueEffect
    <3>3. queue'[p] = c
      BY EnqueueEffect
    <3>4. CASE i = p \/ j = p
      <4>1. \A n \in 1..(Len(queue) + 1) : n # p => queue'[n] # c
        BY <3>0, <3>2
      <4>2. QED  BY <2>1, <3>1, <3>3, <3>4, <4>1
    <3>5. CASE i # p /\ j # p
      <4>1. queue[old(i)] = queue[old(j)] /\ old(i) \in 1..Len(queue) /\ old(j) \in 1..Len(queue)
        BY <2>1, <3>1, <3>2, <3>5
      <4>2. old(i) = old(j)
        BY <4>1 DEF QueueInv, TicketsMatchCalls
      <4>3. QED  BY <3>1, <3>5, <4>2
    <3>6. QED  BY <3>4, <3>5
  <2>2. \A d \in Callers : Queued(d)' <=> Queued(d) \/ d = c
    BY EnqueueMembers
  <2>3. \A d \in Callers : pc'[d] = IF d = c THEN "poll" ELSE pc[d]
    BY DEF Enqueue, Goto, TypeOK
  <2>4. QED
    BY <2>1, <2>2, <2>3 DEF QueueInv, TicketsMatchCalls, Enqueued
<1>5. JumpsDecrease'
  <2> SUFFICES ASSUME NEW i \in 1..Len(queue'), NEW j \in 1..Len(queue'), i < j,
                      ~Small(queue'[i]), ~Small(queue'[j])
               PROVE  jumped'[queue'[j]] <= jumped'[queue'[i]]
    BY <1>2 DEF JumpsDecrease
  <2>1. i \in 1..(Len(queue) + 1) /\ j \in 1..(Len(queue) + 1)
    BY EnqueueEffect
  <2>2. i # p
    BY <2>1, <1>1, EnqueueEffect DEF IsInsertionPoint
  <2> DEFINE k == IF i < p THEN i ELSE i - 1
             l == IF j < p THEN j ELSE j - 1
  <2>3. k \in 1..Len(queue) /\ queue'[i] = queue[k] /\ (k < p <=> i < p)
    BY <2>1, <2>2, EnqueueEffect
  <2>4. CASE j = p
    <3>1. queue'[j] = c /\ jumped'[c] = 0
      BY <2>1, <2>4, EnqueueEffect
    <3>2. jumped'[queue[k]] \in Nat
      <4>1. jumped' \in [Callers -> Nat]
        BY <1>3 DEF Enqueue
      <4>2. queue[k] \in Callers
        BY <2>3, EnqueueEffect
      <4>3. QED  BY <4>1, <4>2
    <3>3. QED  BY <2>3, <3>1, <3>2
  <2>5. CASE j # p
    <3>1. l \in 1..Len(queue) /\ queue'[j] = queue[l] /\ (l < p <=> j < p) /\ k < l
      BY <2>1, <2>2, <2>5, EnqueueEffect
    <3>2. jumped[queue[l]] <= jumped[queue[k]]
      BY <2>3, <3>1 DEF QueueInv, JumpsDecrease
    <3>3. /\ jumped'[queue[k]] = IF k >= p THEN jumped[queue[k]] + 1 ELSE jumped[queue[k]]
          /\ jumped'[queue[l]] = IF l >= p THEN jumped[queue[l]] + 1 ELSE jumped[queue[l]]
      BY <2>3, <3>1, EnqueueEffect
    <3>4. jumped[queue[k]] \in Nat /\ jumped[queue[l]] \in Nat
      BY <2>3, <3>1, <1>3
    <3>5. CASE k < p /\ l >= p
      <4>1. Small(c)
        BY <1>1, <3>1, <3>5 DEF IsInsertionPoint
      <4>2. jumped[queue[k]] >= cap
        BY <1>1, <2>3, <3>5, <4>1, InsertionWall
      <4>3. jumped[queue[l]] < cap
        BY <1>1, <3>1, <3>5, InsertionWall
      <4>4. QED  BY <1>3, <2>3, <3>1, <3>3, <3>4, <3>5, <4>2, <4>3
    <3>6. CASE ~(k < p /\ l >= p)
      BY <2>3, <3>1, <3>2, <3>3, <3>4, <3>6
    <3>7. QED  BY <3>5, <3>6
  <2>6. QED  BY <2>4, <2>5
<1>6. JumpBound'
  <2> SUFFICES ASSUME NEW i \in 1..Len(queue')
               PROVE  \E k \in JumpCaps : jumped'[queue'[i]] <= k
    BY DEF JumpBound, Queued
  <2>1. i \in 1..(Len(queue) + 1)
    BY EnqueueEffect
  <2>2. CASE i = p
    BY <1>3, <2>1, <2>2, EnqueueEffect
  <2>3. CASE i # p
    <3> DEFINE k == IF i < p THEN i ELSE i - 1
    <3>1. k \in 1..Len(queue) /\ queue'[i] = queue[k]
      BY <2>1, <2>3, EnqueueEffect
    <3>2. \E m \in JumpCaps : jumped[queue[k]] <= m
      BY <3>1, EnqueueEffect DEF QueueInv, JumpBound, Queued
    <3>3. CASE k >= p /\ ~Small(queue[k])
      <4>1. jumped[queue[k]] < cap
        BY <1>1, <3>1, <3>3, InsertionWall
      <4>2. jumped'[queue[k]] = jumped[queue[k]] + 1 /\ jumped[queue[k]] \in Nat
        BY <1>3, <3>1, <3>3, EnqueueEffect
      <4>3. jumped'[queue[k]] <= cap
        BY <1>3, <4>1, <4>2
      <4>4. QED  BY <1>3, <3>1, <4>3
    <3>4. CASE ~(k >= p /\ ~Small(queue[k]))
      BY <3>1, <3>2, <3>4, EnqueueEffect
    <3>5. QED  BY <3>3, <3>4
  <2>4. QED  BY <2>2, <2>3
<1>7. QED
  BY <1>4, <1>5, <1>6 DEF QueueInv

(* What is left of the queue when a ticket leaves from place p.            *)
Kept(p, n) == IF n < p THEN n ELSE n + 1
(* A ticket that leaves closes the gap and changes nothing else.           *)
LEMMA DequeueEffect ==
  ASSUME TypeOK, QueueInv, NEW c \in Callers, Dequeue(c)
  PROVE  \E p \in 1..Len(queue) :
           /\ queue[p] = c /\ Len(queue) \in Nat
           /\ Len(queue') = Len(queue) - 1
           /\ \A i \in 1..(Len(queue) - 1) :
                /\ queue'[i] = queue[Kept(p, i)]
                /\ Kept(p, i) \in 1..Len(queue) /\ Kept(p, i) # p
                /\ queue[Kept(p, i)] \in Callers /\ queue[Kept(p, i)] # c
<1>1. PICK p \in 1..Len(queue) : queue[p] = c /\ queue' = RemoveAt(queue, p)
  BY DEF Dequeue
<1>2. queue \in Seq(Callers) /\ Len(queue) \in Nat
  BY DEF TypeOK
<1> DEFINE old(n) == IF n < p THEN n ELSE n + 1
<1>3. /\ Len(queue') = Len(queue) - 1
      /\ \A i \in 1..(Len(queue) - 1) : queue'[i] = queue[old(i)]
  <2> DEFINE r == RemoveAt(queue, p)
  <2>1. /\ Len(r) = Len(queue) - 1
        /\ \A i \in 1..(Len(queue) - 1) :
             r[i] = IF i < p THEN queue[i] ELSE queue[i + 1]
    BY <1>2, RemoveAtIndex
  <2> HIDE DEF r
  <2>2. queue' = r
    BY <1>1 DEF r
  <2>3. QED  BY <2>1, <2>2
<1>4. \A i \in 1..(Len(queue) - 1) :
         /\ old(i) \in 1..Len(queue) /\ old(i) # p /\ queue[old(i)] \in Callers
         /\ queue[old(i)] # c
  BY <1>1, <1>2 DEF QueueInv, TicketsMatchCalls
<1>5. QED
  BY <1>1, <1>2, <1>3, <1>4 DEF Kept

(* The tickets after a dequeue are the others.                             *)
LEMMA DequeueMembers ==
  ASSUME TypeOK, QueueInv, NEW c \in Callers, Dequeue(c)
  PROVE  \A d \in Callers : Queued(d)' <=> Queued(d) /\ d # c
<1>1. PICK p \in 1..Len(queue) :
           /\ queue[p] = c /\ Len(queue) \in Nat
           /\ Len(queue') = Len(queue) - 1
           /\ \A i \in 1..(Len(queue) - 1) :
                /\ queue'[i] = queue[Kept(p, i)]
                /\ Kept(p, i) \in 1..Len(queue) /\ Kept(p, i) # p
                /\ queue[Kept(p, i)] \in Callers /\ queue[Kept(p, i)] # c
  BY DequeueEffect
<1> SUFFICES ASSUME NEW d \in Callers PROVE Queued(d)' <=> Queued(d) /\ d # c
  OBVIOUS
<1>2. ASSUME Queued(d)' PROVE Queued(d) /\ d # c
  BY <1>1, <1>2 DEF Queued
<1>3. ASSUME d # c, NEW k \in 1..Len(queue), queue[k] = d PROVE Queued(d)'
  <2>1. k # p
    BY <1>1, <1>3
  <2>2. CASE k < p
    <3>1. k \in 1..(Len(queue) - 1) /\ Kept(p, k) = k
      BY <1>1, <2>2 DEF Kept
    <3>2. QED  BY <1>1, <1>3, <3>1 DEF Queued
  <2>3. CASE k > p
    <3>1. k - 1 \in 1..(Len(queue) - 1) /\ Kept(p, k - 1) = k
      BY <1>1, <2>3 DEF Kept
    <3>2. QED  BY <1>1, <1>3, <3>1 DEF Queued
  <2>4. QED  BY <2>1, <2>2, <2>3
<1>4. QED  BY <1>2, <1>3 DEF Queued

(* A ticket that leaves keeps the order and the counts of the others.      *)
LEMMA DequeueQueue ==
  ASSUME TypeOK, QueueInv, NEW c \in Callers, Dequeue(c)
  PROVE  QueueInv'
<1>1. PICK p \in 1..Len(queue) :
           /\ queue[p] = c /\ Len(queue) \in Nat
           /\ Len(queue') = Len(queue) - 1
           /\ \A i \in 1..(Len(queue) - 1) :
                /\ queue'[i] = queue[Kept(p, i)]
                /\ Kept(p, i) \in 1..Len(queue) /\ Kept(p, i) # p
                /\ queue[Kept(p, i)] \in Callers /\ queue[Kept(p, i)] # c
  BY DequeueEffect
<1> DEFINE old(n) == IF n < p THEN n ELSE n + 1
<1>3. /\ Len(queue') = Len(queue) - 1
      /\ \A i \in 1..(Len(queue) - 1) : queue'[i] = queue[old(i)]
  BY <1>1 DEF Kept
<1>4. \A i \in 1..(Len(queue) - 1) :
         /\ old(i) \in 1..Len(queue) /\ old(i) # p /\ queue[old(i)] \in Callers
         /\ queue[old(i)] # c
  BY <1>1 DEF Kept
<1>5. \A d \in Callers : jumped'[d] = IF d = c THEN 0 ELSE jumped[d]
  BY DEF Dequeue, TypeOK
<1>6. \A i \in 1..(Len(queue) - 1) : jumped'[queue'[i]] = jumped[queue[old(i)]]
  BY <1>3, <1>4, <1>5
<1>7. TicketsMatchCalls'
  <2>1. ASSUME NEW i \in 1..Len(queue'), NEW j \in 1..Len(queue'), queue'[i] = queue'[j]
        PROVE  i = j
    <3>1. i \in 1..(Len(queue) - 1) /\ j \in 1..(Len(queue) - 1)
      BY <1>3
    <3>2. queue[old(i)] = queue[old(j)]
      BY <2>1, <1>3, <3>1
    <3>3. old(i) = old(j)
      BY <1>4, <3>1, <3>2 DEF QueueInv, TicketsMatchCalls
    <3>4. QED  BY <3>1, <3>3
  <2>2. \A d \in Callers : Queued(d)' <=> Queued(d) /\ d # c
    BY DequeueMembers
  <2>3. pc[c] = "dequeue" /\ \A d \in Callers : pc'[d] = IF d = c THEN "deleteRow" ELSE pc[d]
    BY DEF Dequeue, Goto, TypeOK
  <2>4. QED
    BY <2>1, <2>2, <2>3 DEF QueueInv, TicketsMatchCalls, Enqueued
<1>8. JumpsDecrease'
  <2>1. req' = req
    BY DEF Dequeue, callVars
  <2> SUFFICES ASSUME NEW i \in 1..Len(queue'), NEW j \in 1..Len(queue'), i < j,
                      ~Small(queue'[i]), ~Small(queue'[j])
               PROVE  jumped'[queue'[j]] <= jumped'[queue'[i]]
    BY <2>1 DEF JumpsDecrease, Small
  <2>2. i \in 1..(Len(queue) - 1) /\ j \in 1..(Len(queue) - 1)
    BY <1>3
  <2>3. old(i) < old(j) /\ old(i) \in 1..Len(queue) /\ old(j) \in 1..Len(queue)
    BY <2>2, <1>4
  <2>4. ~Small(queue[old(i)]) /\ ~Small(queue[old(j)])
    BY <2>2, <1>3
  <2>5. jumped[queue[old(j)]] <= jumped[queue[old(i)]]
    BY <2>3, <2>4 DEF QueueInv, JumpsDecrease
  <2>6. QED  BY <1>6, <2>2, <2>5
<1>9. JumpBound'
  <2> SUFFICES ASSUME NEW i \in 1..Len(queue')
               PROVE  \E k \in JumpCaps : jumped'[queue'[i]] <= k
    BY DEF JumpBound, Queued
  <2>1. i \in 1..(Len(queue) - 1)
    BY <1>3
  <2>2. Queued(queue[old(i)]) /\ queue[old(i)] \in Callers
    BY <1>4, <2>1 DEF Queued
  <2>3. \E k \in JumpCaps : jumped[queue[old(i)]] <= k
    BY <2>2 DEF QueueInv, JumpBound
  <2>4. QED  BY <1>6, <2>1, <2>3
<1>10. QED
  BY <1>7, <1>8, <1>9 DEF QueueInv

(* A step that leaves queue and counts alone keeps the discipline as long  *)
(* as the waiting calls stay the tickets and keep their requests.          *)
LEMMA QueueFrame ==
  ASSUME TypeOK, QueueInv, queue' = queue, jumped' = jumped,
         \A d \in Callers :
           /\ Queued(d) => req'[d] = req[d]
           /\ pc'[d] \in Enqueued => Queued(d)
           /\ Queued(d) => pc'[d] \in Enqueued \cup {"clear"}
  PROVE  QueueInv'
<1>1. \A i \in 1..Len(queue) : queue[i] \in Callers /\ Queued(queue[i])
  BY DEF TypeOK, Queued
<1>2. \A i \in 1..Len(queue) : Small(queue[i])' = Small(queue[i])
  BY <1>1 DEF Small
<1>3. JumpsDecrease'
  BY <1>2 DEF QueueInv, JumpsDecrease
<1>4. \A d \in Callers : Queued(d)' = Queued(d)
  BY DEF Queued
<1>5. JumpBound' /\ TicketsMatchCalls'
  BY <1>4 DEF QueueInv, JumpBound, TicketsMatchCalls
<1>6. QED
  BY <1>3, <1>5 DEF QueueInv

(* Every step of the scheduler keeps the queue discipline.                 *)
LEMMA QueueStep == TypeOK /\ QueueInv /\ [Next]_vars => QueueInv'
<1> SUFFICES ASSUME TypeOK, QueueInv, [Next]_vars PROVE QueueInv'
  OBVIOUS
<1>0. \A d \in Callers : /\ pc[d] \in Enqueued => Queued(d)
                         /\ Queued(d) => pc[d] \in Enqueued \cup {"clear"}
  BY DEF QueueInv, TicketsMatchCalls
<1>1. ASSUME NEW c \in Callers, NEW r \in Requests, CallHit(c, r) \/ CallMiss(c, r)
      PROVE  QueueInv'
  <2>1. /\ queue' = queue /\ jumped' = jumped /\ pc[c] = "idle"
        /\ pc'[c] \in {"clear", "enqueue"}
        /\ \A d \in Callers : d # c => req'[d] = req[d] /\ pc'[d] = pc[d]
    BY <1>1 DEF CallHit, CallMiss, Goto, coreVars, TypeOK
  <2>2. QED  BY <1>0, <2>1, QueueFrame DEF Enqueued
<1>2. ASSUME NEW c \in Callers, NEW p \in 1..(Len(queue) + 1), Enqueue(c, p)
      PROVE  QueueInv'
  BY <1>2, EnqueueQueue
<1>3. ASSUME NEW c \in Callers, Dequeue(c)
      PROVE  QueueInv'
  BY <1>3, DequeueQueue
<1>4. ASSUME NEW c \in Callers,
             \/ TimeOut(c) \/ Coalesce(c) \/ StillWaiting(c) \/ TakeToken(c) \/ Sleep(c)
             \/ AlreadyLoaded(c) \/ Refuse(c)
             \/ \E s \in Slots, E \in SUBSET Slots : Place(c, s, E)
             \/ \E e \in Slots : Evict(c, e)
             \/ EvictFails(c) \/ Load(c) \/ LoadFails(c) \/ Release(c) \/ RecordFailure(c)
      PROVE  QueueInv'
  <2>1. queue' = queue /\ jumped' = jumped /\ req' = req
    BY <1>4 DEF TimeOut, Coalesce, StillWaiting, TakeToken, Sleep, AlreadyLoaded, Refuse,
       Place, Evict, EvictFails, Load, LoadFails, Release, RecordFailure, coreVars, callVars
  <2>2. \A d \in Callers : d # c => pc'[d] = pc[d]
    BY <1>4 DEF TimeOut, Coalesce, StillWaiting, TakeToken, Sleep, AlreadyLoaded, Refuse,
       Place, Evict, EvictFails, Load, LoadFails, Release, RecordFailure, Goto, TypeOK
  <2>3. pc[c] \in Enqueued /\ pc'[c] \in Enqueued \cup {"clear"}
    BY <1>4 DEF TimeOut, Coalesce, StillWaiting, TakeToken, Sleep, AlreadyLoaded, Refuse,
       Place, Evict, EvictFails, Load, LoadFails, Release, RecordFailure, Goto, TypeOK,
            Enqueued
  <2>4. QED  BY <1>0, <2>1, <2>2, <2>3, QueueFrame
<1>5. ASSUME NEW c \in Callers, ClearOutcome(c)
      PROVE  QueueInv'
  <2>1. /\ queue' = queue /\ jumped' = jumped
        /\ \A d \in Callers : d # c => req'[d] = req[d] /\ pc'[d] = pc[d]
    BY <1>5 DEF ClearOutcome, Forget, coreVars, TypeOK
  <2>2. IF Queued(c) THEN req' = req /\ pc'[c] = "dequeue" ELSE pc'[c] = "idle"
    BY <1>5 DEF ClearOutcome, TypeOK
  <2>3. QED  BY <1>0, <2>1, <2>2, QueueFrame DEF Enqueued
<1>6. ASSUME NEW c \in Callers, DeleteRow(c)
      PROVE  QueueInv'
  <2>1. /\ queue' = queue /\ jumped' = jumped
        /\ pc[c] = "deleteRow" /\ pc'[c] = "idle"
        /\ \A d \in Callers : d # c => req'[d] = req[d] /\ pc'[d] = pc[d]
    BY <1>6 DEF DeleteRow, Goto, Forget, coreVars, TypeOK
  <2>2. QED  BY <1>0, <2>1, QueueFrame DEF Enqueued
<1>7. CASE (\E S \in SUBSET Slots : Unload(S)) \/ (\E k \in JumpCaps : SetConfig(k))
  <2>1. queue' = queue /\ jumped' = jumped /\ req' = req /\ pc' = pc
    BY <1>7 DEF Unload, SetConfig, coreVars, callVars
  <2>2. QED  BY <1>0, <2>1, QueueFrame
<1>8. CASE Restart
  BY <1>8 DEF Restart, QueueInv, TicketsMatchCalls, JumpsDecrease, JumpBound, Queued,
       Enqueued
<1>9. CASE UNCHANGED vars
  BY <1>0, <1>9, QueueFrame DEF vars
<1>10. QED
  BY <1>1, <1>2, <1>3, <1>4, <1>5, <1>6, <1>7, <1>8, <1>9 DEF Next, Step

(* In every behaviour the queue holds the waiting calls, each once, and no *)
(* ticket in it has been jumped more often than a cap in force allowed.    *)
THEOREM QueueDiscipline == Spec => []QueueInv
<1>1. Init => QueueInv
  BY DEF Init, QueueInv, TicketsMatchCalls, JumpsDecrease, JumpBound, Queued, Enqueued
<1>2. QED
  BY <1>1, TypeCorrect, QueueStep, PTL DEF Spec

(* The starvation guard holds for any number of callers and any caps.      *)
THEOREM StarvationGuard == Spec => []JumpBound
<1>1. QueueInv => JumpBound
  BY DEF QueueInv
<1>2. QED
  BY <1>1, QueueDiscipline, PTL

(* No call leaves a ghost ticket, and no waiting call loses its ticket.    *)
THEOREM NoGhostTickets == Spec => []TicketsMatchCalls
<1>1. QueueInv => TicketsMatchCalls
  BY DEF QueueInv
<1>2. QED
  BY <1>1, QueueDiscipline, PTL

(* A large ticket nearer the head is charged first, for any number of      *)
(* callers and any sequence of cap changes.                                *)
THEOREM NearerIsJumpedMore == Spec => []JumpsDecrease
<1>1. QueueInv => JumpsDecrease
  BY DEF QueueInv
<1>2. QED
  BY <1>1, QueueDiscipline, PTL

-----------------------------------------------------------------------------
(* The order of the queue.                                                 *)

(* Only an enqueue, a dequeue and a restart touch the queue.               *)
LEMMA QueueChanges ==
  ASSUME [Next]_vars
  PROVE  \/ queue' = queue /\ UNCHANGED cap /\ UNCHANGED jumped
         \/ queue' = queue /\ \E k \in JumpCaps : SetConfig(k)
         \/ queue' = <<>>
         \/ \E c \in Callers, p \in 1..(Len(queue) + 1) : Enqueue(c, p)
         \/ \E c \in Callers : Dequeue(c)
<1>1. ASSUME NEW c \in Callers, NEW r \in Requests, CallHit(c, r) \/ CallMiss(c, r)
      PROVE  queue' = queue /\ cap' = cap /\ jumped' = jumped
  BY <1>1 DEF CallHit, CallMiss, coreVars
<1>2. ASSUME NEW c \in Callers,
             \/ TimeOut(c) \/ Coalesce(c) \/ StillWaiting(c) \/ TakeToken(c) \/ Sleep(c)
             \/ AlreadyLoaded(c) \/ Refuse(c)
             \/ \E s \in Slots, E \in SUBSET Slots : Place(c, s, E)
             \/ \E e \in Slots : Evict(c, e)
             \/ EvictFails(c) \/ Load(c) \/ LoadFails(c) \/ Release(c)
             \/ ClearOutcome(c) \/ RecordFailure(c) \/ DeleteRow(c)
      PROVE  queue' = queue /\ cap' = cap /\ jumped' = jumped
  BY <1>2 DEF TimeOut, Coalesce, StillWaiting, TakeToken, Sleep, AlreadyLoaded, Refuse,
     Place, Evict, EvictFails, Load, LoadFails, Release, ClearOutcome, RecordFailure,
     DeleteRow, coreVars
<1>3. ASSUME NEW S \in SUBSET Slots, Unload(S)
      PROVE  queue' = queue /\ cap' = cap /\ jumped' = jumped
  BY <1>3 DEF Unload, coreVars
<1>4. ASSUME NEW k \in JumpCaps, SetConfig(k)
      PROVE  queue' = queue
  BY <1>4 DEF SetConfig
<1>5. CASE Restart  BY <1>5 DEF Restart
<1>6. CASE UNCHANGED vars  BY <1>6 DEF vars
<1>7. QED
  BY <1>1, <1>2, <1>3, <1>4, <1>5, <1>6 DEF Next, Step

(* Two tickets keep their order when another one is put in.                *)
LEMMA EnqueueOrder ==
  ASSUME TypeOK, QueueInv, NEW c \in Callers, NEW p \in 1..(Len(queue) + 1),
         Enqueue(c, p), NEW a, NEW b, Before(queue, a, b)
  PROVE  Before(queue', a, b)
<1>1. PICK i \in 1..Len(queue), j \in 1..Len(queue) : i < j /\ queue[i] = a /\ queue[j] = b
  BY DEF Before
<1> DEFINE new(n) == IF n < p THEN n ELSE n + 1
<1>2. /\ new(i) \in 1..(Len(queue) + 1) /\ new(j) \in 1..(Len(queue) + 1)
      /\ new(i) < new(j)
  BY <1>1
<1>3. queue'[new(i)] = a
  BY <1>1, <1>2, EnqueueEffect
<1>4. queue'[new(j)] = b
  BY <1>1, <1>2, EnqueueEffect
<1>5. Len(queue') = Len(queue) + 1
  BY EnqueueEffect
<1> HIDE DEF new
<1>6. QED  BY <1>2, <1>3, <1>4, <1>5 DEF Before

(* Two tickets keep their order when another one leaves.                   *)
LEMMA DequeueOrder ==
  ASSUME TypeOK, QueueInv, NEW c \in Callers, Dequeue(c),
         NEW a, NEW b, Before(queue, a, b), a # c, b # c
  PROVE  Before(queue', a, b)
<1>1. PICK i \in 1..Len(queue), j \in 1..Len(queue) : i < j /\ queue[i] = a /\ queue[j] = b
  BY DEF Before
<1>2. PICK p \in 1..Len(queue) :
           /\ queue[p] = c /\ Len(queue) \in Nat
           /\ Len(queue') = Len(queue) - 1
           /\ \A n \in 1..(Len(queue) - 1) :
                /\ queue'[n] = queue[Kept(p, n)]
                /\ Kept(p, n) \in 1..Len(queue) /\ Kept(p, n) # p
                /\ queue[Kept(p, n)] \in Callers /\ queue[Kept(p, n)] # c
  BY DequeueEffect
<1>3. i # p /\ j # p
  BY <1>1, <1>2
<1> DEFINE new(n) == IF n < p THEN n ELSE n - 1
<1>4. /\ new(i) \in 1..(Len(queue) - 1) /\ new(j) \in 1..(Len(queue) - 1)
      /\ new(i) < new(j) /\ Kept(p, new(i)) = i /\ Kept(p, new(j)) = j
  BY <1>1, <1>2, <1>3 DEF Kept
<1> HIDE DEF new
<1>5. queue'[new(i)] = a /\ queue'[new(j)] = b
  BY <1>1, <1>2, <1>4
<1>6. QED  BY <1>2, <1>4, <1>5 DEF Before

(* Two tickets never change places while both wait, for any number of      *)
(* callers, caps and restarts.                                             *)
THEOREM TicketsKeepTheirOrder == Spec => OrderIsStable
<1>1. ASSUME TypeOK, QueueInv, [Next]_vars,
             NEW a \in ToSet(queue) \cap ToSet(queue'),
             NEW b \in ToSet(queue) \cap ToSet(queue'), Before(queue, a, b)
      PROVE  Before(queue', a, b)
  <2>1. CASE queue' = queue
    BY <1>1, <2>1
  <2>2. CASE queue' = <<>>
    BY <1>1, <2>2 DEF ToSet
  <2>3. ASSUME NEW c \in Callers, NEW p \in 1..(Len(queue) + 1), Enqueue(c, p)
        PROVE  Before(queue', a, b)
    BY <1>1, <2>3, EnqueueOrder
  <2>4. ASSUME NEW c \in Callers, Dequeue(c)
        PROVE  Before(queue', a, b)
    <3>1. queue' \in Seq(Callers)
      BY <1>1, TypeStep DEF TypeOK
    <3>2. \A d \in ToSet(queue') : d \in Callers /\ Queued(d)'
      BY <3>1 DEF ToSet, Queued
    <3>3. a # c /\ b # c
      BY <1>1, <2>4, <3>2, DequeueMembers
    <3>4. QED  BY <1>1, <2>4, <3>3, DequeueOrder
  <2>5. QED  BY <1>1, <2>1, <2>2, <2>3, <2>4, QueueChanges
<1>2. TypeOK /\ QueueInv /\ [Next]_vars
        => [\A c, d \in ToSet(queue) \cap ToSet(queue') :
              Before(queue, c, d) => Before(queue', c, d)]_vars
  BY <1>1
<1>3. QED
  BY <1>2, TypeCorrect, QueueDiscipline, PTL DEF Spec, OrderIsStable

(* A small ticket that waits behind a large one found it out of jumps.     *)
(* This is what keeps smalls in order, and what raising the cap breaks:    *)
(* the large one can be jumped again and the small behind it is not.       *)
SmallsBehindWalls ==
  \A i, j \in 1..Len(queue) :
     i < j /\ ~Small(queue[i]) /\ Small(queue[j]) => jumped[queue[i]] >= cap
OneCap == \A k, l \in JumpCaps : k = l

(* A newcomer goes behind the walls, or to the end.                        *)
LEMMA EnqueueWalls ==
  ASSUME TypeOK, QueueInv, SmallsBehindWalls, NEW c \in Callers,
         NEW p \in 1..(Len(queue) + 1), Enqueue(c, p)
  PROVE  SmallsBehindWalls'
<1>1. IsInsertionPoint(c, p) /\ req' = req /\ cap' = cap
  BY DEF Enqueue
<1>2. cap \in Nat /\ \A d \in Callers : jumped[d] \in Nat
  BY JumpCapsAssumption DEF TypeOK
<1> SUFFICES ASSUME NEW i \in 1..Len(queue'), NEW j \in 1..Len(queue'), i < j,
                    ~Small(queue'[i]), Small(queue'[j])
             PROVE  jumped'[queue'[i]] >= cap
  BY <1>1 DEF SmallsBehindWalls, Small
<1>3. i \in 1..(Len(queue) + 1) /\ j \in 1..(Len(queue) + 1)
  BY EnqueueEffect
<1>4. i # p
  BY <1>1, <1>3, EnqueueEffect DEF IsInsertionPoint
<1> DEFINE k == IF i < p THEN i ELSE i - 1
           l == IF j < p THEN j ELSE j - 1
<1>5. k \in 1..Len(queue) /\ queue'[i] = queue[k] /\ queue[k] \in Callers
  BY <1>3, <1>4, EnqueueEffect
<1>6. jumped'[queue[k]] >= jumped[queue[k]] /\ jumped'[queue[k]] \in Nat
  <2> HIDE DEF k
  <2>1. jumped'[queue[k]] \in {jumped[queue[k]], jumped[queue[k]] + 1}
    BY <1>5, EnqueueEffect
  <2>2. jumped[queue[k]] \in Nat
    BY <1>2, <1>5
  <2>3. QED  BY <2>1, <2>2
<1>7. CASE j = p
  <2>1. Small(c) /\ k < p
    BY <1>3, <1>7, EnqueueEffect
  <2>2. jumped[queue[k]] >= cap
    BY <1>1, <1>5, <2>1, InsertionWall
  <2>3. QED  BY <1>2, <1>5, <1>6, <2>2
<1>8. CASE j # p
  <2>1. l \in 1..Len(queue) /\ queue'[j] = queue[l] /\ k < l
    BY <1>3, <1>4, <1>8, EnqueueEffect
  <2> HIDE DEF k, l
  <2>2. ~Small(queue[k]) /\ Small(queue[l])
    BY <1>5, <2>1
  <2>3. jumped[queue[k]] >= cap
    BY <1>5, <2>1, <2>2 DEF SmallsBehindWalls
  <2>4. QED  BY <1>2, <1>5, <1>6, <2>3
<1>9. QED  BY <1>7, <1>8

(* A ticket that leaves takes no wall away from the others.                *)
LEMMA DequeueWalls ==
  ASSUME TypeOK, QueueInv, SmallsBehindWalls, NEW c \in Callers, Dequeue(c)
  PROVE  SmallsBehindWalls'
<1>1. PICK p \in 1..Len(queue) :
           /\ queue[p] = c /\ Len(queue) \in Nat
           /\ Len(queue') = Len(queue) - 1
           /\ \A n \in 1..(Len(queue) - 1) :
                /\ queue'[n] = queue[Kept(p, n)]
                /\ Kept(p, n) \in 1..Len(queue) /\ Kept(p, n) # p
                /\ queue[Kept(p, n)] \in Callers /\ queue[Kept(p, n)] # c
  BY DequeueEffect
<1>2. req' = req /\ cap' = cap
  BY DEF Dequeue, callVars
<1>3. \A d \in Callers : d # c => jumped'[d] = jumped[d]
  BY DEF Dequeue, TypeOK
<1> SUFFICES ASSUME NEW i \in 1..Len(queue'), NEW j \in 1..Len(queue'), i < j,
                    ~Small(queue'[i]), Small(queue'[j])
             PROVE  jumped'[queue'[i]] >= cap
  BY <1>2 DEF SmallsBehindWalls, Small
<1>4. i \in 1..(Len(queue) - 1) /\ j \in 1..(Len(queue) - 1)
  BY <1>1
<1>5. Kept(p, i) < Kept(p, j)
  BY <1>4 DEF Kept
<1>6. jumped[queue[Kept(p, i)]] >= cap
  BY <1>1, <1>4, <1>5 DEF SmallsBehindWalls
<1>7. QED  BY <1>1, <1>3, <1>4, <1>6

(* A ticket in the queue keeps its request.                                *)
LEMMA RequestsStay ==
  ASSUME TypeOK, [Next]_vars, queue' = queue, NEW d \in Callers, Queued(d),
         pc[d] \in Enqueued \cup {"clear"}
  PROVE  req'[d] = req[d]
<1>1. ASSUME NEW c \in Callers, NEW r \in Requests, CallHit(c, r) \/ CallMiss(c, r)
      PROVE  req'[d] = req[d]
  BY <1>1 DEF CallHit, CallMiss, Goto, TypeOK, Enqueued
<1>2. ASSUME NEW c \in Callers,
             \/ \E p \in 1..(Len(queue) + 1) : Enqueue(c, p)
             \/ TimeOut(c) \/ Coalesce(c) \/ StillWaiting(c) \/ TakeToken(c) \/ Sleep(c)
             \/ AlreadyLoaded(c) \/ Refuse(c)
             \/ \E s \in Slots, E \in SUBSET Slots : Place(c, s, E)
             \/ \E e \in Slots : Evict(c, e)
             \/ EvictFails(c) \/ Load(c) \/ LoadFails(c) \/ Release(c)
             \/ RecordFailure(c) \/ Dequeue(c)
      PROVE  req'[d] = req[d]
  BY <1>2 DEF Enqueue, TimeOut, Coalesce, StillWaiting, TakeToken, Sleep, AlreadyLoaded,
     Refuse, Place, Evict, EvictFails, Load, LoadFails, Release, RecordFailure, Dequeue,
     callVars
<1>3. ASSUME NEW c \in Callers, ClearOutcome(c)
      PROVE  req'[d] = req[d]
  BY <1>3 DEF ClearOutcome, Forget, TypeOK
<1>4. ASSUME NEW c \in Callers, DeleteRow(c)
      PROVE  req'[d] = req[d]
  BY <1>4 DEF DeleteRow, Goto, Forget, TypeOK, Enqueued
<1>5. CASE (\E S \in SUBSET Slots : Unload(S)) \/ (\E k \in JumpCaps : SetConfig(k))
  BY <1>5 DEF Unload, SetConfig, callVars
<1>6. CASE Restart
  BY <1>6 DEF Restart, Queued
<1>7. CASE UNCHANGED vars
  BY <1>7 DEF vars
<1>8. QED
  BY <1>1, <1>2, <1>3, <1>4, <1>5, <1>6, <1>7 DEF Next, Step

(* With one cap, no step opens a wall.                                     *)
LEMMA WallsStep ==
  ASSUME OneCap, TypeOK, QueueInv, SmallsBehindWalls, [Next]_vars
  PROVE  SmallsBehindWalls'
<1>0. cap \in JumpCaps /\ cap' \in JumpCaps
  BY TypeStep DEF TypeOK
<1>1. cap' = cap
  BY <1>0 DEF OneCap
<1>2. CASE queue' = queue /\ jumped' = jumped
  <2>1. queue \in Seq(Callers)
    BY DEF TypeOK
  <2>2. ASSUME NEW i \in 1..Len(queue) PROVE req'[queue[i]] = req[queue[i]]
    <3>1. queue[i] \in Callers /\ Queued(queue[i])
      BY <2>1 DEF Queued
    <3>2. pc[queue[i]] \in Enqueued \cup {"clear"}
      BY <3>1 DEF QueueInv, TicketsMatchCalls
    <3>3. QED  BY <1>2, <3>1, <3>2, RequestsStay
  <2>3. QED  BY <1>1, <1>2, <2>2 DEF SmallsBehindWalls, Small
<1>3. CASE queue' = <<>>
  BY <1>3 DEF SmallsBehindWalls
<1>4. ASSUME NEW c \in Callers, NEW p \in 1..(Len(queue) + 1), Enqueue(c, p)
      PROVE  SmallsBehindWalls'
  BY <1>4, EnqueueWalls
<1>5. ASSUME NEW c \in Callers, Dequeue(c)
      PROVE  SmallsBehindWalls'
  BY <1>5, DequeueWalls
<1>6. ASSUME NEW k \in JumpCaps, SetConfig(k)
      PROVE  FALSE
  BY <1>0, <1>6 DEF SetConfig, OneCap
<1>7. QED  BY <1>2, <1>3, <1>4, <1>5, <1>6, QueueChanges

(* A newcomer finds its own kind ahead of it.                              *)
LEMMA EnqueueBehindKind ==
  ASSUME TypeOK, QueueInv, SmallsBehindWalls, NEW c \in Callers,
         NEW p \in 1..(Len(queue) + 1), Enqueue(c, p),
         NEW i \in 1..Len(queue), Small(queue[i]) = Small(c)
  PROVE  Before(queue', queue[i], c)
<1>1. IsInsertionPoint(c, p) /\ Len(queue) \in Nat
  BY DEF Enqueue, TypeOK
<1>2. i < p
  <2>1. CASE ~Small(c)
    BY <1>1, <2>1 DEF IsInsertionPoint
  <2>2. CASE Small(c)
    <3> SUFFICES ASSUME i >= p PROVE FALSE
      OBVIOUS
    <3>1. p \in 1..Len(queue) /\ ~Small(queue[p]) /\ jumped[queue[p]] < cap
      BY <1>1, <2>2 DEF IsInsertionPoint, Jumpable
    <3>2. p < i
      <4>1. i # p
        BY <2>2, <3>1, Zenon
      <4>2. QED  BY <1>1, <4>1
    <3>3. jumped[queue[p]] >= cap
      BY <2>2, <3>1, <3>2 DEF SmallsBehindWalls
    <3>4. cap \in Nat /\ jumped[queue[p]] \in Nat
      BY <3>1, JumpCapsAssumption DEF TypeOK
    <3>5. QED  BY <3>1, <3>3, <3>4
  <2>3. QED  BY <2>1, <2>2
<1>3. queue'[i] = queue[i] /\ queue'[p] = c /\ Len(queue') = Len(queue) + 1
  <2>1. i \in 1..(Len(queue) + 1)
    BY <1>1
  <2>2. QED  BY <1>2, <2>1, EnqueueEffect
<1>4. QED  BY <1>1, <1>2, <1>3 DEF Before

(* As long as the cap is not changed, smalls stay in arrival order among   *)
(* themselves and so do larges, for any number of callers.                 *)
THEOREM ArrivalOrderWithinKinds ==
  ASSUME OneCap
  PROVE  Spec => KindsStayFIFO
<1>1. Init => SmallsBehindWalls
  BY DEF Init, SmallsBehindWalls
<1>2. TypeOK /\ QueueInv /\ SmallsBehindWalls /\ [Next]_vars => SmallsBehindWalls'
  BY WallsStep
<1>3. ASSUME TypeOK, QueueInv, SmallsBehindWalls, [Next]_vars,
             NEW a \in ToSet(queue) \cap ToSet(queue'),
             NEW b \in ToSet(queue') \ ToSet(queue), Small(a) = Small(b)
      PROVE  Before(queue', a, b)
  <2>1. queue \in Seq(Callers) /\ queue' \in Seq(Callers)
    BY <1>3, TypeStep DEF TypeOK
  <2>2. \A d : d \in ToSet(queue) <=> d \in Callers /\ Queued(d)
    BY <2>1 DEF ToSet, Queued
  <2>3. \A d : d \in ToSet(queue') <=> d \in Callers /\ Queued(d)'
    BY <2>1 DEF ToSet, Queued
  <2>4. CASE queue' = queue
    BY <1>3, <2>4
  <2>5. CASE queue' = <<>>
    BY <1>3, <2>5 DEF ToSet
  <2>6. ASSUME NEW c \in Callers, Dequeue(c)
        PROVE  FALSE
    <3>1. \A d \in Callers : Queued(d)' <=> Queued(d) /\ d # c
      BY <1>3, <2>6, DequeueMembers
    <3>2. QED  BY <1>3, <2>2, <2>3, <3>1
  <2>7. ASSUME NEW c \in Callers, NEW p \in 1..(Len(queue) + 1), Enqueue(c, p)
        PROVE  Before(queue', a, b)
    <3>0. \A d \in Callers : Queued(d)' <=> Queued(d) \/ d = c
      BY <1>3, <2>7, EnqueueMembers
    <3>1. b = c
      BY <1>3, <2>2, <2>3, <3>0
    <3>2. PICK i \in 1..Len(queue) : queue[i] = a
      BY <1>3, <2>2 DEF Queued
    <3>3. QED  BY <1>3, <2>7, <3>1, <3>2, EnqueueBehindKind
  <2>8. QED  BY <1>3, <2>4, <2>5, <2>6, <2>7, QueueChanges
<1>4. TypeOK /\ QueueInv /\ SmallsBehindWalls /\ [Next]_vars
        => [\A c \in ToSet(queue) \cap ToSet(queue'), d \in ToSet(queue') \ ToSet(queue) :
              Small(c) = Small(d) => Before(queue', c, d)]_vars
  BY <1>3
<1>5. QED
  BY <1>1, <1>2, <1>4, TypeCorrect, QueueDiscipline, PTL DEF Spec, KindsStayFIFO

-----------------------------------------------------------------------------
(* What waiting costs: why a ticket reaches the head.                      *)

(* A ticket goes from place i to place j.  It loses one place at a time,   *)
(* and then a large ticket at or ahead of its place is charged a jump it   *)
(* had to spare; if it is large itself, it is charged.  A newcomer that    *)
(* goes ahead is small, so the jumps left at and ahead of a ticket fall    *)
(* whenever it loses a place, while the cap stays.                         *)
Charged(c) == jumped[c] < cap /\ jumped'[c] = jumped[c] + 1
ChargedDelay(i, j) ==
  /\ j <= i => jumped'[queue[i]] = jumped[queue[i]]
  /\ j > i => /\ j = i + 1
              /\ ~Small(queue[i]) => Charged(queue[i])
              /\ \E k \in 1..i : ~Small(queue[k]) /\ Charged(queue[k])

(* A newcomer that goes ahead of a ticket pushes it back by one place, and *)
(* a large one ahead of it, or itself, is charged.                         *)
LEMMA EnqueueCharges ==
  ASSUME TypeOK, QueueInv, NEW c \in Callers, NEW p \in 1..(Len(queue) + 1),
         Enqueue(c, p), NEW i \in 1..Len(queue), NEW j \in 1..Len(queue'),
         queue'[j] = queue[i]
  PROVE  /\ ChargedDelay(i, j)
         /\ j > i => Jumpable(p) /\ p <= i
<1>1. /\ IsInsertionPoint(c, p) /\ Len(queue) \in Nat
      /\ \A k, l \in 1..Len(queue) : queue[k] = queue[l] => k = l
  BY DEF Enqueue, TypeOK, QueueInv, TicketsMatchCalls
<1>2. /\ j \in 1..(Len(queue) + 1)
      /\ queue'[j] = IF j < p THEN queue[j] ELSE IF j = p THEN c ELSE queue[j - 1]
      /\ queue[i] # c
      /\ \A k \in 1..Len(queue) :
           jumped'[queue[k]] = IF k >= p /\ ~Small(queue[k])
                               THEN jumped[queue[k]] + 1 ELSE jumped[queue[k]]
  BY EnqueueEffect
<1>3. (j < p /\ j = i) \/ (j > p /\ j = i + 1)
  <2>1. CASE j < p
    <3>1. j \in 1..Len(queue) /\ queue[j] = queue[i]
      BY <1>1, <1>2, <2>1
    <3> QED
      BY <1>1, <2>1, <3>1
  <2>2. CASE j = p
    BY <1>2, <2>2
  <2>3. CASE j > p
    <3>1. j - 1 \in 1..Len(queue) /\ queue[j - 1] = queue[i]
      BY <1>1, <1>2, <2>3
    <3>2. j - 1 = i
      BY <1>1, <3>1
    <3> QED
      BY <1>2, <2>3, <3>2
  <2> QED
    BY <1>2, <2>1, <2>2, <2>3
<1>4. CASE j < p /\ j = i
  BY <1>2, <1>4 DEF ChargedDelay
<1>5. CASE j > p /\ j = i + 1
  <2>1. p \in 1..Len(queue) /\ p <= i
    BY <1>1, <1>5
  <2>2. Jumpable(p)
    BY <1>1, <2>1 DEF IsInsertionPoint
  <2>3. ~Small(queue[p]) /\ Charged(queue[p])
    BY <1>2, <2>1, <2>2 DEF Jumpable, Charged
  <2>4. ~Small(queue[i]) => Charged(queue[i])
    BY <1>1, <1>2, <2>1, InsertionWall DEF Charged
  <2>5. p \in 1..i /\ ~(j <= i)
    BY <1>5, <2>1
  <2> QED
    BY <1>5, <2>1, <2>2, <2>3, <2>4, <2>5 DEF ChargedDelay
<1> QED
  BY <1>3, <1>4, <1>5

(* A ticket that leaves lets the others move up, free of charge.           *)
LEMMA DequeueIsFree ==
  ASSUME TypeOK, QueueInv, NEW c \in Callers, Dequeue(c),
         NEW i \in 1..Len(queue), NEW j \in 1..Len(queue'), queue'[j] = queue[i]
  PROVE  j <= i /\ jumped'[queue[i]] = jumped[queue[i]]
<1>1. PICK p \in 1..Len(queue) :
           /\ queue[p] = c /\ Len(queue) \in Nat
           /\ Len(queue') = Len(queue) - 1
           /\ \A n \in 1..(Len(queue) - 1) :
                /\ queue'[n] = queue[Kept(p, n)]
                /\ Kept(p, n) \in 1..Len(queue) /\ Kept(p, n) # p
                /\ queue[Kept(p, n)] \in Callers /\ queue[Kept(p, n)] # c
  BY DequeueEffect
<1>2. Kept(p, j) = i /\ queue[i] # c /\ queue[i] \in Callers
  BY <1>1 DEF QueueInv, TicketsMatchCalls
<1>3. j <= Kept(p, j)
  BY DEF Kept
<1>4. jumped'[queue[i]] = jumped[queue[i]]
  BY <1>2 DEF Dequeue, TypeOK
<1> QED
  BY <1>2, <1>3, <1>4

(* A step that leaves the queue alone moves nobody.                        *)
LEMMA SamePlace ==
  ASSUME QueueInv, queue' = queue,
         NEW i \in 1..Len(queue), NEW j \in 1..Len(queue'), queue'[j] = queue[i]
  PROVE  j = i
  BY DEF QueueInv, TicketsMatchCalls

(* Whoever arrives, leaves, loads or is restarted: a ticket that loses a   *)
(* place in Core.queue loses one only, to a jump that enqueueLocked        *)
(* charges.  With the bound on jumps this is why PatientReachesHead holds. *)
THEOREM DelaysAreCharged ==
  Spec => [][\A i \in 1..Len(queue), j \in 1..Len(queue') :
               queue'[j] = queue[i] => ChargedDelay(i, j)]_vars
<1>1. ASSUME TypeOK, QueueInv, [Next]_vars,
             NEW i \in 1..Len(queue), NEW j \in 1..Len(queue'), queue'[j] = queue[i]
      PROVE  ChargedDelay(i, j)
  <2>1. CASE queue' = queue /\ jumped' = jumped
    <3>1. j = i
      BY <1>1, <2>1, SamePlace
    <3> QED
      BY <2>1, <3>1 DEF ChargedDelay
  <2>2. CASE queue' = <<>>
    BY <1>1, <2>2
  <2>3. ASSUME NEW c \in Callers, NEW p \in 1..(Len(queue) + 1), Enqueue(c, p)
        PROVE  ChargedDelay(i, j)
    BY <1>1, <2>3, EnqueueCharges
  <2>4. ASSUME NEW c \in Callers, Dequeue(c)
        PROVE  ChargedDelay(i, j)
    <3>1. j <= i /\ jumped'[queue[i]] = jumped[queue[i]]
      BY <1>1, <2>4, DequeueIsFree
    <3>2. i \in Nat /\ j \in Nat
      OBVIOUS
    <3> QED
      BY <3>1, <3>2 DEF ChargedDelay
  <2>5. ASSUME NEW k \in JumpCaps, SetConfig(k)
        PROVE  jumped' = jumped
    BY <2>5 DEF SetConfig
  <2> QED
    BY <1>1, <2>1, <2>2, <2>3, <2>4, <2>5, QueueChanges
<1>2. TypeOK /\ QueueInv /\ [Next]_vars
        => [\A i \in 1..Len(queue), j \in 1..Len(queue') :
              queue'[j] = queue[i] => ChargedDelay(i, j)]_vars
  BY <1>1
<1> QED
  BY <1>2, TypeCorrect, QueueDiscipline, PTL DEF Spec

(* As long as the cap is not changed, a small ticket never loses a place.  *)
THEOREM SmallsKeepTheirPlace ==
  ASSUME OneCap
  PROVE  Spec => [][\A i \in 1..Len(queue), j \in 1..Len(queue') :
                      queue'[j] = queue[i] /\ Small(queue[i]) => j <= i]_vars
<1>1. Init => SmallsBehindWalls
  BY DEF Init, SmallsBehindWalls
<1>2. TypeOK /\ QueueInv /\ SmallsBehindWalls /\ [Next]_vars => SmallsBehindWalls'
  BY WallsStep
<1>3. ASSUME TypeOK, QueueInv, SmallsBehindWalls, [Next]_vars,
             NEW i \in 1..Len(queue), NEW j \in 1..Len(queue'), queue'[j] = queue[i],
             Small(queue[i])
      PROVE  j <= i
  <2>1. CASE queue' = queue
    <3>1. j = i
      BY <1>3, <2>1, SamePlace
    <3> QED
      BY <3>1
  <2>2. CASE queue' = <<>>
    BY <1>3, <2>2
  <2>3. ASSUME NEW c \in Callers, NEW p \in 1..(Len(queue) + 1), Enqueue(c, p), j > i
        PROVE  FALSE
    <3>1. ~Small(queue[p]) /\ jumped[queue[p]] < cap /\ p <= i
      BY <1>3, <2>3, EnqueueCharges DEF Jumpable
    <3>2. p \in 1..Len(queue) /\ p < i
      BY <1>3, <3>1
    <3>3. jumped[queue[p]] >= cap
      BY <1>3, <3>1, <3>2 DEF SmallsBehindWalls
    <3>4. cap \in Nat /\ jumped[queue[p]] \in Nat
      BY <1>3, <3>2, JumpCapsAssumption DEF TypeOK
    <3> QED
      BY <3>1, <3>3, <3>4
  <2>4. ASSUME NEW c \in Callers, Dequeue(c)
        PROVE  j <= i
    BY <1>3, <2>4, DequeueIsFree
  <2> QED
    BY <1>3, <2>1, <2>2, <2>3, <2>4, QueueChanges
<1>4. TypeOK /\ QueueInv /\ SmallsBehindWalls /\ [Next]_vars
        => [\A i \in 1..Len(queue), j \in 1..Len(queue') :
              queue'[j] = queue[i] /\ Small(queue[i]) => j <= i]_vars
  BY <1>3
<1> QED
  BY <1>1, <1>2, <1>4, TypeCorrect, QueueDiscipline, PTL DEF Spec

-----------------------------------------------------------------------------
(* The slot of a load.                                                     *)

(* Until the load, the chosen slot is free or still to be evicted: the     *)
(* token keeps every other load away, and operators only empty slots.      *)
PlansHold ==
  \A c \in Callers : pc[c] = "load" =>
     /\ plan[c].slot \in Slots
     /\ mode[plan[c].slot] = None \/ plan[c].slot \in plan[c].evict

(* A step that fills no slot and starts no load of another call keeps it.  *)
LEMMA PlansFrame ==
  ASSUME PlansHold,
         \A s \in Slots : mode'[s] \in {mode[s], None},
         \A d \in Callers : pc'[d] = "load" => pc[d] = "load" /\ plan'[d] = plan[d]
  PROVE  PlansHold'
BY DEF PlansHold

(* Every step of the scheduler keeps the plans good.                       *)
LEMMA PlansStep ==
  ASSUME TypeOK, OneLoader, PlansHold, [Next]_vars
  PROVE  PlansHold'
<1>1. ASSUME NEW c \in Callers, NEW r \in Requests, CallHit(c, r) \/ CallMiss(c, r)
      PROVE  PlansHold'
  BY <1>1, PlansFrame DEF CallHit, CallMiss, Goto, TypeOK
<1>2. ASSUME NEW c \in Callers,
             \/ \E p \in 1..(Len(queue) + 1) : Enqueue(c, p)
             \/ TimeOut(c) \/ Coalesce(c) \/ StillWaiting(c) \/ TakeToken(c) \/ Sleep(c)
             \/ RecordFailure(c) \/ Dequeue(c) \/ DeleteRow(c)
      PROVE  PlansHold'
  <2>1. mode' = mode /\ plan' = plan
    BY <1>2 DEF Enqueue, TimeOut, Coalesce, StillWaiting, TakeToken, Sleep,
       RecordFailure, Dequeue, DeleteRow, callVars
  <2>2. \A d \in Callers : pc'[d] = "load" => pc[d] = "load"
    BY <1>2 DEF Enqueue, TimeOut, Coalesce, StillWaiting, TakeToken, Sleep,
       RecordFailure, Dequeue, DeleteRow, Goto, TypeOK
  <2>3. QED  BY <2>1, <2>2, PlansFrame
<1>3. ASSUME NEW c \in Callers,
             AlreadyLoaded(c) \/ Refuse(c) \/ EvictFails(c) \/ LoadFails(c)
      PROVE  PlansHold'
  <2>1. mode' = mode /\ pc'[c] = "release"
    BY <1>3 DEF AlreadyLoaded, Refuse, EvictFails, LoadFails, Goto, TypeOK
  <2>2. \A d \in Callers : d # c => pc'[d] = pc[d] /\ plan'[d] = plan[d]
    BY <1>3 DEF AlreadyLoaded, Refuse, EvictFails, LoadFails, Decide, Goto, TypeOK
  <2>3. QED  BY <2>1, <2>2, PlansFrame
<1>4. ASSUME NEW c \in Callers, NEW s \in Slots, NEW E \in SUBSET Slots, Place(c, s, E)
      PROVE  PlansHold'
  <2>1. mode' = mode /\ (mode[s] # None => s \in E)
    BY <1>4 DEF Place
  <2>2. plan'[c].slot = s /\ plan'[c].evict = E
    BY <1>4 DEF Place, TypeOK, Plans
  <2>3. \A d \in Callers : d # c => pc'[d] = pc[d] /\ plan'[d] = plan[d]
    BY <1>4 DEF Place, Goto, TypeOK
  <2>4. QED  BY <2>1, <2>2, <2>3 DEF PlansHold
<1>5. ASSUME NEW c \in Callers, NEW e \in Slots, Evict(c, e)
      PROVE  PlansHold'
  <2>1. pc' = pc /\ mode'[e] = None /\ \A s \in Slots : s # e => mode'[s] = mode[s]
    BY <1>5 DEF Evict, TypeOK
  <2>2. plan'[c].slot = plan[c].slot /\ plan'[c].evict = plan[c].evict \ {e}
    BY <1>5 DEF Evict, TypeOK, Plans
  <2>3. \A d \in Callers : d # c => plan'[d] = plan[d]
    BY <1>5 DEF Evict, TypeOK
  <2>4. QED  BY <2>1, <2>2, <2>3 DEF PlansHold
<1>6. ASSUME NEW c \in Callers, Load(c)
      PROVE  PlansHold'
  <2>1. pc[c] = "load" /\ pc'[c] = "release"
    BY <1>6 DEF Load, Goto, TypeOK
  <2>2. \A d \in Callers : d # c => pc'[d] = pc[d]
    BY <1>6 DEF Load, Goto, TypeOK
  <2>3. \A d \in Callers : pc'[d] # "load"
    BY <2>1, <2>2 DEF OneLoader, Holding
  <2>4. QED  BY <2>3 DEF PlansHold
<1>7. ASSUME NEW c \in Callers, Release(c) \/ ClearOutcome(c)
      PROVE  PlansHold'
  <2>1. mode' = mode /\ pc'[c] # "load"
    BY <1>7 DEF Release, ClearOutcome, TypeOK
  <2>2. \A d \in Callers : d # c => pc'[d] = pc[d] /\ plan'[d] = plan[d]
    BY <1>7 DEF Release, ClearOutcome, TypeOK
  <2>3. QED  BY <2>1, <2>2, PlansFrame
<1>8. ASSUME NEW S \in SUBSET Slots, Unload(S)
      PROVE  PlansHold'
  BY <1>8, PlansFrame DEF Unload, callVars
<1>9. ASSUME NEW k \in JumpCaps, SetConfig(k)
      PROVE  PlansHold'
  BY <1>9, PlansFrame DEF SetConfig, callVars
<1>10. CASE Restart
  BY <1>10 DEF Restart, PlansHold
<1>11. CASE UNCHANGED vars
  BY <1>11, PlansFrame DEF vars
<1>12. QED
  BY <1>1, <1>2, <1>3, <1>4, <1>5, <1>6, <1>7, <1>8, <1>9, <1>10, <1>11 DEF Next, Step

(* No load displaces a model that was not chosen for eviction, whatever    *)
(* operators and other callers do between the placement and the load.      *)
THEOREM LoadsDisplaceNothing == Spec => []LoadsIntoFreeSlot
<1>1. Init => PlansHold
  BY DEF Init, PlansHold
<1>2. TypeOK /\ OneLoader /\ PlansHold /\ [Next]_vars => PlansHold'
  BY PlansStep
<1>3. PlansHold => LoadsIntoFreeSlot
  BY DEF PlansHold, LoadsIntoFreeSlot
<1>4. QED
  BY <1>1, <1>2, <1>3, TypeCorrect, TokenExclusion, PTL DEF Spec

-----------------------------------------------------------------------------
(* The rows of the store.                                                  *)

(* A step that leaves the queue and the rows alone and no call on its way  *)
(* to the deletion of its row keeps the mirror.                            *)
LEMMA RowsFrame ==
  ASSUME RowsMirrorQueue, queue' = queue, rows' = rows,
         \A d \in Callers : pc[d] = "deleteRow" => pc'[d] = "deleteRow"
  PROVE  RowsMirrorQueue'
BY DEF RowsMirrorQueue, Queued

(* Every step keeps the rows the mirror of the queue.                      *)
LEMMA RowsStep ==
  ASSUME TypeOK, QueueInv, RowsMirrorQueue, [Next]_vars
  PROVE  RowsMirrorQueue'
<1>0. \A d \in Callers : /\ pc[d] \in Enqueued => Queued(d)
                         /\ Queued(d) => pc[d] \in Enqueued \cup {"clear"}
  BY DEF QueueInv, TicketsMatchCalls
<1>1. ASSUME NEW c \in Callers, NEW r \in Requests, CallHit(c, r) \/ CallMiss(c, r)
      PROVE  RowsMirrorQueue'
  BY <1>1, RowsFrame DEF CallHit, CallMiss, Goto, coreVars, TypeOK
<1>2. ASSUME NEW c \in Callers, NEW p \in 1..(Len(queue) + 1), Enqueue(c, p)
      PROVE  RowsMirrorQueue'
  <2>1. \A d \in Callers : Queued(d)' <=> Queued(d) \/ d = c
    BY <1>2, EnqueueMembers
  <2>2. rows' = rows \cup {c} /\ \A d \in Callers : d # c => pc'[d] = pc[d]
    BY <1>2 DEF Enqueue, PersistTicket, Goto, TypeOK
  <2>3. QED  BY <2>1, <2>2 DEF RowsMirrorQueue
<1>3. ASSUME NEW c \in Callers, TakeToken(c) \/ Release(c)
      PROVE  RowsMirrorQueue'
  <2>1. queue' = queue /\ rows' \in {rows, rows \cup {c}}
    BY <1>3 DEF TakeToken, Release, PersistTicket
  <2>2. pc[c] \in Enqueued /\ pc[c] # "deleteRow"
    BY <1>3 DEF TakeToken, Release, Goto, Enqueued
  <2>3. \A d \in Callers : d # c => pc'[d] = pc[d]
    BY <1>3 DEF TakeToken, Release, Goto, TypeOK
  <2>4. Queued(c) /\ \A d \in Callers : Queued(d)' = Queued(d)
    BY <1>0, <2>1, <2>2 DEF Queued
  <2>5. QED  BY <2>1, <2>2, <2>3, <2>4 DEF RowsMirrorQueue
<1>4. ASSUME NEW c \in Callers,
             \/ TimeOut(c) \/ Coalesce(c) \/ StillWaiting(c) \/ Sleep(c)
             \/ AlreadyLoaded(c) \/ Refuse(c)
             \/ \E s \in Slots, E \in SUBSET Slots : Place(c, s, E)
             \/ \E e \in Slots : Evict(c, e)
             \/ EvictFails(c) \/ Load(c) \/ LoadFails(c) \/ ClearOutcome(c) \/ RecordFailure(c)
      PROVE  RowsMirrorQueue'
  <2>1. queue' = queue /\ rows' = rows
    BY <1>4 DEF TimeOut, Coalesce, StillWaiting, Sleep, AlreadyLoaded, Refuse, Place, Evict,
       EvictFails, Load, LoadFails, ClearOutcome, RecordFailure, coreVars
  <2>2. pc[c] # "deleteRow" /\ \A d \in Callers : d # c => pc'[d] = pc[d]
    BY <1>4 DEF TimeOut, Coalesce, StillWaiting, Sleep, AlreadyLoaded, Refuse, Place, Evict,
       EvictFails, Load, LoadFails, ClearOutcome, RecordFailure, Goto, TypeOK
  <2>3. QED  BY <2>1, <2>2, RowsFrame
<1>5. ASSUME NEW c \in Callers, Dequeue(c)
      PROVE  RowsMirrorQueue'
  <2>1. \A d \in Callers : Queued(d)' <=> Queued(d) /\ d # c
    BY <1>5, DequeueMembers
  <2>2. /\ rows' = rows /\ pc'[c] = "deleteRow"
        /\ \A d \in Callers : d # c => pc'[d] = pc[d]
    BY <1>5 DEF Dequeue, Goto, TypeOK
  <2>3. QED  BY <2>1, <2>2 DEF RowsMirrorQueue
<1>6. ASSUME NEW c \in Callers, DeleteRow(c)
      PROVE  RowsMirrorQueue'
  <2>1. /\ queue' = queue /\ rows' = rows \ {c} /\ pc[c] = "deleteRow"
        /\ \A d \in Callers : d # c => pc'[d] = pc[d]
    BY <1>6 DEF DeleteRow, PersistDelete, Goto, coreVars, TypeOK
  <2>2. ~Queued(c) /\ \A d \in Callers : Queued(d)' = Queued(d)
    BY <1>0, <2>1 DEF Queued, Enqueued
  <2>3. QED  BY <2>1, <2>2 DEF RowsMirrorQueue
<1>7. CASE (\E S \in SUBSET Slots : Unload(S)) \/ (\E k \in JumpCaps : SetConfig(k))
  BY <1>7, RowsFrame DEF Unload, SetConfig, coreVars
<1>8. CASE Restart
  BY <1>8 DEF Restart, RowsMirrorQueue, Queued
<1>9. CASE UNCHANGED vars
  BY <1>9, RowsFrame DEF vars
<1>10. QED
  BY <1>1, <1>2, <1>3, <1>4, <1>5, <1>6, <1>7, <1>8, <1>9 DEF Next, Step

(* The store holds the rows of the waiting tickets and no others but those *)
(* a returning call is about to delete, across restarts.                   *)
THEOREM NoRowLeftBehind == Spec => []RowsMirrorQueue
<1>1. Init => RowsMirrorQueue
  BY DEF Init, RowsMirrorQueue, Queued
<1>2. TypeOK /\ QueueInv /\ RowsMirrorQueue /\ [Next]_vars => RowsMirrorQueue'
  BY RowsStep
<1>3. QED
  BY <1>1, <1>2, TypeCorrect, QueueDiscipline, PTL DEF Spec
=============================================================================
