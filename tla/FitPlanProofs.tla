---------------------------- MODULE FitPlanProofs ----------------------------
(***************************************************************************)
(* Proofs about the arithmetic of FitPlan for any slots, models and sizes. *)
(*                                                                         *)
(* Frees is a fold of the community modules, a function defined by         *)
(* recursion on the subsets of a set.  Its facts are proved by a smallest  *)
(* counterexample: among the subsets of a finite set for which a fact      *)
(* fails there is one all of whose proper subsets satisfy it.              *)
(***************************************************************************)
EXTENDS FitPlan, FiniteSetTheorems, WellFoundedInduction, TLAPS

USE SlotsAssumption, NoneAssumption, SizesAssumption

-----------------------------------------------------------------------------
(* Least and greatest elements.                                            *)

(* A set of numbers has a least one.                                       *)
LEMMA LeastNatural ==
  ASSUME NEW S \in SUBSET Nat, S # {}
  PROVE  \E x \in S : \A y \in S : x <= y
<1> DEFINE R == OpToRel(<, Nat)
<1>1. IsWellFoundedOn(R, Nat)
  BY NatLessThanWellFounded
<1>2. \A y, x \in Nat : y < x => <<y, x>> \in R
  BY DEF OpToRel
<1> HIDE DEF R
<1>3. PICK x \in S : \A y \in S : ~(<<y, x>> \in R)
  BY <1>1, WFMin
<1>4. ASSUME NEW y \in S PROVE x <= y
  <2>1. x \in Nat /\ y \in Nat
    OBVIOUS
  <2>2. ~(y < x)
    BY <1>2, <1>3, <2>1
  <2> QED
    BY <2>1, <2>2
<1> QED
  BY <1>4

(* Among some subsets of a finite set there is one without a proper subset *)
(* among them.                                                             *)
LEMMA SmallestSubset ==
  ASSUME NEW S, IsFiniteSet(S), NEW A, A \subseteq SUBSET S, A # {}
  PROVE  \E T \in A : \A U \in A : U \subseteq T => U = T
<1> DEFINE R == StrictSubsetOrdering(S)
<1>1. IsWellFoundedOn(R, FiniteSubsetsOf(S))
  BY FS_StrictSubsetOrderingWellFounded
<1>2. A \subseteq FiniteSubsetsOf(S)
  BY FS_FiniteSubsetsOfFinite
<1>3. \A U, T \in SUBSET S : U \subseteq T /\ U # T => <<U, T>> \in R
  BY DEF StrictSubsetOrdering
<1> HIDE DEF R
<1>4. PICK T \in A : \A U \in A : ~(<<U, T>> \in R)
  BY <1>1, <1>2, WFMin
<1>5. ASSUME NEW U \in A, U \subseteq T PROVE U = T
  <2>1. U \in SUBSET S /\ T \in SUBSET S
    OBVIOUS
  <2> QED
    BY <1>3, <1>4, <1>5, <2>1
<1> QED
  BY <1>5

(* A finite set of numbers has a greatest one.                             *)
LEMMA GreatestNatural ==
  ASSUME NEW S, S \subseteq Nat, IsFiniteSet(S), S # {}
  PROVE  \E x \in S : \A y \in S : y <= x
<1> DEFINE HasMax(T) == \E x \in T : \A y \in T : y <= x
           A == {T \in SUBSET S : T # {} /\ ~HasMax(T)}
<1>1. SUFFICES ASSUME A # {} PROVE FALSE
  BY <1>1
<1>2. A \subseteq SUBSET S /\ IsFiniteSet(S)
  OBVIOUS
<1> HIDE DEF A, HasMax
<1>3. PICK T \in A : \A U \in A : U \subseteq T => U = T
  BY ONLY <1>1, <1>2, SmallestSubset
<1> USE DEF A, HasMax
<1>4. PICK x \in T : TRUE
  BY <1>3
<1>5. CASE T \ {x} = {}
  BY <1>3, <1>4, <1>5
<1>6. CASE T \ {x} # {}
  <2>1. T \ {x} \notin A
    BY <1>3, <1>4
  <2>2. PICK y \in T \ {x} : \A z \in T \ {x} : z <= y
    BY <2>1, <1>3, <1>6
  <2>3. x \in Nat /\ y \in Nat /\ \A z \in T : z \in Nat
    BY <1>3, <1>4, <2>2
  <2>4. \A z \in T : IF x <= y THEN z <= y ELSE z <= x
    BY <2>2, <2>3
  <2> QED
    BY <1>3, <1>4, <2>2, <2>4
<1> QED
  BY <1>5, <1>6

(* The image of a finite set is finite.                                    *)
LEMMA FiniteImage ==
  ASSUME NEW S, IsFiniteSet(S), NEW f, f = [x \in S |-> f[x]]
  PROVE  IsFiniteSet({f[x] : x \in S})
<1> DEFINE T == {f[x] : x \in S}
<1>1. f \in Surjection(S, T)
  BY DEF Surjection
<1> QED
  BY <1>1, FS_Surjection

-----------------------------------------------------------------------------
(* The fold.                                                               *)

Member(S) == CHOOSE x \in S : TRUE
IsIter(h, S, f) ==
  f = [T \in SUBSET S |->
         IF T = {} THEN 0
         ELSE Footprint[h.mode[Member(T)]] + f[T \ {Member(T)}]]

(* What Frees is by the definition of the fold.                            *)
LEMMA FreesIsIter ==
  ASSUME NEW h, NEW S
  PROVE  Frees(h, S) = (CHOOSE f : IsIter(h, S, f))[S]
BY DEF Frees, MapThenSumSet, MapThenFoldSet, IsIter, Member

(* There is at most one such function.                                     *)
LEMMA IterIsUnique ==
  ASSUME NEW h, NEW S, IsFiniteSet(S),
         NEW f, IsIter(h, S, f), NEW g, IsIter(h, S, g)
  PROVE  f = g
<1> DEFINE A == {T \in SUBSET S : f[T] # g[T]}
<1>1. \A T \in SUBSET S : T # {} => Member(T) \in T
  BY DEF Member
<1>2. SUFFICES ASSUME A # {} PROVE FALSE
  BY <1>2 DEF IsIter
<1>3. A \subseteq SUBSET S /\ IsFiniteSet(S)
  OBVIOUS
<1> HIDE DEF A
<1>4. PICK T \in A : \A U \in A : U \subseteq T => U = T
  BY <1>2, <1>3, SmallestSubset
<1> USE DEF A
<1>5. T # {}
  BY <1>4 DEF IsIter
<1>6. T \ {Member(T)} \in SUBSET S /\ T \ {Member(T)} # T
  BY <1>1, <1>4, <1>5
<1>7. f[T \ {Member(T)}] = g[T \ {Member(T)}]
  BY <1>4, <1>6
<1> QED
  BY <1>4, <1>5, <1>7 DEF IsIter

(* The recursion that Frees satisfies.                                     *)
Unfolds(h, S) ==
  Frees(h, S) = IF S = {} THEN 0
                ELSE Footprint[h.mode[Member(S)]] + Frees(h, S \ {Member(S)})
LEMMA FreesUnfolds ==
  ASSUME NEW h, NEW S, IsFiniteSet(S)
  PROVE  Unfolds(h, S)
<1> DEFINE A == {T \in SUBSET S : ~Unfolds(h, T)}
<1>1. SUFFICES ASSUME A # {} PROVE FALSE
  BY <1>1
<1>2. A \subseteq SUBSET S /\ IsFiniteSet(S)
  OBVIOUS
<1> HIDE DEF A
<1>3. PICK T \in A : \A U \in A : U \subseteq T => U = T
  BY <1>1, <1>2, SmallestSubset
<1> USE DEF A
<1>4. IsFiniteSet(T) /\ ~Unfolds(h, T)
  BY <1>3, FS_Subset
<1>5. \A U \in SUBSET T : U # T => Unfolds(h, U)
  BY <1>3
<1> DEFINE f == [U \in SUBSET T |->
                   IF U = {} THEN 0
                   ELSE Footprint[h.mode[Member(U)]] + Frees(h, U \ {Member(U)})]
<1>6. \A U \in SUBSET T : U # T => f[U] = Frees(h, U)
  BY <1>5 DEF Unfolds
<1>7. \A U \in SUBSET T : U # {} =>
        U \ {Member(U)} \in SUBSET T /\ U \ {Member(U)} # T
  BY DEF Member
<1>8. \A U \in SUBSET T : U # {} =>
        f[U \ {Member(U)}] = Frees(h, U \ {Member(U)})
  BY <1>6, <1>7
<1>9. IsIter(h, T, f)
  BY <1>8 DEF IsIter
<1>10. f[T] = IF T = {} THEN 0
             ELSE Footprint[h.mode[Member(T)]] + Frees(h, T \ {Member(T)})
  OBVIOUS
<1> HIDE DEF f
<1>11. (CHOOSE g : IsIter(h, T, g)) = f
  BY <1>4, <1>9, IterIsUnique
<1>12. Frees(h, T) = f[T]
  BY <1>11, FreesIsIter
<1> QED
  BY <1>4, <1>10, <1>12 DEF Unfolds

-----------------------------------------------------------------------------
(* Sums.                                                                   *)

(* What no slot frees.                                                     *)
LEMMA FreesNothing ==
  ASSUME NEW h
  PROVE  Frees(h, {}) = 0
BY FreesUnfolds, FS_EmptySet DEF Unfolds

(* Only what is in the slots matters.                                      *)
LEMMA FreesByMode ==
  ASSUME NEW h, NEW g, h.mode = g.mode, NEW S, IsFiniteSet(S)
  PROVE  Frees(h, S) = Frees(g, S)
<1> DEFINE A == {T \in SUBSET S : Frees(h, T) # Frees(g, T)}
<1>1. SUFFICES ASSUME A # {} PROVE FALSE
  BY <1>1
<1>2. A \subseteq SUBSET S /\ IsFiniteSet(S)
  OBVIOUS
<1> HIDE DEF A
<1>3. PICK T \in A : \A U \in A : U \subseteq T => U = T
  BY ONLY <1>1, <1>2, SmallestSubset
<1> USE DEF A
<1>4. T \in SUBSET S /\ IsFiniteSet(T)
  BY <1>3, FS_Subset
<1>5. T # {}
  BY <1>3, FreesNothing
<1>6. Member(T) \in T
  BY <1>5 DEF Member
<1>7. Frees(h, T \ {Member(T)}) = Frees(g, T \ {Member(T)})
  BY <1>3, <1>4, <1>6
<1>8. Unfolds(h, T) /\ Unfolds(g, T)
  BY <1>4, FreesUnfolds
<1> QED
  BY <1>3, <1>5, <1>7, <1>8 DEF Unfolds

(* Some loaded slots are finitely many, and each has a footprint.          *)
LEMMA LoadedSlots ==
  ASSUME NEW h, h.mode \in [Slots -> Models \cup {None}],
         NEW S \in SUBSET Loaded(h)
  PROVE  /\ IsFiniteSet(S) /\ S \subseteq Slots
         /\ \A s \in S : Footprint[h.mode[s]] \in Nat
<1>1. S \in SUBSET Slots /\ \A s \in S : h.mode[s] \in Models
  BY DEF Loaded
<1> QED
  BY <1>1, FS_Subset

(* What loaded slots free is a number.                                     *)
LEMMA FreesType ==
  ASSUME NEW h, h.mode \in [Slots -> Models \cup {None}],
         NEW S \in SUBSET Loaded(h)
  PROVE  Frees(h, S) \in Nat
<1> DEFINE A == {T \in SUBSET S : Frees(h, T) \notin Nat}
<1>1. SUFFICES ASSUME A # {} PROVE FALSE
  BY <1>1
<1>2. A \subseteq SUBSET S /\ IsFiniteSet(S)
  BY LoadedSlots
<1> HIDE DEF A
<1>3. PICK T \in A : \A U \in A : U \subseteq T => U = T
  BY <1>1, <1>2, SmallestSubset
<1> USE DEF A
<1>4. T \in SUBSET Loaded(h) /\ Frees(h, T) \notin Nat
  BY <1>3
<1>5. T # {}
  BY <1>4, FreesNothing
<1>6. Member(T) \in T
  BY <1>5 DEF Member
<1>7. Frees(h, T \ {Member(T)}) \in Nat
  BY <1>3, <1>6
<1>8. Footprint[h.mode[Member(T)]] \in Nat
  BY <1>4, <1>6, LoadedSlots
<1>9. Frees(h, T) = Footprint[h.mode[Member(T)]] + Frees(h, T \ {Member(T)})
  BY <1>4, <1>5, LoadedSlots, FreesUnfolds DEF Unfolds
<1> QED
  BY <1>4, <1>7, <1>8, <1>9

(* Any slot may be counted first.                                          *)
LEMMA FreesOneMore ==
  ASSUME NEW h, h.mode \in [Slots -> Models \cup {None}],
         NEW S \in SUBSET Loaded(h), NEW s \in S
  PROVE  Frees(h, S) = Footprint[h.mode[s]] + Frees(h, S \ {s})
<1> DEFINE f(u) == Footprint[h.mode[u]]
           Splits(T) == \A u \in T : Frees(h, T) = f(u) + Frees(h, T \ {u})
           A == {T \in SUBSET S : ~Splits(T)}
<1>1. SUFFICES ASSUME A # {} PROVE FALSE
  BY <1>1
<1>2. A \subseteq SUBSET S /\ IsFiniteSet(S)
  BY LoadedSlots
<1> HIDE DEF A
<1>3. PICK T \in A : \A U \in A : U \subseteq T => U = T
  BY <1>1, <1>2, SmallestSubset
<1> USE DEF A
<1>4. T \in SUBSET Loaded(h)
  BY <1>3
<1>5. PICK x \in T : Frees(h, T) # f(x) + Frees(h, T \ {x})
  BY <1>3
<1> DEFINE y == Member(T)
<1>6. y \in T
  BY <1>5 DEF Member
<1> HIDE DEF y
<1>7. Frees(h, T) = f(y) + Frees(h, T \ {y})
  BY <1>4, <1>5, LoadedSlots, FreesUnfolds DEF Unfolds, y
<1>8. x # y
  BY <1>5, <1>7
<1>9. Splits(T \ {x}) /\ Splits(T \ {y})
  BY <1>3, <1>5, <1>6
<1>10. /\ Frees(h, T \ {x}) = f(y) + Frees(h, (T \ {x}) \ {y})
      /\ Frees(h, T \ {y}) = f(x) + Frees(h, (T \ {y}) \ {x})
  BY <1>5, <1>6, <1>8, <1>9
<1>11. (T \ {x}) \ {y} = (T \ {y}) \ {x}
  OBVIOUS
<1>12. Frees(h, (T \ {x}) \ {y}) \in Nat
  BY <1>4, FreesType
<1>13. f(x) \in Nat /\ f(y) \in Nat
  BY <1>4, <1>5, <1>6, LoadedSlots
<1> HIDE DEF f, Splits, A
<1> QED
  BY <1>5, <1>7, <1>10, <1>11, <1>12, <1>13

(* What a part frees and what the rest frees add up.                       *)
LEMMA FreesApart ==
  ASSUME NEW h, h.mode \in [Slots -> Models \cup {None}],
         NEW S \in SUBSET Loaded(h), NEW T \in SUBSET S
  PROVE  Frees(h, S) = Frees(h, T) + Frees(h, S \ T)
<1> DEFINE f(u) == Footprint[h.mode[u]]
           Adds(U) == Frees(h, S) = Frees(h, U) + Frees(h, S \ U)
           A == {U \in SUBSET S : ~Adds(U)}
<1>1. SUFFICES ASSUME A # {} PROVE FALSE
  BY <1>1
<1>2. A \subseteq SUBSET S /\ IsFiniteSet(S)
  BY LoadedSlots
<1> HIDE DEF A
<1>3. PICK U \in A : \A V \in A : V \subseteq U => V = U
  BY <1>1, <1>2, SmallestSubset
<1> USE DEF A
<1>4. U \in SUBSET S /\ ~Adds(U)
  BY <1>3
<1>5. U # {}
  <2>1. Frees(h, S) \in Nat
    BY FreesType
  <2>2. S \ {} = S
    OBVIOUS
  <2>3. Adds({})
    BY <2>1, <2>2, FreesNothing
  <2> QED
    BY <1>4, <2>3
<1>6. PICK x \in U : TRUE
  BY <1>5
<1> DEFINE V == U \ {x}
<1>7. V \in SUBSET S /\ Adds(V)
  BY <1>3, <1>6
<1>8. Frees(h, U) = f(x) + Frees(h, V)
  BY <1>4, <1>6, FreesOneMore
<1>9. Frees(h, S \ V) = f(x) + Frees(h, S \ U)
  <2>1. S \ V \in SUBSET Loaded(h) /\ x \in S \ V /\ (S \ V) \ {x} = S \ U
    BY <1>4, <1>6
  <2> QED
    BY <2>1, FreesOneMore
<1>10. f(x) \in Nat /\ Frees(h, V) \in Nat /\ Frees(h, S \ U) \in Nat
  BY <1>4, <1>6, LoadedSlots, FreesType
<1> HIDE DEF f, V
<1> QED
  BY <1>4, <1>7, <1>8, <1>9, <1>10

(* More slots free no less.                                                *)
LEMMA FreesMonotone ==
  ASSUME NEW h, h.mode \in [Slots -> Models \cup {None}],
         NEW S \in SUBSET Loaded(h), NEW T \in SUBSET S
  PROVE  Frees(h, T) <= Frees(h, S)
<1>1. Frees(h, S) = Frees(h, T) + Frees(h, S \ T)
  BY FreesApart
<1>2. Frees(h, T) \in Nat /\ Frees(h, S \ T) \in Nat
  BY FreesType
<1> QED
  BY <1>1, <1>2

-----------------------------------------------------------------------------
(* The order of eviction.                                                  *)

(* It is a total order of the loaded slots.                                *)
LEMMA BeforeIsAnOrder ==
  ASSUME NEW h, h.mode \in [Slots -> Models \cup {None}],
         NEW s \in Loaded(h), NEW u \in Loaded(h)
  PROVE  /\ ~Before(h, s, s)
         /\ Before(h, s, u) => ~Before(h, u, s)
         /\ s # u => Before(h, s, u) \/ Before(h, u, s)
         /\ \A w \in Loaded(h) : Before(h, w, s) /\ Before(h, s, u) => Before(h, w, u)
<1>1. /\ Loaded(h) \subseteq Nat
      /\ \A w \in Loaded(h) : Footprint[h.mode[w]] \in Nat
  BY LoadedSlots
<1> QED
  BY <1>1 DEF Before

(* Of some loaded slots one is the first in the order of eviction.         *)
LEMMA FirstExists ==
  ASSUME NEW h, h.mode \in [Slots -> Models \cup {None}],
         NEW S \in SUBSET Loaded(h), S # {}
  PROVE  \E s \in S : \A u \in S \ {s} : Before(h, s, u)
<1> DEFINE f(s) == Footprint[h.mode[s]]
<1>1. /\ S \subseteq Slots
      /\ \A s \in S : f(s) \in Nat
  BY DEF Loaded
<1>2. {f(s) : s \in S} \in SUBSET Nat /\ {f(s) : s \in S} # {}
  <2>1. \A z \in {f(s) : s \in S} : z \in Nat
    BY <1>1
  <2>2. PICK s \in S : TRUE
    OBVIOUS
  <2>3. f(s) \in {f(u) : u \in S}
    BY <2>2
  <2> QED
    BY <2>1, <2>3
<1>3. PICK x \in {f(s) : s \in S} : \A y \in {f(s) : s \in S} : x <= y
  BY <1>2, LeastNatural
<1> DEFINE T == {s \in S : f(s) = x}
<1>4. T \in SUBSET Nat /\ T # {}
  BY <1>1, <1>3
<1>5. PICK t \in T : \A u \in T : t <= u
  BY <1>4, LeastNatural
<1>6. ASSUME NEW u \in S \ {t} PROVE Before(h, t, u)
  <2>1. f(t) \in Nat /\ f(u) \in Nat /\ t \in Nat /\ u \in Nat
    BY <1>1
  <2>2. f(t) <= f(u)
    BY <1>3
  <2>3. f(t) = f(u) => t < u
    BY <2>1, <1>5
  <2> QED
    BY <2>1, <2>2, <2>3 DEF Before
<1> QED
  BY <1>5, <1>6

(* And one is the last.                                                    *)
LEMMA LastExists ==
  ASSUME NEW h, h.mode \in [Slots -> Models \cup {None}],
         NEW S \in SUBSET Loaded(h), S # {}
  PROVE  \E s \in S : \A u \in S \ {s} : Before(h, u, s)
<1> DEFINE HasLast(T) == \E s \in T : \A u \in T \ {s} : Before(h, u, s)
           A == {T \in SUBSET S : T # {} /\ ~HasLast(T)}
<1>1. SUFFICES ASSUME A # {} PROVE FALSE
  BY <1>1
<1>2. A \subseteq SUBSET S /\ IsFiniteSet(S)
  BY LoadedSlots
<1> HIDE DEF A, HasLast
<1>3. PICK T \in A : \A U \in A : U \subseteq T => U = T
  BY ONLY <1>1, <1>2, SmallestSubset
<1> USE DEF A, HasLast
<1>4. PICK x \in T : TRUE
  BY <1>3
<1>5. CASE T \ {x} = {}
  BY <1>3, <1>4, <1>5
<1>6. CASE T \ {x} # {}
  <2>1. T \ {x} \notin A
    BY <1>3, <1>4
  <2>2. PICK y \in T \ {x} : \A z \in (T \ {x}) \ {y} : Before(h, z, y)
    BY <2>1, <1>3, <1>6
  <2>3. x \in Loaded(h) /\ y \in Loaded(h) /\ T \subseteq Loaded(h)
    BY <1>3, <1>4, <2>2
  <2>4. CASE Before(h, x, y)
    <3>1. \A z \in T \ {y} : Before(h, z, y)
      BY <2>2, <2>4
    <3> QED
      BY <1>3, <2>2, <3>1
  <2>5. CASE Before(h, y, x)
    <3>1. \A z \in T \ {x} : Before(h, z, x)
      BY <2>2, <2>3, <2>5, BeforeIsAnOrder
    <3> QED
      BY <1>3, <1>4, <3>1
  <2> QED
    BY <2>2, <2>3, <2>4, <2>5, BeforeIsAnOrder
<1> QED
  BY <1>5, <1>6

-----------------------------------------------------------------------------
(* The evictions.                                                          *)

(* A host as the probes describe it.                                       *)
IsHost(h) ==
  /\ h.mode \in [Slots -> Models \cup {None}] /\ h.load \in Loads
  /\ h.resident \in Nat /\ h.comfy \in Nat

(* What there is room for, less what a load in flight has set aside.       *)
LEMMA BudgetTypes ==
  ASSUME NEW h, IsHost(h), NEW m \in Models
  PROVE  /\ Used(h) \in Nat /\ FreeBytes(h) \in Nat /\ InFlight(h, m) \in Nat
         /\ EffectiveFree(h, m) \in Int /\ Need[m] \in Nat
<1>1. Frees(h, Loaded(h)) \in Nat
  BY FreesType DEF IsHost
<1>2. Used(h) \in Nat
  BY <1>1 DEF Used, IsHost
<1>3. FreeBytes(h) \in Nat
  BY <1>2 DEF FreeBytes
<1>4. InFlight(h, m) \in Nat
  BY DEF InFlight
<1> QED
  BY <1>2, <1>3, <1>4 DEF EffectiveFree

(* The slots before another are fewer than those before a later one.       *)
LEMMA SmallerGrows ==
  ASSUME NEW h, h.mode \in [Slots -> Models \cup {None}],
         NEW s \in Loaded(h), NEW u \in Loaded(h), Before(h, u, s)
  PROVE  Smaller(h, u) \in SUBSET Smaller(h, s)
BY BeforeIsAnOrder DEF Smaller

(* Whatever is evicted, what goes before it is evicted as well.            *)
LEMMA EvictionsArePrefix ==
  ASSUME NEW h, IsHost(h), NEW m \in Models,
         NEW s \in Evictions(h, m), NEW u \in Loaded(h), Before(h, u, s)
  PROVE  u \in Evictions(h, m)
<1>1. s \in Loaded(h) /\ EffectiveFree(h, m) + Frees(h, Smaller(h, s)) < Need[m]
  BY DEF Evictions
<1>2. /\ Smaller(h, s) \in SUBSET Loaded(h)
      /\ Smaller(h, u) \in SUBSET Smaller(h, s)
  BY <1>1, SmallerGrows DEF Smaller, IsHost
<1>3. Frees(h, Smaller(h, u)) <= Frees(h, Smaller(h, s))
  BY <1>2, FreesMonotone DEF IsHost
<1>4. Frees(h, Smaller(h, u)) \in Nat /\ Frees(h, Smaller(h, s)) \in Nat
  BY <1>2, FreesType DEF IsHost
<1>5. EffectiveFree(h, m) + Frees(h, Smaller(h, u)) < Need[m]
  BY <1>1, <1>3, <1>4, BudgetTypes
<1> QED
  BY <1>5 DEF Evictions

(* The last slot to go is needed: without it memory would not suffice.     *)
LEMMA LastIsNeeded ==
  ASSUME NEW h, IsHost(h), NEW m \in Models,
         NEW s \in Evictions(h, m),
         \A u \in Evictions(h, m) \ {s} : Before(h, u, s)
  PROVE  EffectiveFree(h, m) + Frees(h, Evictions(h, m) \ {s}) < Need[m]
<1>1. s \in Loaded(h) /\ EffectiveFree(h, m) + Frees(h, Smaller(h, s)) < Need[m]
  BY DEF Evictions
<1>2. Evictions(h, m) \ {s} = Smaller(h, s)
  <2>1. ASSUME NEW u \in Evictions(h, m) \ {s} PROVE u \in Smaller(h, s)
    BY DEF Evictions, Smaller
  <2>2. ASSUME NEW u \in Smaller(h, s) PROVE u \in Evictions(h, m) \ {s}
    <3>1. u \in Loaded(h) /\ Before(h, u, s)
      BY DEF Smaller
    <3> QED
      BY <1>1, <3>1, EvictionsArePrefix, BeforeIsAnOrder DEF IsHost
  <2> QED
    BY <2>1, <2>2
<1> QED
  BY <1>1, <1>2

(* If the evictions do not suffice, they are all there is to evict.        *)
LEMMA ShortOfEverything ==
  ASSUME NEW h, IsHost(h), NEW m \in Models,
         EffectiveFree(h, m) + Frees(h, Evictions(h, m)) < Need[m]
  PROVE  Evictions(h, m) = Loaded(h)
<1> DEFINE rest == Loaded(h) \ Evictions(h, m)
<1>1. Evictions(h, m) \in SUBSET Loaded(h)
  BY DEF Evictions
<1>2. SUFFICES ASSUME rest # {} PROVE FALSE
  BY <1>1, <1>2
<1>3. PICK s \in rest : \A u \in rest \ {s} : Before(h, s, u)
  <2>1. rest \in SUBSET Loaded(h)
    OBVIOUS
  <2> HIDE DEF rest
  <2> QED
    BY <1>2, <2>1, FirstExists DEF IsHost
<1>4. Smaller(h, s) \in SUBSET Evictions(h, m)
  <2>1. ASSUME NEW u \in Smaller(h, s), u \notin Evictions(h, m) PROVE FALSE
    <3>1. u \in rest /\ Before(h, u, s)
      BY <2>1 DEF Smaller
    <3>2. u # s /\ ~Before(h, s, u)
      BY <1>3, <3>1, BeforeIsAnOrder DEF IsHost
    <3> QED
      BY <1>3, <3>1, <3>2
  <2> QED
    BY <2>1
<1>5. Frees(h, Smaller(h, s)) <= Frees(h, Evictions(h, m))
  BY <1>1, <1>4, FreesMonotone DEF IsHost
<1>6. Frees(h, Smaller(h, s)) \in Nat /\ Frees(h, Evictions(h, m)) \in Nat
  BY <1>1, <1>4, FreesType DEF IsHost
<1>7. EffectiveFree(h, m) + Frees(h, Smaller(h, s)) < Need[m]
  BY <1>5, <1>6, BudgetTypes
<1> QED
  BY <1>3, <1>7 DEF Evictions

(* Among the sets of loaded slots that go in the order of eviction, the    *)
(* loop of FitPlan finds the least that suffices, and everything if none   *)
(* does (go/internal/engine/memory.go: smallest footprint first, stop as   *)
(* soon as the need is met).                                               *)
THEOREM EvictionsAreLeast ==
  ASSUME NEW h, IsHost(h), NEW m \in Models
  PROVE  LET evict == Evictions(h, m)
             Suffices(S) == EffectiveFree(h, m) + Frees(h, S) >= Need[m]
             Prefix(S) == \A s \in S, u \in Loaded(h) : Before(h, u, s) => u \in S
         IN  /\ evict \subseteq Loaded(h) /\ Prefix(evict)
             /\ Suffices(evict) \/ evict = Loaded(h)
             /\ \A S \in SUBSET Loaded(h) :
                  Prefix(S) /\ Suffices(S) => evict \subseteq S
<1> DEFINE evict == Evictions(h, m)
           Suffices(S) == EffectiveFree(h, m) + Frees(h, S) >= Need[m]
           Prefix(S) == \A s \in S, u \in Loaded(h) : Before(h, u, s) => u \in S
<1>1. evict \in SUBSET Loaded(h) /\ Prefix(evict)
  BY EvictionsArePrefix DEF Evictions
<1>2. Suffices(evict) \/ evict = Loaded(h)
  <2>1. Frees(h, Evictions(h, m)) \in Nat
    BY <1>1, FreesType DEF IsHost
  <2> QED
    BY <2>1, BudgetTypes, ShortOfEverything
<1>3. ASSUME NEW S \in SUBSET Loaded(h), Prefix(S), Suffices(S),
             NEW s \in evict
      PROVE  s \in S
  <2>1. s \in Loaded(h) /\ EffectiveFree(h, m) + Frees(h, Smaller(h, s)) < Need[m]
    BY DEF Evictions
  <2>2. SUFFICES ASSUME s \notin S PROVE FALSE
    BY <2>2
  <2>3. S \in SUBSET Smaller(h, s)
    <3>1. ASSUME NEW u \in S PROVE u \in Smaller(h, s)
      <4>1. u \in Loaded(h) /\ u # s /\ ~Before(h, s, u)
        BY <1>3, <2>1, <2>2
      <4> QED
        BY <2>1, <4>1, BeforeIsAnOrder DEF Smaller, IsHost
    <3> QED
      BY <3>1
  <2>4. Smaller(h, s) \in SUBSET Loaded(h)
    BY DEF Smaller
  <2>5. Frees(h, S) <= Frees(h, Smaller(h, s))
    BY <2>3, <2>4, FreesMonotone DEF IsHost
  <2>6. Frees(h, S) \in Nat /\ Frees(h, Smaller(h, s)) \in Nat
    BY <2>4, FreesType DEF IsHost
  <2> QED
    BY <1>3, <2>1, <2>5, <2>6, BudgetTypes
<1> QED
  BY <1>1, <1>2, <1>3

-----------------------------------------------------------------------------
(* The plan.                                                               *)

GivesUp(p) == ~p.fits /\ p.evict = {} /\ ~p.comfy

(* A plan that does not give up suffices: with its evictions, and ComfyUI  *)
(* gone if it says so, there is enough.                                    *)
THEOREM FitPlanSuffices ==
  ASSUME NEW h, IsHost(h), NEW m \in Models, ~GivesUp(FitPlan(h, m))
  PROVE  LET p == FitPlan(h, m)
         IN  Need[m] <= EffectiveFree(h, m) + Frees(h, p.evict)
                        + (IF p.comfy THEN h.comfy ELSE 0)
<1> DEFINE evict == Evictions(h, m)
           free == EffectiveFree(h, m)
           enough == free + Frees(h, evict) >= Need[m]
           withComfy == /\ ~enough /\ h.comfy > 0
                        /\ free + Frees(h, evict) + h.comfy >= Need[m]
           p == FitPlan(h, m)
<1>1. evict \in SUBSET Loaded(h)
  BY DEF Evictions
<1>2. Frees(h, evict) \in Nat /\ h.comfy \in Nat
  BY <1>1, FreesType DEF IsHost
<1>3. CASE Need[m] <= free
  <2>1. p.evict = {} /\ p.comfy = FALSE
    BY <1>3 DEF FitPlan
  <2> QED
    BY <1>3, <2>1, FreesNothing, BudgetTypes
<1>4. CASE ~(Need[m] <= free) /\ (enough \/ withComfy)
  <2>1. p.evict = evict /\ p.comfy = withComfy
    BY <1>4 DEF FitPlan
  <2> HIDE DEF p, evict, free
  <2> QED
    BY <1>2, <1>4, <2>1, BudgetTypes DEF p, free
<1>5. CASE ~(Need[m] <= free) /\ ~(enough \/ withComfy)
  BY <1>5 DEF FitPlan, GivesUp
<1> QED
  BY <1>3, <1>4, <1>5

(* FitPlan gives up exactly when all the loaded slots and ComfyUI together *)
(* would not make enough room (the refusal "does not fit" of place() that  *)
(* no waiting can lift).                                                   *)
THEOREM FitPlanGivesUp ==
  ASSUME NEW h, IsHost(h), NEW m \in Models
  PROVE  GivesUp(FitPlan(h, m))
         <=> EffectiveFree(h, m) + Frees(h, Loaded(h)) + h.comfy < Need[m]
<1> DEFINE evict == Evictions(h, m)
           free == EffectiveFree(h, m)
           enough == free + Frees(h, evict) >= Need[m]
           withComfy == /\ ~enough /\ h.comfy > 0
                        /\ free + Frees(h, evict) + h.comfy >= Need[m]
           all == Frees(h, Loaded(h))
<1>1. evict \in SUBSET Loaded(h)
  BY DEF Evictions
<1>2. /\ Frees(h, evict) \in Nat /\ all \in Nat /\ h.comfy \in Nat
      /\ Frees(h, evict) <= all /\ free \in Int /\ Need[m] \in Nat
  BY <1>1, FreesType, FreesMonotone, BudgetTypes DEF IsHost
<1>3. CASE Need[m] <= free
  <2>1. ~GivesUp(FitPlan(h, m))
    BY <1>3 DEF FitPlan, GivesUp
  <2> HIDE DEF all, evict, free
  <2> QED
    BY <1>2, <1>3, <2>1 DEF free, all
<1>4. CASE ~(Need[m] <= free) /\ (enough \/ withComfy)
  <2>1. ~GivesUp(FitPlan(h, m))
    <3>1. FitPlan(h, m).evict = evict /\ FitPlan(h, m).comfy = withComfy
      BY <1>4 DEF FitPlan
    <3>2. enough => evict # {}
      BY <1>2, <1>4, FreesNothing
    <3> QED
      BY <1>4, <3>1, <3>2 DEF GivesUp
  <2>2. free + all + h.comfy >= Need[m]
    <3> HIDE DEF all, evict, free
    <3> QED
      BY <1>2, <1>4
  <2> QED
    BY <1>2, <2>1, <2>2
<1>5. CASE ~(Need[m] <= free) /\ ~(enough \/ withComfy)
  <2>1. GivesUp(FitPlan(h, m))
    BY <1>5 DEF FitPlan, GivesUp
  <2>2. evict = Loaded(h)
    BY <1>2, <1>5, ShortOfEverything
  <2>3. free + all + h.comfy < Need[m]
    <3> HIDE DEF all, evict, free
    <3>1. free + all < Need[m]
      BY <1>2, <1>5, <2>2 DEF all
    <3> QED
      BY <1>2, <1>5, <2>2, <3>1 DEF all
  <2> QED
    BY <2>1, <2>3
<1> QED
  BY <1>3, <1>4, <1>5

(* What is free, what the slots hold and what ComfyUI holds is no more     *)
(* than there is, as long as what is taken is.                             *)
LEMMA BudgetHolds ==
  ASSUME NEW h, IsHost(h), Used(h) <= Total
  PROVE  FreeBytes(h) + Frees(h, Loaded(h)) + h.comfy <= Total
<1>1. Frees(h, Loaded(h)) \in Nat
  BY FreesType DEF IsHost
<1> QED
  BY <1>1 DEF FreeBytes, Used, IsHost

(* Evictions that include those of a plan that does not give up, with      *)
(* ComfyUI gone if it says so, leave room for the model beside what stays  *)
(* and beside what is set aside for a load in flight.                      *)
THEOREM EvictedPlanLeavesRoom ==
  ASSUME NEW h, IsHost(h), Used(h) <= Total, NEW m \in Models,
         ~GivesUp(FitPlan(h, m)),
         NEW evict, FitPlan(h, m).evict \subseteq evict
  PROVE  Need[m] + InFlight(h, m) + Frees(h, Loaded(h) \ evict)
           + (IF FitPlan(h, m).comfy THEN 0 ELSE h.comfy) <= Total
<1> DEFINE p == FitPlan(h, m)
           out == Loaded(h) \cap evict
           gone == IF p.comfy THEN h.comfy ELSE 0
           stays == IF p.comfy THEN 0 ELSE h.comfy
<1>1. p.evict \in SUBSET out /\ out \in SUBSET Loaded(h)
  BY DEF FitPlan, Evictions
<1>2. Frees(h, Loaded(h)) = Frees(h, out) + Frees(h, Loaded(h) \ out)
  BY <1>1, FreesApart DEF IsHost
<1>3. Loaded(h) \ out = Loaded(h) \ evict
  OBVIOUS
<1>4. Frees(h, p.evict) <= Frees(h, out)
  BY <1>1, FreesMonotone DEF IsHost
<1>5. /\ Frees(h, p.evict) \in Nat /\ Frees(h, out) \in Nat
      /\ Frees(h, Loaded(h)) \in Nat /\ Frees(h, Loaded(h) \ evict) \in Nat
  BY <1>1, FreesType DEF IsHost
<1>6. Need[m] <= FreeBytes(h) - InFlight(h, m) + Frees(h, p.evict) + gone
  BY FitPlanSuffices DEF EffectiveFree
<1>7. h.comfy \in Nat /\ gone \in Nat /\ stays \in Nat /\ gone + stays = h.comfy
  BY DEF IsHost
<1>8. /\ Need[m] \in Nat /\ FreeBytes(h) \in Nat /\ InFlight(h, m) \in Nat
      /\ Total \in Nat /\ FreeBytes(h) + Frees(h, Loaded(h)) + h.comfy <= Total
  BY BudgetTypes, BudgetHolds
<1> HIDE DEF p, out, gone, stays
<1>9. Need[m] + InFlight(h, m) + Frees(h, Loaded(h) \ evict) + stays <= Total
  <2>1. Frees(h, Loaded(h)) = Frees(h, out) + Frees(h, Loaded(h) \ evict)
    BY <1>2, <1>3
  <2>2. Need[m] + InFlight(h, m) <= FreeBytes(h) + Frees(h, p.evict) + gone
    BY ONLY <1>5, <1>6, <1>7, <1>8
  <2>3. Need[m] + InFlight(h, m) <= FreeBytes(h) + Frees(h, out) + gone
    BY ONLY <2>2, <1>4, <1>5, <1>7, <1>8
  <2> QED
    BY ONLY <2>1, <2>3, <1>5, <1>7, <1>8
<1> QED
  BY <1>9 DEF stays, p
=============================================================================
