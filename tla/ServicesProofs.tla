--------------------------- MODULE ServicesProofs ---------------------------
(* Proofs about the parts of Services, for every value of their constants: each *)
(* part is first shown to follow its own specification, whatever the others do, *)
(* and its properties are then proved of that.                                  *)
EXTENDS Services, FiniteSetTheorems, SequenceTheorems, TLAPS

---------------------------------------------------------------------------
(* The parts *)

LEMMA PartsStart ==
  Init => /\ Syscall!Init /\ Alerts!Init /\ Degrade!Init /\ Caches!Init /\ Sched!Init
          /\ Filters!Init /\ Kernel2!Init /\ Client!Init /\ Router!Init /\ Web!Init
          /\ Watch!Init /\ Tracker!Init
  BY DEF Init

LEMMA EngineSteps ==
  [Next]_vars =>
    /\ [Syscall!Next]_(Syscall!syscallVars)
    /\ [Alerts!Next]_(Alerts!metricsVars)
    /\ [Degrade!Memory]_(Degrade!memoryVars)
    /\ [Caches!PageHistory]_(Caches!pageVars)
    /\ [Caches!Records]_(Caches!recordVars)
  BY DEF Next, vars, syscall, alerts, memory, pages, records, Syscall!syscallVars,
         Alerts!metricsVars, Degrade!memoryVars, Caches!pageVars, Caches!recordVars,
         Caches!lsmVars

LEMMA KernelSteps ==
  [Next]_vars =>
    /\ [Sched!Next]_(Sched!schedVars)
    /\ [Filters!Next]_(Filters!filterVars)
    /\ [Kernel2!Next]_(Kernel2!kernelVars)
    /\ [Tracker!Next]_(Tracker!trackerVars)
  BY DEF Next, vars, sched, filters, kernel2, tracker, Sched!schedVars, Filters!filterVars,
         Kernel2!kernelVars, Kernel2!configVars, Kernel2!requestingVars, Tracker!trackerVars

LEMMA DaemonSteps ==
  [Next]_vars =>
    /\ [Client!Next]_(Client!gatewayVars)
    /\ [Router!Next]_(Router!routerVars)
    /\ [Web!Next]_(Web!webVars)
    /\ [Watch!Next]_(Watch!monitorVars)
  BY DEF Next, vars, client, router, web, watch, Client!gatewayVars, Client!clientRest,
         Router!routerVars, Web!webVars, Web!clientVars, Watch!monitorVars, Watch!historyVars

(* Each part that is whole in one turn behaves as its own module says.          *)
THEOREM PartsFollowTheirSpecs ==
  Spec => /\ Syscall!Spec /\ Alerts!Spec /\ Sched!Spec /\ Filters!Spec /\ Kernel2!Spec
          /\ Client!Spec /\ Router!Spec /\ Web!Spec /\ Watch!Spec /\ Tracker!Spec
  BY PartsStart, EngineSteps, KernelSteps, DaemonSteps, PTL
     DEF Spec, Syscall!Spec, Alerts!Spec, Sched!Spec, Filters!Spec, Kernel2!Spec,
         Client!Spec, Router!Spec, Web!Spec, Watch!Spec, Tracker!Spec


---------------------------------------------------------------------------
(* Finite sets, sums over them and sequences *)

(* Strong induction over the subsets of a finite set, for a set T of sets.      *)
LEMMA SubsetInduction ==
  ASSUME NEW S, IsFiniteSet(S), NEW T,
         \A U \in SUBSET S : (\A V \in SUBSET U : V # U => V \in T) => U \in T
  PROVE  SUBSET S \subseteq T
<1> DEFINE bad == {U \in SUBSET S : U \notin T}
<1>1. IsWellFoundedOn(StrictSubsetOrdering(S), SUBSET S)
  BY FS_StrictSubsetOrderingWellFounded, FS_FiniteSubsetsOfFinite
<1>2. ASSUME bad # {} PROVE FALSE
  <2>1. bad \subseteq SUBSET S
    OBVIOUS
  <2> HIDE DEF bad
  <2>2. PICK U \in bad : \A V \in bad : <<V, U>> \notin StrictSubsetOrdering(S)
    BY <1>1, <1>2, <2>1, WFMin
  <2>3. ASSUME NEW V \in SUBSET U, V # U PROVE V \in T
    <3>1. V \in SUBSET S
      BY <2>1
    <3>2. <<V, U>> \in StrictSubsetOrdering(S)
      BY <2>1, <2>3, <3>1 DEF StrictSubsetOrdering
    <3> QED BY <2>2, <3>1, <3>2 DEF bad
  <2> QED BY <2>1, <2>2, <2>3 DEF bad
<1> QED BY <1>2

LEMMA LeastExists ==
  ASSUME NEW S, IsFiniteSet(S), S \subseteq Int, S # {}
  PROVE  \E m \in S : \A k \in S : m <= k
<1> DEFINE T == {U \in SUBSET S : U = {} \/ \E m \in U : \A k \in U : m <= k}
<1>1. ASSUME NEW U \in SUBSET S, \A V \in SUBSET U : V # U => V \in T
      PROVE  U \in T
  <2>1. CASE U = {}
    BY <2>1
  <2>2. CASE U # {}
    <3>1. PICK x \in U : TRUE
      BY <2>2
    <3>2. U \ {x} \in T
      BY <1>1, <3>1
    <3>3. CASE U \ {x} = {}
      <4>1. \A k \in U : x <= k
        BY <3>1, <3>3
      <4> QED BY <3>1, <4>1
    <3>4. CASE U \ {x} # {}
      <4>1. PICK m \in U \ {x} : \A k \in U \ {x} : m <= k
        BY <3>2, <3>4
      <4>2. CASE m <= x
        BY <4>1, <4>2
      <4>3. CASE ~(m <= x)
        <5>1. \A k \in U : x <= k
          BY <4>1, <4>3
        <5> QED BY <3>1, <5>1
      <4> QED BY <4>2, <4>3
    <3> QED BY <3>3, <3>4
  <2> QED BY <2>1, <2>2
<1> HIDE DEF T
<1>2. SUBSET S \subseteq T
  BY <1>1, SubsetInduction
<1>3. S \in T
  BY <1>2
<1> QED BY <1>3 DEF T

LEMMA NatInductionOnSet ==
  ASSUME NEW T, 0 \in T, \A n \in Nat : n \in T => n + 1 \in T
  PROVE  Nat \subseteq T
<1> SUFFICES ASSUME NEW n \in Nat, n \notin T PROVE FALSE
  OBVIOUS
<1> DEFINE S == {k \in 0..n : k \notin T}
<1>1. IsFiniteSet(S) /\ S \subseteq Int /\ S # {}
  <2>1. IsFiniteSet(0..n)
    BY FS_Interval
  <2>2. S \in SUBSET (0..n)
    OBVIOUS
  <2> QED BY <2>1, <2>2, FS_Subset
<1>2. PICK m \in S : \A k \in S : m <= k
  <2> HIDE DEF S
  <2> QED BY <1>1, LeastExists
<1>3. m # 0 /\ m \in Nat /\ m <= n
  BY <1>2
<1>4. m - 1 \in Nat /\ m - 1 \in T
  <2>1. m - 1 \in 0..n /\ ~(m <= m - 1)
    BY <1>3
  <2> QED BY <1>2, <2>1
<1>5. m - 1 + 1 \in T
  BY <1>4
<1> QED BY <1>2, <1>3, <1>5

(* c takes an element out of each set.                                          *)
Picks(c, S) == \A s \in SUBSET S : s # {} => c[s] \in s

(* g folds the subsets of S: h is the step, from the value base of the empty    *)
(* set, and c the order in which elements are taken.                            *)
IsFold(g, S, G, base, h, c) ==
  /\ g \in [SUBSET S -> G]
  /\ g[{}] = base
  /\ \A s \in SUBSET S : s # {} => g[s] = h[c[s]][g[s \ {c[s]}]]

LEMMA FoldExists ==
  ASSUME NEW S, IsFiniteSet(S), NEW G, NEW base \in G, NEW h \in [S -> [G -> G]],
         NEW c, Picks(c, S)
  PROVE  \E g : IsFold(g, S, G, base, h, c)
<1> USE DEF Picks
<1> DEFINE D(n) == {s \in SUBSET S : Cardinality(s) <= n}
           Folds(n, g) == \A s \in D(n) :
                            g[s] = IF s = {} THEN base ELSE h[c[s]][g[s \ {c[s]}]]
           T == {n \in Nat : \E g \in [SUBSET S -> G] : Folds(n, g)}
<1>0. \A s \in SUBSET S : IsFiniteSet(s) /\ Cardinality(s) \in Nat
  BY FS_Subset, FS_CardinalityType
<1>1. 0 \in T
  <2> DEFINE g == [s \in SUBSET S |-> base]
  <2>1. \A s \in D(0) : s = {}
    <3> SUFFICES ASSUME NEW s \in SUBSET S, Cardinality(s) <= 0 PROVE s = {}
      OBVIOUS
    <3>1. Cardinality(s) = 0
      BY <1>0
    <3> QED BY <1>0, <3>1, FS_EmptySet
  <2>2. Folds(0, g)
    BY <2>1
  <2>3. g \in [SUBSET S -> G]
    OBVIOUS
  <2> QED BY <2>2, <2>3
<1>2. ASSUME NEW n \in Nat, n \in T PROVE n + 1 \in T
  <2>1. PICK g \in [SUBSET S -> G] : Folds(n, g)
    BY <1>2
  <2> DEFINE next == [s \in SUBSET S |-> IF s = {} THEN base
                                         ELSE h[c[s]][g[s \ {c[s]}]]]
  <2>2. next \in [SUBSET S -> G]
    <3> SUFFICES ASSUME NEW s \in SUBSET S, s # {} PROVE h[c[s]][g[s \ {c[s]}]] \in G
      OBVIOUS
    <3>1. c[s] \in S /\ g[s \ {c[s]}] \in G
      OBVIOUS
    <3> QED BY <3>1
  <2>3. \A s \in D(n) : next[s] = g[s]
    BY <2>1
  <2>4. ASSUME NEW s \in D(n + 1), s # {}
        PROVE  next[s] = h[c[s]][next[s \ {c[s]}]]
    <3>1. Cardinality(s \ {c[s]}) = Cardinality(s) - 1
      <4>1. c[s] \in s
        BY <2>4
      <4> QED BY <1>0, <4>1, FS_RemoveElement
    <3>2. s \ {c[s]} \in D(n)
      BY <1>0, <3>1
    <3> QED BY <2>3, <2>4, <3>2
  <2>5. Folds(n + 1, next)
    BY <2>4
  <2> HIDE DEF next, Folds
  <2> QED BY <2>2, <2>5
<1>3. Cardinality(S) \in T
  <2> HIDE DEF T
  <2>1. Nat \subseteq T
    BY <1>1, <1>2, NatInductionOnSet
  <2> QED BY <2>1, FS_CardinalityType
<1>4. PICK g \in [SUBSET S -> G] : Folds(Cardinality(S), g)
  BY <1>3
<1>5. \A s \in SUBSET S : s \in D(Cardinality(S))
  BY FS_Subset
<1>6. \A s \in SUBSET S : g[s] = IF s = {} THEN base ELSE h[c[s]][g[s \ {c[s]}]]
  BY <1>4, <1>5
<1>7. IsFold(g, S, G, base, h, c)
  BY <1>6 DEF IsFold
<1> QED BY <1>7

(* g sums the values of f over the subsets of S, one element after the other.   *)
IsSum(g, f, S) ==
  /\ g \in [SUBSET S -> Int]
  /\ g[{}] = 0
  /\ \A s \in SUBSET S : s # {} =>
       g[s] = f[CHOOSE x \in s : TRUE] + g[s \ {CHOOSE x \in s : TRUE}]

(* g is defined from the elements that MapThenSumSet chooses ...                *)
SumUnfolds(g, f, S) ==
  g = [s \in SUBSET S |->
    IF s = {} THEN 0 ELSE f[CHOOSE x \in s : TRUE] + g[s \ {CHOOSE x \in s : TRUE}]]

(* ... and there is such a function, which is a sum.                            *)
LEMMA SumUnfolded ==
  ASSUME NEW S, IsFiniteSet(S), NEW f \in [S -> Int], NEW g, SumUnfolds(g, f, S)
  PROVE  IsSum(g, f, S)
<1>1. \A s \in SUBSET S : g[s] = IF s = {} THEN 0
        ELSE f[CHOOSE x \in s : TRUE] + g[s \ {CHOOSE x \in s : TRUE}]
  BY DEF SumUnfolds
<1>2. g \in [SUBSET S -> Int]
  <2> DEFINE T == {s \in SUBSET S : g[s] \in Int}
  <2>1. ASSUME NEW U \in SUBSET S, \A V \in SUBSET U : V # U => V \in T PROVE U \in T
    <3>1. CASE U = {}
      <4>1. g[U] = 0
        BY <1>1, <3>1
      <4> QED BY <4>1
    <3>2. CASE U # {}
      <4> DEFINE e == CHOOSE x \in U : TRUE
      <4>1. e \in U
        BY <3>2
      <4>2. g[U] = f[e] + g[U \ {e}]
        BY <1>1, <3>2
      <4>3. U \ {e} \in T
        BY <2>1, <4>1
      <4>4. f[e] \in Int /\ g[U \ {e}] \in Int
        BY <4>1, <4>3
      <4> HIDE DEF e
      <4> QED BY <4>2, <4>4
    <3> QED BY <3>1, <3>2
  <2> HIDE DEF T
  <2>2. SUBSET S \subseteq T
    BY <2>1, SubsetInduction
  <2>3. \A s \in SUBSET S : g[s] \in Int
    BY <2>2 DEF T
  <2> QED BY <2>3 DEF SumUnfolds
<1> QED BY <1>1, <1>2 DEF IsSum

LEMMA SumExists ==
  ASSUME NEW S, IsFiniteSet(S), NEW f \in [S -> Int]
  PROVE  \E g : SumUnfolds(g, f, S)
<1> DEFINE c == [s \in SUBSET S |-> CHOOSE x \in s : TRUE]
           h == [x \in S |-> [n \in Int |-> f[x] + n]]
<1>1. Picks(c, S)
  BY DEF Picks
<1>2. h \in [S -> [Int -> Int]]
  OBVIOUS
<1>3. \E g : IsFold(g, S, Int, 0, h, c)
  <2>1. 0 \in Int
    OBVIOUS
  <2> HIDE DEF c, h
  <2> QED BY <1>1, <1>2, <2>1, FoldExists
<1>4. PICK g \in [SUBSET S -> Int] : \A s \in SUBSET S : g[s] = IF s = {} THEN 0
        ELSE f[CHOOSE x \in s : TRUE] + g[s \ {CHOOSE x \in s : TRUE}]
  <2>1. PICK g : IsFold(g, S, Int, 0, h, c)
    BY <1>3
  <2>2. ASSUME NEW s \in SUBSET S, s # {}
        PROVE  g[s] = f[CHOOSE x \in s : TRUE] + g[s \ {CHOOSE x \in s : TRUE}]
    <3>1. c[s] \in S /\ g[s \ {c[s]}] \in Int /\ g[s] = h[c[s]][g[s \ {c[s]}]]
      <4> HIDE DEF c, h
      <4> QED BY <1>1, <2>1, <2>2 DEF IsFold, Picks
    <3> QED BY <2>2, <3>1
  <2> QED BY <2>1, <2>2 DEF IsFold
<1>5. SumUnfolds(g, f, S)
  BY <1>4 DEF SumUnfolds
<1> QED BY <1>5

(* The recursive function by which MapThenSumSet sums f over S.                 *)
Sums(f, S) ==
  CHOOSE g : g = [s \in SUBSET S |->
    IF s = {} THEN 0 ELSE f[CHOOSE x \in s : TRUE] + g[s \ {CHOOSE x \in s : TRUE}]]

LEMMA SumsSum ==
  ASSUME NEW S, IsFiniteSet(S), NEW f \in [S -> Int]
  PROVE  IsSum(Sums(f, S), f, S)
<1> DEFINE Unfolds(g) == g = [s \in SUBSET S |->
             IF s = {} THEN 0
             ELSE f[CHOOSE x \in s : TRUE] + g[s \ {CHOOSE x \in s : TRUE}]]
           sum == Sums(f, S)
<1>1. \E g : Unfolds(g)
  <2>1. PICK g : SumUnfolds(g, f, S)
    BY SumExists
  <2>2. Unfolds(g)
    BY <2>1 DEF SumUnfolds
  <2> QED BY <2>2
<1>2. sum = CHOOSE k : Unfolds(k)
  BY DEF Sums
<1>3. Unfolds(sum)
  <2> HIDE DEF Unfolds, sum
  <2> QED BY <1>1, <1>2
<1> HIDE DEF sum
<1>4. SumUnfolds(sum, f, S)
  BY <1>3 DEF SumUnfolds
<1> HIDE DEF Unfolds
<1>5. IsSum(sum, f, S)
  BY <1>4, SumUnfolded
<1> QED BY <1>5 DEF sum

(* h is f with the value v at x.                                                *)
Changes(h, f, x, v) == h = [f EXCEPT ![x] = v]

(* Sums of functions that differ at one point differ as they do there.          *)
LEMMA SumOfChange ==
  ASSUME NEW S, IsFiniteSet(S), NEW f \in [S -> Int], NEW x \in S, NEW v \in Int,
         NEW h, Changes(h, f, x, v), NEW g, IsSum(g, f, S), NEW k, IsSum(k, h, S)
  PROVE  k[S] \in Int /\ g[S] \in Int /\ k[S] + f[x] = g[S] + v
<1> DEFINE T == {U \in SUBSET S : IF x \in U THEN k[U] + f[x] = g[U] + v ELSE k[U] = g[U]}
<1>0. g \in [SUBSET S -> Int] /\ k \in [SUBSET S -> Int] /\ g[{}] = 0 /\ k[{}] = 0
  BY DEF IsSum
<1>1. ASSUME NEW U \in SUBSET S, \A V \in SUBSET U : V # U => V \in T
      PROVE  U \in T
  <2>1. CASE U = {}
    BY <1>0, <2>1
  <2>2. CASE U # {}
    <3> DEFINE e == CHOOSE y \in U : TRUE
               R == U \ {e}
    <3>1. e \in U /\ R \in SUBSET U /\ R # U /\ R \in SUBSET S
      BY <2>2
    <3>2. R \in T
      BY <1>1, <3>1
    <3>3. g[U] = f[e] + g[R] /\ k[U] = h[e] + k[R]
      BY <2>2 DEF IsSum
    <3>4. g[R] \in Int /\ k[R] \in Int /\ f[e] \in Int /\ f[x] \in Int
      BY <1>0, <3>1
    <3>5. x \in R <=> (x \in U /\ x # e)
      OBVIOUS
    <3>6. IF x \in R THEN k[R] + f[x] = g[R] + v ELSE k[R] = g[R]
      BY <3>2
    <3>7. h[e] = IF e = x THEN v ELSE f[e]
      BY <3>1 DEF Changes
    <3> HIDE DEF e, R
    <3>8. IF x \in U THEN k[U] + f[x] = g[U] + v ELSE k[U] = g[U]
      BY <3>1, <3>3, <3>4, <3>5, <3>6, <3>7
    <3> QED BY <3>8
  <2> QED BY <2>1, <2>2
<1> HIDE DEF T
<1>2. SUBSET S \subseteq T
  BY <1>1, SubsetInduction
<1>3. S \in T
  BY <1>2
<1> QED BY <1>0, <1>3 DEF T

LEMMA FunctionIsSeq ==
  ASSUME NEW S, NEW n \in Nat, NEW f \in [1..n -> S]
  PROVE  f \in Seq(S)
  OBVIOUS

(* The greatest element of a set, as Max has it.                                *)
Greatest(s) == CHOOSE x \in s : \A y \in s : x >= y

LEMMA GreatestExists ==
  ASSUME NEW n \in Nat, NEW s \in SUBSET (1..n), s # {}
  PROVE  Greatest(s) \in s /\ \A y \in s : Greatest(s) >= y
<1> DEFINE T == {-x : x \in s}
<1>1. IsFiniteSet(T) /\ T \subseteq Int /\ T # {}
  <2>1. IsFiniteSet(s)
    <3>1. 1 \in Int /\ n \in Int
      OBVIOUS
    <3>2. IsFiniteSet(1..n)
      BY <3>1, FS_Interval
    <3> QED BY <3>2, FS_Subset
  <2>2. \A x \in s : x \in Int
    OBVIOUS
  <2>3. IsFiniteSet(T)
    <3>1. T = {x \in (-n)..(-1) : -x \in s}
      BY <2>2
    <3>2. -n \in Int /\ -1 \in Int
      OBVIOUS
    <3>3. IsFiniteSet((-n)..(-1))
      BY <3>2, FS_Interval
    <3>4. T \subseteq (-n)..(-1)
      BY <3>1
    <3> HIDE DEF T
    <3> QED BY <3>3, <3>4, FS_Subset
  <2>4. T \subseteq Int
    BY <2>2
  <2>5. T # {}
    OBVIOUS
  <2> QED BY <2>3, <2>4, <2>5
<1> HIDE DEF T
<1>2. PICK m \in T : \A k \in T : m <= k
  BY <1>1, LeastExists
<1>3. PICK x \in s : m = -x
  BY <1>2 DEF T
<1>4. \A y \in s : x >= y
  <2> SUFFICES ASSUME NEW y \in s PROVE x >= y
    OBVIOUS
  <2>1. -y \in T /\ x \in Int /\ y \in Int
    BY DEF T
  <2> QED BY <1>2, <1>3, <2>1
<1> QED BY <1>3, <1>4 DEF Greatest

LEMMA GreatestOfInterval ==
  ASSUME NEW n \in Nat, NEW k \in 1..n
  PROVE  Greatest(1..k) = k /\ (1..k) \ {k} = 1..(k - 1)
<1>1. 1..k \in SUBSET (1..n) /\ 1..k # {} /\ k \in 1..k
  OBVIOUS
<1>2. Greatest(1..k) \in 1..k /\ Greatest(1..k) >= k
  BY <1>1, GreatestExists
<1> QED BY <1>2
---------------------------------------------------------------------------
(* Layer2Kernel: the routing configuration, for any number of setters, writers  *)
(* and requesters                                                               *)

RoutingOK ==
  /\ mode \in Kernel2!Modes /\ enabled \in BOOLEAN
  /\ setter \in [Setters -> [place : {"idle", "locked", "mode_set"}, mode : Kernel2!Modes]]
  /\ writer \in [Writers -> {"idle", "enabled"}]

(* The mutex of ai_layer2_set_config().                                         *)
OneSetter ==
  \A s, t \in Setters : setter[s].place # "idle" /\ setter[t].place # "idle" => s = t

(* A setter that has set a mode other than the disabled one finds no disabled   *)
(* mode when it comes to the switch: writers only ever set the asynchronous one.*)
ModeHolds ==
  \A s \in Setters :
    setter[s].place = "mode_set" /\ setter[s].mode # "disabled" => mode # "disabled"

(* Routing is enabled in the disabled mode only while somebody is about to      *)
(* repair it: a writer that will set the mode, or a setter that will disable.   *)
Repaired ==
  enabled /\ mode = "disabled" =>
    \/ \E w \in Writers : writer[w] = "enabled"
    \/ \E s \in Setters : setter[s].place = "mode_set" /\ setter[s].mode = "disabled"

RoutingInv == RoutingOK /\ OneSetter /\ ModeHolds /\ Repaired

LEMMA RoutingInit == Kernel2!Init => RoutingInv
<1> SUFFICES ASSUME Kernel2!Init PROVE RoutingInv
  OBVIOUS
<1> USE DEF Kernel2!Init, Kernel2!Modes
<1>1. RoutingOK
  BY DEF RoutingOK
<1>2. OneSetter
  BY DEF OneSetter
<1>3. ModeHolds
  BY DEF ModeHolds
<1>4. Repaired
  BY DEF Repaired
<1> QED BY <1>1, <1>2, <1>3, <1>4 DEF RoutingInv

LEMMA SettersKeep ==
  ASSUME RoutingInv, NEW s \in Setters,
         Kernel2!SetMode(s) \/ Kernel2!SetEnabled(s)
              \/ \E m \in Kernel2!Modes : Kernel2!SetLock(s, m)
  PROVE  RoutingInv'
<1>1. CASE Kernel2!SetMode(s)
  BY <1>1 DEF Kernel2!SetMode, RoutingInv, RoutingOK, OneSetter, ModeHolds, Repaired,
       Kernel2!Modes
<1>2. CASE Kernel2!SetEnabled(s)
  BY <1>2 DEF Kernel2!SetEnabled, RoutingInv, RoutingOK, OneSetter, ModeHolds,
       Repaired, Kernel2!Modes
<1>3. ASSUME NEW m \in Kernel2!Modes, Kernel2!SetLock(s, m) PROVE RoutingInv'
  BY <1>3 DEF Kernel2!SetLock, RoutingInv, RoutingOK, OneSetter, ModeHolds, Repaired,
       Kernel2!Modes
<1> QED BY <1>1, <1>2, <1>3

LEMMA WritersKeep ==
  ASSUME RoutingInv, Kernel2!WriteZero \/ \E w \in Writers : Kernel2!WriteOne(w)
  PROVE  RoutingInv'
<1>1. CASE Kernel2!WriteZero
  BY <1>1 DEF Kernel2!WriteZero, RoutingInv, RoutingOK, OneSetter, ModeHolds,
       Repaired, Kernel2!Modes
<1>2. ASSUME NEW w \in Writers, Kernel2!WriteOne(w) PROVE RoutingInv'
  <2>1. CASE writer[w] = "idle"
    BY <1>2, <2>1 DEF Kernel2!WriteOne, RoutingInv, RoutingOK, OneSetter, ModeHolds,
         Repaired, Kernel2!Modes
  <2>2. CASE writer[w] = "enabled"
    BY <1>2, <2>2 DEF Kernel2!WriteOne, RoutingInv, RoutingOK, OneSetter, ModeHolds,
         Repaired, Kernel2!Modes
  <2> QED BY <2>1, <2>2 DEF RoutingInv, RoutingOK
<1> QED BY <1>1, <1>2

(* Requests, pushes and the exit leave the configuration alone.                 *)
LEMMA RequestsKeepRouting ==
  ASSUME RoutingInv, UNCHANGED Kernel2!configVars
  PROVE  RoutingInv'
  BY DEF Kernel2!configVars, RoutingInv, RoutingOK, OneSetter, ModeHolds, Repaired

LEMMA RoutingStep == RoutingInv /\ [Kernel2!Next]_(Kernel2!kernelVars) => RoutingInv'
<1> SUFFICES ASSUME RoutingInv, [Kernel2!Next]_(Kernel2!kernelVars) PROVE RoutingInv'
  OBVIOUS
<1>1. CASE UNCHANGED Kernel2!kernelVars
  BY <1>1, RequestsKeepRouting DEF Kernel2!kernelVars
<1>2. CASE \E s \in Setters : Kernel2!SetMode(s) \/ Kernel2!SetEnabled(s)
     \/ \E m \in Kernel2!Modes : Kernel2!SetLock(s, m)
  BY <1>2, SettersKeep
<1>3. CASE Kernel2!WriteZero \/ \E w \in Writers : Kernel2!WriteOne(w)
  BY <1>3, WritersKeep
<1>4. CASE Kernel2!Exit
  BY <1>4, RequestsKeepRouting DEF Kernel2!Exit
<1>5. ASSUME NEW r \in Requesters,
             Kernel2!Request(r) \/ Kernel2!Admit(r) \/ Kernel2!Schedule(r)
                  \/ Kernel2!Send(r) \/ Kernel2!Remove(r)
               \/ Kernel2!TimerFires(r) \/ Kernel2!Push(r)
      PROVE  RoutingInv'
  BY <1>5, RequestsKeepRouting DEF Kernel2!Request, Kernel2!Admit, Kernel2!Schedule,
       Kernel2!Send, Kernel2!Remove, Kernel2!TimerFires, Kernel2!Push
<1> QED BY <1>1, <1>2, <1>3, <1>4, <1>5 DEF Kernel2!Next

LEMMA Routed == Kernel2!Spec => []RoutingInv
  BY RoutingInit, RoutingStep, PTL DEF Kernel2!Spec

(* However many tasks set the configuration under the mutex and write it        *)
(* without, routing is never left enabled in the disabled mode.                 *)
THEOREM RoutingModeTheorem == Spec => []RoutingNeedsMode
<1>1. RoutingInv => RoutingNeedsMode
  BY DEF RoutingInv, Repaired, RoutingNeedsMode, Kernel2!RoutingNeedsMode
<1> QED BY <1>1, Routed, PartsFollowTheirSpecs, PTL

(* ai_layer2_set_config() has one caller at a time.                             *)
THEOREM OneSetterTheorem == Spec => []OneSetter
<1>1. RoutingInv => OneSetter
  BY DEF RoutingInv
<1> QED BY <1>1, Routed, PartsFollowTheirSpecs, PTL


RequestsOK ==
  /\ requester \in [Requesters -> {"idle", "admit"} \cup Kernel2!InList]
  /\ pending \subseteq Requesters /\ armed \subseteq Requesters
  /\ oopsed \in BOOLEAN /\ gone \in BOOLEAN

LEMMA RequestsStart == Kernel2!Init => RequestsOK
<1> SUFFICES ASSUME Kernel2!Init PROVE RequestsOK
  OBVIOUS
<1> QED BY DEF Kernel2!Init, RequestsOK

LEMMA RequestsStep == RequestsOK /\ [Kernel2!Next]_(Kernel2!kernelVars) => RequestsOK'
<1> SUFFICES ASSUME RequestsOK, [Kernel2!Next]_(Kernel2!kernelVars) PROVE RequestsOK'
  OBVIOUS
<1>1. CASE UNCHANGED <<Kernel2!requestingVars, gone>>
  BY <1>1 DEF Kernel2!requestingVars, RequestsOK
<1>2. CASE Kernel2!Exit
  BY <1>2 DEF Kernel2!Exit, RequestsOK
<1>3. ASSUME NEW r \in Requesters, NEW from,
             NEW to \in {"idle", "admit"} \cup Kernel2!InList, Kernel2!RequestStep(r, from, to)
      PROVE  requester' \in [Requesters -> {"idle", "admit"} \cup Kernel2!InList]
  BY <1>3 DEF Kernel2!RequestStep, RequestsOK
<1>4. ASSUME NEW r \in Requesters,
             Kernel2!Request(r) \/ Kernel2!Admit(r) \/ Kernel2!Schedule(r)
                  \/ Kernel2!Send(r) \/ Kernel2!Remove(r) \/ Kernel2!Push(r)
      PROVE  RequestsOK'
  <2>1. requester' \in [Requesters -> {"idle", "admit"} \cup Kernel2!InList]
    <3>1. \A t \in {"idle", "admit", "listed", "send", "remove", "dead"} :
            t \in {"idle", "admit"} \cup Kernel2!InList
      BY DEF Kernel2!InList
    <3>2. \E from, to : /\ to \in {"idle", "admit", "listed", "send", "remove", "dead"}
                        /\ Kernel2!RequestStep(r, from, to)
      BY <1>4 DEF Kernel2!Request, Kernel2!Admit, Kernel2!Schedule, Kernel2!Send,
         Kernel2!Remove, Kernel2!Push
    <3> QED BY <1>3, <3>1, <3>2
  <2>2. /\ pending' \subseteq Requesters /\ armed' \subseteq Requesters
        /\ oopsed' = oopsed /\ gone' = gone
    BY <1>4 DEF Kernel2!Request, Kernel2!Admit, Kernel2!Schedule, Kernel2!Send,
       Kernel2!Remove, Kernel2!Push, RequestsOK
  <2> QED BY <2>1, <2>2 DEF RequestsOK
<1>5. ASSUME NEW r \in Requesters, Kernel2!TimerFires(r) PROVE RequestsOK'
  BY <1>5 DEF Kernel2!TimerFires, RequestsOK
<1>6. ASSUME NEW s \in Setters, Kernel2!SetMode(s) \/ Kernel2!SetEnabled(s)
             \/ \E m \in Kernel2!Modes : Kernel2!SetLock(s, m)
      PROVE  UNCHANGED <<Kernel2!requestingVars, gone>>
  BY <1>6 DEF Kernel2!SetMode, Kernel2!SetEnabled, Kernel2!SetLock
<1>7. ASSUME Kernel2!WriteZero \/ \E w \in Writers : Kernel2!WriteOne(w)
      PROVE  UNCHANGED <<Kernel2!requestingVars, gone>>
  BY <1>7 DEF Kernel2!WriteZero, Kernel2!WriteOne
<1>8. CASE UNCHANGED Kernel2!kernelVars
  BY <1>1, <1>8 DEF Kernel2!kernelVars
<1> QED BY <1>1, <1>2, <1>4, <1>5, <1>6, <1>7, <1>8 DEF Kernel2!Next

(* The types of Layer2Kernel.                                                   *)
THEOREM KernelTypes == Spec => []Kernel2!TypeOK
<1>1. Kernel2!Spec => []RequestsOK
  BY RequestsStart, RequestsStep, PTL DEF Kernel2!Spec
<1>2. RoutingInv /\ RequestsOK => Kernel2!TypeOK
  BY DEF RoutingInv, RoutingOK, RequestsOK, Kernel2!TypeOK
<1> QED BY <1>1, <1>2, Routed, PartsFollowTheirSpecs, PTL
---------------------------------------------------------------------------
(* KaiSyscall: its limits, for any number of callers, any limit on calls in     *)
(* progress and any rate                                                        *)

(* A call has a place in the count from the increment to the decrement.         *)
Counted == Syscall!Inside \cup {"refused"}

CallRecord ==
  [place : Syscall!Places, buffers : SUBSET Syscall!Buffers, result : Syscall!Results]

CallersOK ==
  /\ caller \in [Callers -> CallRecord]
  /\ tokens \in 0..Burst

(* Each call counts itself once, and no more are inside than the limit admits:  *)
(* the limit is compared with the count just raised, which is never less than   *)
(* the number of those inside.                                                  *)
Balanced == active = Cardinality(Syscall!At(Counted))
Admitted == Cardinality(Syscall!At(Syscall!Inside)) <= MaxConcurrent

(* Buffers are owned between their allocation and the label that frees them.    *)
BuffersInside == \A c \in Callers : caller[c].place \notin Syscall!Inside
     => caller[c].buffers = {}
BuffersFreed  == \A c \in Callers : caller[c].place = "release" => caller[c].buffers = {}
BuffersLate   == \A c \in Callers :
                   caller[c].place \in {"name", "input"} => caller[c].buffers = {}

PermitsInv == CallersOK /\ Balanced /\ Admitted /\ BuffersInside /\ BuffersFreed
     /\ BuffersLate

(* The part's operators on finite sets are those of this module.                *)
LEMMA SameCount ==
  \A S : /\ Syscall!Cardinality(S) = Cardinality(S)
         /\ Syscall!IsFiniteSet(S) <=> IsFiniteSet(S)
  BY DEF Syscall!Cardinality, Syscall!IsFiniteSet, Cardinality, IsFiniteSet

LEMMA PlacesFinite ==
  ASSUME Syscall!SyscallAssumption, NEW S
  PROVE  IsFiniteSet(Syscall!At(S)) /\ Cardinality(Syscall!At(S)) \in Nat
  BY SameCount, FS_Subset, FS_CardinalityType DEF Syscall!SyscallAssumption, Syscall!At

---------------------------------------------------------------------------
(* How one caller's move changes who is where *)

CallerMover(c) == \A b \in Callers : b # c => caller'[b] = caller[b]

LEMMA StaysWhere ==
  ASSUME NEW c \in Callers, CallerMover(c), NEW S,
         caller[c].place \in S <=> caller'[c].place \in S
  PROVE  Syscall!At(S)' = Syscall!At(S)
<1>1. \A b \in Callers : caller[b].place \in S <=> caller'[b].place \in S
  BY DEF CallerMover
<1> QED BY <1>1 DEF Syscall!At

LEMMA ComesIn ==
  ASSUME Syscall!SyscallAssumption, NEW c \in Callers, CallerMover(c), NEW S,
         caller[c].place \notin S, caller'[c].place \in S
  PROVE  Cardinality(Syscall!At(S)') = Cardinality(Syscall!At(S)) + 1
<1>1. Syscall!At(S)' = Syscall!At(S) \cup {c} /\ c \notin Syscall!At(S)
  BY DEF CallerMover, Syscall!At
<1> QED BY <1>1, PlacesFinite, FS_AddElement

LEMMA GoesOut ==
  ASSUME Syscall!SyscallAssumption, NEW c \in Callers, CallerMover(c), NEW S,
         caller[c].place \in S, caller'[c].place \notin S
  PROVE  Cardinality(Syscall!At(S)') = Cardinality(Syscall!At(S)) - 1
<1>1. Syscall!At(S)' = Syscall!At(S) \ {c} /\ c \in Syscall!At(S)
  BY DEF CallerMover, Syscall!At
<1> QED BY <1>1, PlacesFinite, FS_RemoveElement

---------------------------------------------------------------------------
LEMMA PermitsInit ==
  ASSUME Syscall!SyscallAssumption, Syscall!Init
  PROVE  PermitsInv
<1> USE DEF Syscall!Init, Syscall!Idle
<1>1. Syscall!At(Counted) = {} /\ Syscall!At(Syscall!Inside) = {}
  BY DEF Syscall!At, Counted, Syscall!Inside
<1>2. Balanced /\ Admitted
  BY <1>1, FS_EmptySet DEF Balanced, Admitted, Syscall!SyscallAssumption
<1>3. CallersOK
  BY DEF CallersOK, CallRecord, Syscall!Places, Syscall!Results, Syscall!SyscallAssumption
<1>4. BuffersInside /\ BuffersFreed /\ BuffersLate
  BY DEF BuffersInside, BuffersFreed, BuffersLate
<1> QED BY <1>2, <1>3, <1>4 DEF PermitsInv

(* What every step of a caller does, whichever it is: its record stays of its   *)
(* type, and its buffers go with its place.                                     *)
LEMMA CallerMoves ==
  ASSUME PermitsInv, NEW c \in Callers, CallerMover(c), DOMAIN caller' = Callers,
         caller' = [b \in Callers |-> caller'[b]],
         caller'[c] \in CallRecord,
         tokens' \in 0..Burst,
         caller'[c].place \notin Syscall!Inside \/ caller'[c].place \in {"release",
              "name", "input"}
           => caller'[c].buffers = {}
  PROVE  CallersOK' /\ BuffersInside' /\ BuffersFreed' /\ BuffersLate'
<1>1. \A b \in Callers : caller'[b] \in CallRecord
  BY DEF CallerMover, PermitsInv, CallersOK
<1>2. CallersOK'
  BY <1>1 DEF CallersOK
<1>3. BuffersInside' /\ BuffersFreed' /\ BuffersLate'
  BY DEF CallerMover, PermitsInv, BuffersInside, BuffersFreed, BuffersLate, Syscall!Inside
<1> QED BY <1>2, <1>3

(* A step of a caller that is counted, and inside, after it as it was before.   *)
LEMMA StepInside ==
  ASSUME Syscall!SyscallAssumption, PermitsInv, NEW c \in Callers, CallerMover(c),
         UNCHANGED active,
         caller[c].place \in Counted <=> caller'[c].place \in Counted,
         caller[c].place \in Syscall!Inside <=> caller'[c].place \in Syscall!Inside
  PROVE  Balanced' /\ Admitted'
<1>1. Syscall!At(Counted)' = Syscall!At(Counted)
       /\ Syscall!At(Syscall!Inside)' = Syscall!At(Syscall!Inside)
  <2>1. \A b \in Callers : /\ caller[b].place \in Counted <=> caller'[b].place \in Counted
                           /\ caller[b].place \in Syscall!Inside
                                <=> caller'[b].place \in Syscall!Inside
    BY DEF CallerMover
  <2> QED BY <2>1 DEF Syscall!At, Counted, Syscall!Inside
<1> QED BY <1>1 DEF PermitsInv, Balanced, Admitted

---------------------------------------------------------------------------
(* The records a caller's step makes *)

LEMMA EndsFails ==
  ASSUME NEW c, NEW from, NEW result
  PROVE  Syscall!Ends(c, from, result) <=> Syscall!Fails(c, from, "idle", result)
  BY DEF Syscall!Ends, Syscall!Fails

LEMMA CallMoves ==
  ASSUME CallersOK, NEW c \in Callers, NEW from, NEW to \in Syscall!Places,
         Syscall!Move(c, from, to)
  PROVE  \E r \in CallRecord :
           /\ caller' = [caller EXCEPT ![c] = r] /\ caller[c].place = from
           /\ r.place = to /\ r.buffers = caller[c].buffers
<1> DEFINE r == [caller[c] EXCEPT !.place = to]
<1>1. caller[c] \in CallRecord
  BY DEF CallersOK
<1>2. r \in CallRecord /\ r.place = to /\ r.buffers = caller[c].buffers
  BY <1>1 DEF CallRecord
<1>3. caller' = [caller EXCEPT ![c] = r] /\ caller[c].place = from
  BY DEF Syscall!Move, CallersOK, CallRecord
<1> QED BY <1>2, <1>3

LEMMA TwoFields ==
  ASSUME NEW P, NEW B, NEW R, NEW r \in [place : P, buffers : B, result : R],
         NEW x \in P, NEW y \in R
  PROVE  /\ [r EXCEPT !.place = x, !.result = y] \in [place : P, buffers : B, result : R]
         /\ [r EXCEPT !.place = x, !.result = y].place = x
         /\ [r EXCEPT !.place = x, !.result = y].buffers = r.buffers
  OBVIOUS

LEMMA CallFails ==
  ASSUME CallersOK, NEW c \in Callers, NEW from, NEW to \in Syscall!Places,
         NEW result \in Syscall!Results,
         Syscall!Fails(c, from, to, result)
  PROVE  \E r \in CallRecord :
           /\ caller' = [caller EXCEPT ![c] = r] /\ caller[c].place = from
           /\ r.place = to /\ r.buffers = caller[c].buffers
<1> DEFINE r == [caller[c] EXCEPT !.place = to, !.result = result]
<1>1. caller[c] \in CallRecord
  BY DEF CallersOK
<1>2. r \in CallRecord /\ r.place = to /\ r.buffers = caller[c].buffers
  BY <1>1, TwoFields, Zenon DEF CallRecord
<1>3. caller' = [caller EXCEPT ![c] = r]
  BY DEF Syscall!Fails, CallersOK, CallRecord
<1>4. caller[c].place = from
  BY DEF Syscall!Fails
<1> HIDE DEF r
<1> QED BY <1>2, <1>3, <1>4

LEMMA PlaceAndBuffers ==
  ASSUME NEW P, NEW B, NEW R, NEW r \in [place : P, buffers : B, result : R],
         NEW x \in P, NEW y \in B
  PROVE  /\ [r EXCEPT !.place = x, !.buffers = y] \in [place : P, buffers : B, result : R]
         /\ [r EXCEPT !.place = x, !.buffers = y].place = x
         /\ [r EXCEPT !.place = x, !.buffers = y].buffers = y
  OBVIOUS

Holds(c, to, B) == caller' = [caller EXCEPT ![c].place = to, ![c].buffers = B]

LEMMA CallHolds ==
  ASSUME CallersOK, NEW c \in Callers, NEW to \in Syscall!Places,
         NEW B \in SUBSET Syscall!Buffers,
         Holds(c, to, B)
  PROVE  \E r \in CallRecord :
           caller' = [caller EXCEPT ![c] = r] /\ r.place = to /\ r.buffers = B
<1> DEFINE r == [caller[c] EXCEPT !.place = to, !.buffers = B]
<1>1. caller[c] \in CallRecord
  BY DEF CallersOK
<1>2. r \in CallRecord /\ r.place = to /\ r.buffers = B
  BY <1>1, PlaceAndBuffers, Zenon DEF CallRecord
<1>3. caller' = [caller EXCEPT ![c] = r]
  BY DEF CallersOK, CallRecord, Holds
<1> HIDE DEF r
<1> QED BY <1>2, <1>3

(* Such a step keeps the invariant if it keeps or follows the count.            *)
LEMMA RecordKeeps ==
  ASSUME PermitsInv, NEW c \in Callers, NEW r \in CallRecord,
         caller' = [caller EXCEPT ![c] = r], tokens' \in 0..Burst,
         Balanced', Admitted',
         r.place \notin Syscall!Inside \/ r.place \in {"release", "name", "input"}
              => r.buffers = {}
  PROVE  PermitsInv'
<1>1. /\ CallerMover(c) /\ DOMAIN caller' = Callers /\ caller'[c] = r
      /\ caller' = [b \in Callers |-> caller'[b]]
  BY DEF PermitsInv, CallersOK, CallerMover
<1>3. CallersOK' /\ BuffersInside' /\ BuffersFreed' /\ BuffersLate'
  BY <1>1, CallerMoves
<1> QED BY <1>3 DEF PermitsInv

LEMMA UncountedKeeps ==
  ASSUME Syscall!SyscallAssumption, PermitsInv, NEW c \in Callers, NEW r \in CallRecord,
         caller' = [caller EXCEPT ![c] = r], UNCHANGED active, tokens' \in 0..Burst,
         caller[c].place \in Counted <=> r.place \in Counted,
         caller[c].place \in Syscall!Inside <=> r.place \in Syscall!Inside,
         r.place \notin Syscall!Inside \/ r.place \in {"release", "name", "input"}
              => r.buffers = {}
  PROVE  PermitsInv'
<1>1. CallerMover(c) /\ caller'[c] = r
  BY DEF PermitsInv, CallersOK, CallerMover
<1>2. Balanced' /\ Admitted'
  BY <1>1, StepInside
<1> QED BY <1>2, RecordKeeps

---------------------------------------------------------------------------
(* The actions *)

LEMMA OutsideKeepsPermits ==
  ASSUME Syscall!SyscallAssumption, PermitsInv, NEW c \in Callers,
         Syscall!Reject(c) \/ Syscall!Rate(c) \/ Syscall!Again(c) \/ Syscall!Direct(c)
              \/ Syscall!DirectInfer(c)
  PROVE  PermitsInv'
<1>1. /\ CallersOK /\ UNCHANGED active /\ tokens' \in 0..Burst
      /\ caller[c].place \notin Syscall!Inside => caller[c].buffers = {}
  BY DEF PermitsInv, CallersOK, Syscall!Reject, Syscall!Rate, Syscall!Again,
         Syscall!Direct, Syscall!DirectInfer, BuffersInside,
         Syscall!SyscallAssumption
<1>2. \A to : to \in {"idle", "rated", "direct"} =>
        to \in Syscall!Places /\ to \notin Syscall!Inside /\ to \notin Counted
  BY DEF Syscall!Places, Syscall!Inside, Counted
<1>3. CASE \/ \E to \in {"rated", "direct"} : Syscall!Move(c, "idle", to)
           \/ \E result \in Syscall!Results : Syscall!Fails(c, "idle", "idle", result)
           \/ \E result \in Syscall!Results : Syscall!Fails(c, "direct", "idle", result)
  <2>1. PICK r \in CallRecord :
          /\ caller' = [caller EXCEPT ![c] = r]
          /\ caller[c].place \in {"idle", "direct"} /\ r.place \in {"idle", "rated",
               "direct"}
          /\ r.buffers = caller[c].buffers
    <3>1. ASSUME NEW to \in {"rated", "direct"}, Syscall!Move(c, "idle", to)
          PROVE  \E r \in CallRecord :
                   /\ caller' = [caller EXCEPT ![c] = r] /\ caller[c].place = "idle"
                   /\ r.place = to /\ r.buffers = caller[c].buffers
      BY <1>1, <1>2, <3>1, CallMoves
    <3>2. ASSUME NEW from \in {"idle", "direct"}, NEW result \in Syscall!Results,
                 Syscall!Fails(c, from, "idle", result)
          PROVE  \E r \in CallRecord :
                   /\ caller' = [caller EXCEPT ![c] = r] /\ caller[c].place = from
                   /\ r.place = "idle" /\ r.buffers = caller[c].buffers
      <4>1. PICK to \in Syscall!Places : to = "idle"
        BY <1>2
      <4>2. CallersOK /\ Syscall!Fails(c, from, to, result)
        BY <1>1, <3>2, <4>1
      <4>3. \E r \in CallRecord :
              /\ caller' = [caller EXCEPT ![c] = r] /\ caller[c].place = from
              /\ r.place = to /\ r.buffers = caller[c].buffers
        BY <4>2, CallFails
      <4> QED BY <4>1, <4>3
    <3> QED BY <1>3, <3>1, <3>2
  <2> QED BY <1>1, <1>2, <2>1, UncountedKeeps
<1>4. CASE Syscall!Again(c)
  <2>1. Syscall!Idle \in CallRecord /\ Syscall!Idle.place = "idle"
         /\ Syscall!Idle.buffers = {}
    BY DEF Syscall!Idle, CallRecord, Syscall!Places, Syscall!Results
  <2> QED BY <1>1, <1>2, <1>4, <2>1, UncountedKeeps DEF Syscall!Again
<1>5. CASE Syscall!Reject(c) \/ Syscall!Rate(c) \/ Syscall!Direct(c)
       \/ Syscall!DirectInfer(c)
  <2>1. {"inval", "fault", "perm", "again", "ok", "failed"} \subseteq Syscall!Results
    BY DEF Syscall!Results
  <2> QED BY <1>3, <1>5, <2>1, EndsFails DEF Syscall!Reject, Syscall!Rate,
         Syscall!Direct, Syscall!DirectInfer
<1> QED BY <1>4, <1>5

LEMMA InsideKeepsPermits ==
  ASSUME Syscall!SyscallAssumption, PermitsInv, NEW c \in Callers,
         \/ Syscall!CopyName(c) \/ Syscall!CopyInput(c) \/ Syscall!AllocateOutput(c)
              \/ Syscall!Infer(c)
         \/ Syscall!CopyOutput(c) \/ Syscall!CopyMeta(c) \/ Syscall!Free(c)
  PROVE  PermitsInv'
<1>1. /\ CallersOK /\ UNCHANGED active /\ tokens' \in 0..Burst
      /\ caller[c].place \in {"name", "input"} => caller[c].buffers = {}
  BY DEF PermitsInv, CallersOK, Syscall!CopyName, Syscall!CopyInput,
         Syscall!AllocateOutput, Syscall!Infer, Syscall!CopyOutput, Syscall!CopyMeta,
         Syscall!Free, BuffersLate
<1>2. \A to : to \in {"name", "input", "output", "infer", "copy_out", "copy_meta", "free",
                      "release"} => to \in Syscall!Places /\ to \in Syscall!Inside
                           /\ to \in Counted
  BY DEF Syscall!Places, Syscall!Inside, Counted
<1>3. {"inval", "fault", "nomem", "failed"} \subseteq Syscall!Results
       /\ Syscall!Buffers \in SUBSET Syscall!Buffers
      /\ {"input"} \in SUBSET Syscall!Buffers /\ {} \in SUBSET Syscall!Buffers
  BY DEF Syscall!Results, Syscall!Buffers
<1>4. CASE \/ Syscall!Move(c, "name", "input")
           \/ \E from \in {"name", "input"}, result \in Syscall!Results :
                Syscall!Fails(c, from, "release", result)
  <2>1. PICK r \in CallRecord :
          /\ caller' = [caller EXCEPT ![c] = r]
          /\ caller[c].place \in {"name", "input"} /\ r.place \in {"input", "release"}
          /\ r.buffers = caller[c].buffers
    <3>1. CASE Syscall!Move(c, "name", "input")
      BY <1>1, <1>2, <3>1, CallMoves
    <3>2. ASSUME NEW from \in {"name", "input"}, NEW result \in Syscall!Results,
                 Syscall!Fails(c, from, "release", result)
          PROVE  \E r \in CallRecord :
                   /\ caller' = [caller EXCEPT ![c] = r]
                   /\ caller[c].place = from /\ r.place = "release"
                   /\ r.buffers = caller[c].buffers
      <4>1. PICK to \in Syscall!Places : to = "release"
        BY <1>2
      <4>2. CallersOK /\ Syscall!Fails(c, from, to, result)
        BY <1>1, <3>2, <4>1
      <4>3. \E r \in CallRecord :
              /\ caller' = [caller EXCEPT ![c] = r] /\ caller[c].place = from
              /\ r.place = to /\ r.buffers = caller[c].buffers
        BY <4>2, CallFails
      <4> QED BY <4>1, <4>3
    <3> QED BY <1>4, <3>1, <3>2
  <2> QED BY <1>1, <1>2, <2>1, UncountedKeeps
<1>5. CASE \E from \in {"output", "infer", "copy_out", "copy_meta"},
              to \in {"free", "copy_out", "copy_meta"} :
             \/ Syscall!Move(c, from, to)
             \/ \E result \in Syscall!Results : Syscall!Fails(c, from, to, result)
  <2>1. PICK r \in CallRecord :
          /\ caller' = [caller EXCEPT ![c] = r]
          /\ caller[c].place \in {"output", "infer", "copy_out", "copy_meta"}
          /\ r.place \in {"free", "copy_out", "copy_meta"}
    <3>1. PICK from \in {"output", "infer", "copy_out", "copy_meta"},
               to \in {"free", "copy_out", "copy_meta"} :
            \/ Syscall!Move(c, from, to)
            \/ \E result \in Syscall!Results : Syscall!Fails(c, from, to, result)
      BY <1>5
    <3>2. to \in Syscall!Places
      BY <1>2
    <3>3. CASE Syscall!Move(c, from, to)
      BY <1>1, <3>2, <3>3, CallMoves
    <3>4. CASE \E result \in Syscall!Results : Syscall!Fails(c, from, to, result)
      <4>1. PICK result \in Syscall!Results : Syscall!Fails(c, from, to, result)
        BY <3>4
      <4>2. PICK p \in Syscall!Places : p = to
        BY <3>2
      <4>3. CallersOK /\ Syscall!Fails(c, from, p, result)
        BY <1>1, <4>1, <4>2
      <4>4. \E r \in CallRecord :
              /\ caller' = [caller EXCEPT ![c] = r] /\ caller[c].place = from
              /\ r.place = p /\ r.buffers = caller[c].buffers
        BY <4>3, CallFails
      <4> QED BY <4>2, <4>4
    <3> QED BY <3>1, <3>3, <3>4
  <2>2. r.place \notin {"release", "name", "input"}
    BY <2>1
  <2> QED BY <1>1, <1>2, <2>1, <2>2, UncountedKeeps
<1>6. CASE \/ /\ caller[c].place = "input"
              /\ caller' = [caller EXCEPT ![c].place = "output", ![c].buffers = {"input"}]
           \/ /\ caller[c].place = "output"
              /\ caller' = [caller EXCEPT ![c].place = "infer",
                   ![c].buffers = Syscall!Buffers]
           \/ /\ caller[c].place = "free"
              /\ caller' = [caller EXCEPT ![c].place = "release", ![c].buffers = {}]
  <2>1. PICK r \in CallRecord :
          /\ caller' = [caller EXCEPT ![c] = r]
          /\ caller[c].place \in {"input", "output", "free"}
          /\ \/ r.place \in {"output", "infer"}
             \/ r.place = "release" /\ r.buffers = {}
    <3>1. CallersOK /\ "output" \in Syscall!Places /\ "infer" \in Syscall!Places
           /\ "release" \in Syscall!Places
      BY <1>1, <1>2
    <3>2. CASE /\ caller[c].place = "input"
               /\ caller' = [caller EXCEPT ![c].place = "output",
                    ![c].buffers = {"input"}]
      <4>1. PICK r \in CallRecord : caller' = [caller EXCEPT ![c] = r]
             /\ r.place = "output"
        <5>1. PICK to \in Syscall!Places, B \in SUBSET Syscall!Buffers : to = "output"
               /\ B = {"input"}
          BY <1>3, <3>1
        <5>2. CallersOK /\ Holds(c, to, B)
          BY <3>1, <3>2, <5>1 DEF Holds
        <5>3. \E r \in CallRecord :
                caller' = [caller EXCEPT ![c] = r] /\ r.place = to /\ r.buffers = B
          BY <5>2, CallHolds
        <5> QED BY <5>1, <5>3
      <4> QED BY <3>2, <4>1
    <3>3. CASE /\ caller[c].place = "output"
               /\ caller' = [caller EXCEPT ![c].place = "infer",
                    ![c].buffers = Syscall!Buffers]
      <4>1. PICK r \in CallRecord : caller' = [caller EXCEPT ![c] = r]
             /\ r.place = "infer"
        <5>1. PICK to \in Syscall!Places, B \in SUBSET Syscall!Buffers : to = "infer"
               /\ B = Syscall!Buffers
          BY <1>3, <3>1
        <5>2. CallersOK /\ Holds(c, to, B)
          BY <3>1, <3>3, <5>1 DEF Holds
        <5>3. \E r \in CallRecord :
                caller' = [caller EXCEPT ![c] = r] /\ r.place = to /\ r.buffers = B
          BY <5>2, CallHolds
        <5> QED BY <5>1, <5>3
      <4> QED BY <3>3, <4>1
    <3>4. CASE /\ caller[c].place = "free"
               /\ caller' = [caller EXCEPT ![c].place = "release", ![c].buffers = {}]
      <4>1. PICK r \in CallRecord : /\ caller' = [caller EXCEPT ![c] = r]
                                    /\ r.place = "release" /\ r.buffers = {}
        <5>1. PICK to \in Syscall!Places, B \in SUBSET Syscall!Buffers : to = "release"
               /\ B = {}
          BY <1>3, <3>1
        <5>2. CallersOK /\ Holds(c, to, B)
          BY <3>1, <3>4, <5>1 DEF Holds
        <5>3. \E r \in CallRecord :
                caller' = [caller EXCEPT ![c] = r] /\ r.place = to /\ r.buffers = B
          BY <5>2, CallHolds
        <5> QED BY <5>1, <5>3
      <4> QED BY <3>4, <4>1
    <3> QED BY <1>6, <3>2, <3>3, <3>4
  <2>2. r.place \in {"release", "name", "input"} => r.buffers = {}
    BY <2>1
  <2> QED BY <1>1, <1>2, <2>1, <2>2, UncountedKeeps
<1>7. CASE Syscall!CopyName(c) \/ Syscall!CopyInput(c)
  BY <1>3, <1>4, <1>6, <1>7 DEF Syscall!CopyName, Syscall!CopyInput
<1>8. CASE Syscall!AllocateOutput(c) \/ Syscall!Infer(c) \/ Syscall!CopyOutput(c)
       \/ Syscall!CopyMeta(c)
  BY <1>3, <1>5, <1>6, <1>8 DEF Syscall!AllocateOutput, Syscall!Infer,
         Syscall!CopyOutput, Syscall!CopyMeta
<1>9. CASE Syscall!Free(c)
  BY <1>6, <1>9 DEF Syscall!Free
<1> QED BY <1>7, <1>8, <1>9

LEMMA CountKeepsPermits ==
  ASSUME Syscall!SyscallAssumption, PermitsInv, NEW c \in Callers,
         Syscall!Count(c) \/ Syscall!StepBack(c) \/ Syscall!Release(c)
  PROVE  PermitsInv'
<1>1. /\ CallersOK /\ tokens' \in 0..Burst
      /\ caller[c].place \in {"rated", "refused", "release"} => caller[c].buffers = {}
      /\ caller \in [Callers -> CallRecord]
  BY DEF PermitsInv, CallersOK, Syscall!Count, Syscall!StepBack, Syscall!Release,
         BuffersInside, BuffersFreed, Syscall!Inside,
         CallRecord
<1>2. /\ Cardinality(Syscall!At(Counted)) \in Nat
       /\ Cardinality(Syscall!At(Syscall!Inside)) \in Nat
      /\ active = Cardinality(Syscall!At(Counted))
           /\ Cardinality(Syscall!At(Syscall!Inside)) <= MaxConcurrent
      /\ Cardinality(Syscall!At(Syscall!Inside)) <= Cardinality(Syscall!At(Counted))
           /\ MaxConcurrent \in Nat
  <2>1. Syscall!At(Syscall!Inside) \subseteq Syscall!At(Counted)
    BY DEF Syscall!At, Counted
  <2> QED BY <2>1, PlacesFinite, FS_Subset DEF PermitsInv, Balanced, Admitted,
         Syscall!SyscallAssumption
<1>3. \A r \in CallRecord : caller' = [caller EXCEPT ![c] = r] => CallerMover(c)
       /\ caller'[c] = r
  BY <1>1 DEF CallerMover
<1>4. /\ "rated" \notin Counted /\ "refused" \in Counted /\ "name" \in Counted
      /\ "release" \in Counted /\ "idle" \notin Counted /\ "rated" \notin Syscall!Inside
      /\ "refused" \notin Syscall!Inside /\ "name" \in Syscall!Inside
           /\ "release" \in Syscall!Inside
      /\ "idle" \notin Syscall!Inside /\ {"idle", "refused",
           "name"} \subseteq Syscall!Places
      /\ "again" \in Syscall!Results
  BY DEF Counted, Syscall!Inside, Syscall!Places, Syscall!Results
<1>5. CASE Syscall!Count(c)
  <2>1. PICK to \in {"refused", "name"} :
          /\ to = IF active + 1 > MaxConcurrent THEN "refused" ELSE "name"
          /\ caller' = [caller EXCEPT ![c].place = to]
    BY <1>5 DEF Syscall!Count
  <2>2. Syscall!Move(c, "rated", to)
    BY <1>5, <2>1 DEF Syscall!Count, Syscall!Move
  <2>3. PICK r \in CallRecord : /\ caller' = [caller EXCEPT ![c] = r]
                                /\ caller[c].place = "rated"
                                /\ r.place = to /\ r.buffers = {}
    BY <1>1, <1>4, <2>2, CallMoves
  <2>4. Cardinality(Syscall!At(Counted)') = Cardinality(Syscall!At(Counted)) + 1
    BY <1>3, <1>4, <2>3, ComesIn
  <2>5. Balanced'
    BY <1>2, <1>5, <2>4 DEF Balanced, Syscall!Count, Counted, Syscall!Inside, Syscall!At
  <2>6. Admitted'
    <3>1. CASE to = "name"
      <4>1. Cardinality(Syscall!At(Syscall!Inside)') = Cardinality(Syscall!At(Syscall!Inside)) + 1
        BY <1>3, <1>4, <2>3, <3>1, ComesIn
      <4>2. ~(active + 1 > MaxConcurrent)
        BY <2>1, <3>1
      <4>3. Cardinality(Syscall!At(Syscall!Inside)') <= MaxConcurrent
        BY <1>2, <4>1, <4>2
      <4> QED BY <4>3 DEF Admitted, Syscall!Inside, Syscall!At
    <3>2. CASE to = "refused"
      <4>1. Syscall!At(Syscall!Inside)' = Syscall!At(Syscall!Inside)
        BY <1>3, <1>4, <2>3, <3>2, StaysWhere
      <4> QED BY <1>2, <4>1 DEF Admitted
    <3> QED BY <3>1, <3>2
  <2> QED BY <1>1, <2>3, <2>5, <2>6, RecordKeeps
<1>6. CASE Syscall!StepBack(c)
  <2>1. PICK r \in CallRecord : /\ caller' = [caller EXCEPT ![c] = r]
                                /\ caller[c].place = "refused"
                                /\ r.place = "idle" /\ r.buffers = {}
    BY <1>1, <1>4, <1>6, EndsFails, CallFails DEF Syscall!StepBack
  <2>2. Cardinality(Syscall!At(Counted)') = Cardinality(Syscall!At(Counted)) - 1
         /\ Syscall!At(Syscall!Inside)' = Syscall!At(Syscall!Inside)
    BY <1>3, <1>4, <2>1, GoesOut, StaysWhere
  <2>3. Balanced' /\ Admitted'
    BY <1>2, <1>6, <2>2 DEF Balanced, Admitted, Syscall!StepBack
  <2> QED BY <1>1, <2>1, <2>3, RecordKeeps
<1>7. CASE Syscall!Release(c)
  <2>1. PICK r \in CallRecord : /\ caller' = [caller EXCEPT ![c] = r]
                                /\ caller[c].place = "release"
                                /\ r.place = "idle" /\ r.buffers = {}
    BY <1>1, <1>4, <1>7, CallMoves DEF Syscall!Release
  <2>2. /\ Cardinality(Syscall!At(Counted)') = Cardinality(Syscall!At(Counted)) - 1
        /\ Cardinality(Syscall!At(Syscall!Inside)') = Cardinality(Syscall!At(Syscall!Inside)) - 1
    BY <1>3, <1>4, <2>1, GoesOut
  <2>3. Balanced' /\ Admitted'
    BY <1>2, <1>7, <2>2 DEF Balanced, Admitted, Syscall!Release
  <2> QED BY <1>1, <2>1, <2>3, RecordKeeps
<1> QED BY <1>5, <1>6, <1>7

LEMMA PermitsStep ==
  ASSUME Syscall!SyscallAssumption, PermitsInv, [Syscall!Next]_(Syscall!syscallVars)
  PROVE  PermitsInv'
<1>1. CASE Syscall!NewSecond \/ UNCHANGED Syscall!syscallVars
  <2>1. tokens' \in 0..Burst /\ UNCHANGED <<caller, active>>
    BY <1>1 DEF Syscall!NewSecond, Syscall!syscallVars, PermitsInv, CallersOK,
           Syscall!SyscallAssumption
  <2> QED BY <2>1 DEF PermitsInv, CallersOK, Balanced, Admitted, BuffersInside,
         BuffersFreed,
                      BuffersLate, Syscall!At
<1>2. ASSUME NEW c \in Callers,
             \/ Syscall!Reject(c) \/ Syscall!Rate(c) \/ Syscall!Count(c)
                  \/ Syscall!StepBack(c) \/ Syscall!CopyName(c)
             \/ Syscall!CopyInput(c) \/ Syscall!AllocateOutput(c) \/ Syscall!Infer(c)
                  \/ Syscall!CopyOutput(c)
             \/ Syscall!CopyMeta(c) \/ Syscall!Free(c) \/ Syscall!Release(c)
                  \/ Syscall!Again(c) \/ Syscall!Direct(c)
             \/ Syscall!DirectInfer(c)
      PROVE  PermitsInv'
  BY <1>2, OutsideKeepsPermits, InsideKeepsPermits, CountKeepsPermits
<1> QED BY <1>1, <1>2 DEF Syscall!Next

LEMMA PermitsHeld == Spec => []PermitsInv
<1>1. Syscall!SyscallAssumption
  BY ServicesAssumption
<1>2. Syscall!Init => PermitsInv
  BY <1>1, PermitsInit
<1>3. PermitsInv /\ [Syscall!Next]_(Syscall!syscallVars) => PermitsInv'
  BY <1>1, PermitsStep
<1> QED BY <1>2, <1>3, PartsFollowTheirSpecs, PTL DEF Syscall!Spec

(* However calls overlap and fail, the count of calls in progress is exact, no  *)
(* more calls than the limit are inside, and no buffer outlives its call.       *)
THEOREM PermitsTheorem == Spec => []PermitsBalanced
<1>1. PermitsInv => PermitsBalanced
  BY SameCount DEF PermitsInv, Balanced, Admitted, BuffersInside, PermitsBalanced,
         Syscall!PermitsBalanced, Counted
<1> QED BY <1>1, PermitsHeld, PTL

(* The count of calls in progress never falls below zero, nor exceeds the       *)
(* number of callers, by however much it overshoots the limit.                  *)
THEOREM SyscallTypes == Spec => []Syscall!TypeOK
<1>1. PermitsInv => Syscall!TypeOK
  <2>1. Syscall!At(Counted) \subseteq Callers
    BY DEF Syscall!At
  <2>2. /\ Cardinality(Syscall!At(Counted)) <= Cardinality(Callers)
        /\ Cardinality(Syscall!At(Counted)) \in Nat /\ Cardinality(Callers) \in Nat
    BY <2>1, ServicesAssumption, SameCount, FS_Subset,
           FS_CardinalityType DEF Syscall!SyscallAssumption
  <2> QED BY <2>2, SameCount DEF PermitsInv, Balanced, CallersOK, CallRecord, Syscall!TypeOK
<1> QED BY <1>1, PermitsHeld, PTL

---------------------------------------------------------------------------
(* Monitor: what a visitor is shown, for any number of visitors and whatever    *)
(* the figures are                                                              *)

Coherent(shown) == shown.sampled => shown.health = Watch!HealthScore(shown)

VisitorRecord ==
  [place : {"closed", "waiting", "metrics"}, status : {0, 200, 400, 404},
   report : Watch!Reports]

(* The figures and the health belong together, except between the two steps     *)
(* that rewrite them, both of which hold the lock.                              *)
WatchInv ==
  /\ report \in Watch!Reports /\ visitor \in [Visitors -> VisitorRecord]
  /\ collecting \in {"awake", "reading", "judging", "pushing", "asleep"}
  /\ collecting \in {"reading", "judging"} => dataLock
  /\ collecting # "judging" => Coherent(report)
  /\ \A v \in Visitors : Coherent(visitor[v].report)

LEMMA HealthInRange == \A r : Watch!HealthScore(r) \in 0..100
<1> SUFFICES ASSUME NEW r PROVE Watch!HealthScore(r) \in 0..100
  OBVIOUS
<1>1. Watch!UsageLoss(r.cpu) \in {0, 10, 20} /\ Watch!UsageLoss(r.mem) \in {0, 10, 20}
  BY DEF Watch!UsageLoss
<1>2. Watch!ErrorLoss(r.second) \in {0, 8, 15}
  BY DEF Watch!ErrorLoss
<1>3. Watch!LatencyLoss(r.second) \in {0, 5, 10}
  BY DEF Watch!LatencyLoss
<1> QED BY <1>1, <1>2, <1>3 DEF Watch!HealthScore

LEMMA EmptyReport == Watch!NoReport \in Watch!Reports /\ Coherent(Watch!NoReport)
  BY ServicesAssumption DEF Watch!NoReport, Watch!Reports, Coherent, Watch!MonitorAssumption

LEMMA WatchStart == Watch!Init => WatchInv
<1> SUFFICES ASSUME Watch!Init PROVE WatchInv
  OBVIOUS
<1>1. report \in Watch!Reports /\ Coherent(report)
  BY EmptyReport DEF Watch!Init
<1>2. \A v \in Visitors : /\ visitor[v] \in VisitorRecord
                          /\ visitor[v].report = Watch!NoReport
  BY EmptyReport DEF Watch!Init, VisitorRecord
<1>3. visitor \in [Visitors -> VisitorRecord] /\ \A v \in Visitors : Coherent(visitor[v].report)
  BY <1>2, EmptyReport DEF Watch!Init
<1>4. collecting = "awake" /\ dataLock = FALSE
  BY DEF Watch!Init
<1> QED BY <1>1, <1>3, <1>4 DEF WatchInv

LEMMA CollectorKeepsWatch ==
  ASSUME WatchInv,
         Watch!CollectLock \/ Watch!CollectRead \/ Watch!CollectHealth \/ Watch!PushHistory
           \/ Watch!Wake \/ Watch!Listen
  PROVE  WatchInv'
<1>1. CASE Watch!CollectLock \/ Watch!PushHistory \/ Watch!Wake \/ Watch!Listen
  <2>1. UNCHANGED <<report, visitor>>
    BY <1>1 DEF Watch!CollectLock, Watch!PushHistory, Watch!Wake, Watch!Listen
  <2>2. \/ collecting = "awake" /\ collecting' = "reading" /\ dataLock' = TRUE
        \/ collecting = "pushing" /\ collecting' = "asleep" /\ UNCHANGED dataLock
        \/ collecting = "asleep" /\ collecting' = "awake" /\ UNCHANGED dataLock
        \/ UNCHANGED <<collecting, dataLock>>
    BY <1>1 DEF Watch!CollectLock, Watch!PushHistory, Watch!Wake, Watch!Listen
  <2>3. /\ collecting' \in {"awake", "reading", "judging", "pushing", "asleep"}
        /\ collecting' # "judging" => collecting # "judging"
    BY <2>2 DEF WatchInv
  <2>4. collecting' \in {"reading", "judging"} => dataLock'
    BY <2>2 DEF WatchInv
  <2> QED BY <2>1, <2>3, <2>4 DEF WatchInv, Coherent
<1>2. CASE Watch!CollectRead
  <2>1. report' \in Watch!Reports
    <3>1. PICK cpu, mem \in Usages, crowded, sampled \in BOOLEAN, second \in Seconds :
            report' = [report EXCEPT !.cpu = cpu, !.mem = mem, !.crowded = crowded,
                                     !.second = second, !.sampled = sampled]
      <4>1. /\ report.cpu \in Usages /\ report.mem \in Usages
            /\ report.crowded \in BOOLEAN /\ report.sampled \in BOOLEAN
        BY DEF WatchInv, Watch!Reports
      <4>2. PICK cpu, mem \in Usages, crowded \in BOOLEAN, second \in Seconds, stat, meminfo,
                 loadavg, uptime \in BOOLEAN :
              report' = [report EXCEPT !.cpu = IF stat THEN cpu ELSE @,
                                       !.mem = IF meminfo THEN mem ELSE @,
                                       !.crowded = IF loadavg THEN crowded ELSE @,
                                       !.second = second,
                                       !.sampled = @ \/ uptime]
        BY <1>2, Zenon DEF Watch!CollectRead
      <4> DEFINE c == IF stat THEN cpu ELSE report.cpu
                 m == IF meminfo THEN mem ELSE report.mem
                 l == IF loadavg THEN crowded ELSE report.crowded
                 s == report.sampled \/ uptime
      <4>3. c \in Usages /\ m \in Usages /\ l \in BOOLEAN /\ s \in BOOLEAN
        BY <4>1
      <4>4. report' = [report EXCEPT !.cpu = c, !.mem = m, !.crowded = l,
                                     !.second = second, !.sampled = s]
        BY <4>2, Zenon
      <4> HIDE DEF c, m, l, s
      <4> QED BY <4>3, <4>4
    <3> QED BY <3>1 DEF Watch!Reports, WatchInv
  <2>2. collecting' = "judging" /\ dataLock /\ UNCHANGED <<dataLock, visitor>>
    BY <1>2 DEF Watch!CollectRead, WatchInv
  <2> QED BY <2>1, <2>2 DEF WatchInv, Coherent
<1>3. CASE Watch!CollectHealth
  <2>1. report' = [report EXCEPT !.health = Watch!HealthScore(report)]
    BY <1>3 DEF Watch!CollectHealth
  <2>2. report' \in Watch!Reports /\ report'.health = Watch!HealthScore(report)
    BY <2>1, HealthInRange DEF WatchInv, Watch!Reports
  <2>3. Watch!HealthScore(report)' = Watch!HealthScore(report)
    BY <2>1 DEF Watch!HealthScore, WatchInv, Watch!Reports
  <2>4. Coherent(report)'
    BY <2>2, <2>3 DEF Coherent
  <2>5. collecting' = "pushing" /\ UNCHANGED visitor
    BY <1>3 DEF Watch!CollectHealth
  <2> QED BY <2>2, <2>4, <2>5 DEF WatchInv, Coherent
<1> QED BY <1>1, <1>2, <1>3

LEMMA VisitorKeepsWatch ==
  ASSUME WatchInv, NEW v \in Visitors, NEW r \in VisitorRecord, Coherent(r.report),
         Watch!VisitorStep(v, r)
  PROVE  WatchInv'
<1>1. UNCHANGED <<report, collecting, dataLock>>
  BY DEF Watch!VisitorStep
<1>2. visitor' = [visitor EXCEPT ![v] = r] /\ visitor \in [Visitors -> VisitorRecord]
  BY DEF Watch!VisitorStep, WatchInv
<1>3. visitor' \in [Visitors -> VisitorRecord] /\ \A u \in Visitors : Coherent(visitor'[u].report)
  BY <1>2 DEF WatchInv
<1> QED BY <1>1, <1>3 DEF WatchInv, Coherent

LEMMA ServedRecord ==
  ASSUME NEW P, NEW S, NEW R, NEW r \in [place : P, status : S, report : R],
         NEW p \in P, NEW s \in S
  PROVE  /\ [r EXCEPT !.place = p, !.status = s] \in [place : P, status : S, report : R]
         /\ [r EXCEPT !.place = p, !.status = s].report = r.report
  OBVIOUS

LEMMA AnsweringKeepsWatch ==
  ASSUME WatchInv, NEW v \in Visitors,
         Watch!Accept(v) \/ Watch!HangUp(v) \/ Watch!AnswerNobody(v) \/ Watch!ServeMetrics(v)
           \/ \E path \in Watch!MonitorPaths : Watch!Serve(v, path)
  PROVE  WatchInv'
<1>1. visitor[v] \in VisitorRecord /\ Coherent(visitor[v].report)
  BY DEF WatchInv
<1>2. CASE Watch!Accept(v)
  <2>1. [place |-> "waiting", status |-> 0, report |-> Watch!NoReport] \in VisitorRecord
    BY EmptyReport DEF VisitorRecord
  <2> QED BY <1>2, <2>1, EmptyReport, VisitorKeepsWatch DEF Watch!Accept
<1>3. CASE Watch!HangUp(v)
  <2> DEFINE r == [visitor[v] EXCEPT !.place = "closed"]
  <2>1. r \in VisitorRecord /\ r.report = visitor[v].report /\ Watch!VisitorStep(v, r)
    BY <1>1, <1>3 DEF VisitorRecord, Watch!HangUp
  <2> HIDE DEF r
  <2> QED BY <1>1, <2>1, VisitorKeepsWatch
<1>4. CASE Watch!AnswerNobody(v)
  BY <1>4 DEF Watch!AnswerNobody, WatchInv, Coherent
<1>5. CASE Watch!ServeMetrics(v)
  <2> DEFINE r == [place |-> "closed", status |-> 200, report |-> report]
  <2>1. r \in VisitorRecord /\ r.report = report /\ Watch!VisitorStep(v, r)
    BY <1>5 DEF VisitorRecord, Watch!ServeMetrics, WatchInv
  <2>2. Coherent(report)
    BY <1>5 DEF Watch!ServeMetrics, Watch!LockFree, WatchInv
  <2> HIDE DEF r
  <2> QED BY <2>1, <2>2, VisitorKeepsWatch
<1>6. ASSUME NEW path \in Watch!MonitorPaths, Watch!Serve(v, path)
      PROVE  WatchInv'
  <2> DEFINE p == IF path = "metrics" THEN "metrics" ELSE "closed"
             s == CASE path = "page" -> 200 [] path = "garbled" -> 400
                    [] path = "metrics" -> 0 [] OTHER -> 404
             r == [visitor[v] EXCEPT !.place = p, !.status = s]
  <2>1. Watch!VisitorStep(v, r)
    BY <1>6, Zenon DEF Watch!Serve
  <2>2. p \in {"closed", "metrics"} /\ s \in {0, 200, 400, 404}
    OBVIOUS
  <2>3. r \in VisitorRecord /\ r.report = visitor[v].report
    <3> DEFINE P == {"closed", "waiting", "metrics"}
               S == {0, 200, 400, 404}
    <3>1. visitor[v] \in [place : P, status : S, report : Watch!Reports] /\ p \in P /\ s \in S
      BY <1>1, <2>2 DEF VisitorRecord
    <3>2. VisitorRecord = [place : P, status : S, report : Watch!Reports]
      BY DEF VisitorRecord
    <3> HIDE DEF p, s, P, S
    <3> QED BY <3>1, <3>2, ServedRecord, Zenon
  <2> HIDE DEF p, s, r
  <2> QED BY <1>1, <2>1, <2>3, VisitorKeepsWatch
<1> QED BY <1>2, <1>3, <1>4, <1>5, <1>6

LEMMA WatchStep == WatchInv /\ [Watch!Next]_(Watch!monitorVars) => WatchInv'
<1>1. WatchInv /\ UNCHANGED Watch!monitorVars => WatchInv'
  BY DEF Watch!monitorVars, WatchInv, Coherent
<1> QED BY <1>1, CollectorKeepsWatch, AnsweringKeepsWatch DEF Watch!Next

(* Although the collector rewrites the figures while pages are being answered,  *)
(* no page is shown a health that belongs to other figures than those beside it.*)
THEOREM CoherentTheorem == Spec => []Watch!ReportsCoherent
<1>1. WatchInv => Watch!ReportsCoherent
  BY DEF WatchInv, Coherent, Watch!ReportsCoherent
<1> QED BY <1>1, WatchStart, WatchStep, PartsFollowTheirSpecs, PTL DEF Watch!Spec


WatchRest ==
  /\ listening \in {"starting", "yes", "ended"}
  /\ dataLock \in BOOLEAN
  /\ index \in 0..HistorySize - 1 /\ filled \in 0..HistorySize

LEMMA WatchRestStart == Watch!Init => WatchRest
<1> SUFFICES ASSUME Watch!Init PROVE WatchRest
  OBVIOUS
<1>1. HistorySize \in Nat /\ HistorySize # 0
  BY ServicesAssumption DEF Watch!MonitorAssumption
<1>2. listening = "starting" /\ index = 0 /\ filled = 0 /\ dataLock = FALSE
  BY DEF Watch!Init
<1>3. 0 \in 0..HistorySize - 1 /\ 0 \in 0..HistorySize
  BY <1>1
<1> QED BY <1>2, <1>3 DEF WatchRest

LEMMA WatchRestStep == WatchRest /\ [Watch!Next]_(Watch!monitorVars) => WatchRest'
<1> SUFFICES ASSUME WatchRest, [Watch!Next]_(Watch!monitorVars) PROVE WatchRest'
  OBVIOUS
<1>0. HistorySize \in Nat /\ HistorySize # 0
  BY ServicesAssumption DEF Watch!MonitorAssumption
<1>1. CASE UNCHANGED Watch!monitorVars
  BY <1>1 DEF Watch!monitorVars, Watch!historyVars, WatchRest
<1>2. CASE Watch!CollectLock \/ Watch!CollectRead \/ Watch!CollectHealth \/ Watch!Wake
             \/ Watch!Listen
  BY <1>2 DEF Watch!CollectLock, Watch!CollectRead, Watch!CollectHealth, Watch!Wake,
     Watch!Listen, Watch!historyVars, WatchRest
<1>3. CASE Watch!PushHistory
  <2>1. /\ index' = (index + 1) % HistorySize
        /\ filled' = (IF filled < HistorySize THEN filled + 1 ELSE filled)
        /\ listening' = listening /\ dataLock' = dataLock
    BY <1>3 DEF Watch!PushHistory
  <2>2. index \in Nat /\ filled \in Nat
    BY <1>0 DEF WatchRest
  <2>3. index' \in 0..HistorySize - 1
    BY <1>0, <2>1, <2>2
  <2>4. filled' \in 0..HistorySize
    BY <1>0, <2>1 DEF WatchRest
  <2> QED BY <2>1, <2>3, <2>4 DEF WatchRest
<1>4. ASSUME NEW v \in Visitors,
             Watch!Accept(v) \/ Watch!HangUp(v) \/ Watch!AnswerNobody(v)
               \/ Watch!ServeMetrics(v)
               \/ \E path \in Watch!MonitorPaths : Watch!Serve(v, path)
      PROVE  WatchRest'
  <2>1. /\ listening' \in {listening, "ended"}
        /\ UNCHANGED <<dataLock, index, filled>>
    BY <1>4 DEF Watch!Accept, Watch!HangUp, Watch!AnswerNobody, Watch!ServeMetrics,
       Watch!Serve, Watch!VisitorStep, Watch!historyVars
  <2> QED BY <2>1 DEF WatchRest
<1> QED BY <1>1, <1>2, <1>3, <1>4 DEF Watch!Next

(* The types of Monitor; the history ring is not written past its end.          *)
THEOREM WatchTypes == Spec => []Watch!TypeOK
<1>1. WatchInv /\ WatchRest => Watch!TypeOK
  BY DEF WatchInv, WatchRest, VisitorRecord, Watch!TypeOK
<1> QED BY <1>1, WatchStart, WatchStep, WatchRestStart, WatchRestStep, PartsFollowTheirSpecs,
           PTL DEF Watch!Spec

---------------------------------------------------------------------------
(* WebServer: answers in turn, for any number of requests and any bodies        *)

(* What is on its way or in the buffer are units of requests that were sent.    *)
SentUnit == [number : 1..Len(sent), head : BOOLEAN]

WebTypes ==
  /\ running \in BOOLEAN /\ thread \in {"none", "serving", "ended"}
  /\ sent \in Seq(Web!Request) /\ Len(sent) <= MaxRequests
  /\ wire \in Seq(SentUnit) /\ unsent \in Seq(SentUnit) /\ buffer \in Seq(SentUnit)
  /\ Len(buffer) <= BufferSize
  /\ answers \in Seq([number : 0..MaxRequests, status : Web!HttpStatuses])
  /\ asked \in Web!WebModels
  /\ pipelined \in BOOLEAN

(* The j-th unit of request n: the first one is its head.                       *)
UnitOf(n, j) == [number |-> n, head |-> IF j = 1 THEN TRUE ELSE FALSE]

(* The units in s, which k units precede, are units of request n.               *)
UnitsFrom(s, k, n) == \A i \in 1..Len(s) : s[i] = UnitOf(n, k + i)

(* The buffer, the wire and what the client has yet to send make up request n.  *)
OnItsWay(n) ==
  /\ UnitsFrom(buffer, 0, n)
  /\ UnitsFrom(wire, Len(buffer), n)
  /\ UnitsFrom(unsent, Len(buffer) + Len(wire), n)
  /\ Len(buffer) + Len(wire) + Len(unsent) = 1 + sent[n].body

Waits == ~pipelined /\ Web!AllStated

(* A client that waits, and states its lengths, has all its requests answered   *)
(* and nothing on the way, or all but the last one, which is on its way.        *)
InTurn ==
  Waits =>
    /\ \A i \in 1..Len(answers) : answers[i].number = i
    /\ \/ /\ Len(answers) = Len(sent)
          /\ Len(buffer) = 0 /\ Len(wire) = 0 /\ Len(unsent) = 0
       \/ /\ Len(answers) + 1 = Len(sent)
          /\ OnItsWay(Len(sent))

LEMMA WebConstants ==
  /\ MaxRequests \in Nat /\ Bodies \subseteq Nat
  /\ BufferSize \in Nat /\ BufferSize # 0
  BY ServicesAssumption DEF Web!WebAssumption

LEMMA WebStarts == Web!Init => WebTypes /\ InTurn
<1> SUFFICES ASSUME Web!Init PROVE WebTypes /\ InTurn
  OBVIOUS
<1>1. /\ sent = <<>> /\ wire = <<>> /\ unsent = <<>> /\ buffer = <<>> /\ answers = <<>>
      /\ asked = "none" /\ pipelined = FALSE /\ running = TRUE /\ thread = "none"
  BY DEF Web!Init
<1>2. InTurn
  BY <1>1 DEF InTurn
<1>3. WebTypes
  <2>1. /\ \A S : <<>> \in Seq(S)
        /\ Len(<<>>) = 0 /\ asked \in Web!WebModels
    BY <1>1 DEF Web!WebModels
  <2>2. /\ sent \in Seq(Web!Request) /\ wire \in Seq(SentUnit) /\ unsent \in Seq(SentUnit)
        /\ buffer \in Seq(SentUnit)
        /\ answers \in Seq([number : 0..MaxRequests, status : Web!HttpStatuses])
    BY <1>1, <2>1
  <2>3. Len(sent) <= MaxRequests /\ Len(buffer) <= BufferSize
    BY <1>1, <2>1, WebConstants
  <2> QED BY <1>1, <2>1, <2>2, <2>3 DEF WebTypes
<1> QED BY <1>2, <1>3

LEMMA LengthOfBody ==
  ASSUME NEW req \in Web!Request
  PROVE  req.body \in Nat
<1>1. req \in [path : Web!Paths, body : Bodies \cup {0}, stated : BOOLEAN, closes : BOOLEAN]
  BY DEF Web!Request
<1>2. req.body \in Bodies \cup {0}
  BY <1>1
<1>3. \A body \in Bodies \cup {0} : body \in Nat
  BY WebConstants
<1> QED BY <1>2, <1>3, Zenon

LEMMA UnitsOfRequest ==
  ASSUME NEW n \in Nat \ {0}, NEW req \in Web!Request, NEW N \in Nat, n <= N
  PROVE  /\ Web!Units(n, req) \in Seq([number : 1..N, head : BOOLEAN])
         /\ UnitsFrom(Web!Units(n, req), 0, n)
         /\ Len(Web!Units(n, req)) = 1 + req.body
<1> DEFINE first == <<[number |-> n, head |-> TRUE]>>
           U == [number : 1..N, head : BOOLEAN]
           k == req.body
           rest == [i \in 1..k |-> [number |-> n, head |-> FALSE]]
<1>1. k \in Nat
  BY LengthOfBody
<1>2. Web!Units(n, req) = first \o rest
  BY DEF Web!Units
<1>3. first \in Seq(U) /\ Len(first) = 1 /\ first[1] = UnitOf(n, 1)
  <2>1. UnitOf(n, 1) = [number |-> n, head |-> TRUE]
    BY DEF UnitOf
  <2>2. [number |-> n, head |-> TRUE] \in U
    OBVIOUS
  <2> QED BY <2>1, <2>2
<1>4. rest \in [1..k -> U]
  OBVIOUS
<1> HIDE DEF k
<1>5. rest \in Seq(U) /\ Len(rest) = k
  BY <1>1, <1>4
<1>6. \A i \in 1..k : rest[i] = UnitOf(n, 1 + i)
  <2> SUFFICES ASSUME NEW i \in 1..k PROVE rest[i] = UnitOf(n, 1 + i)
    OBVIOUS
  <2>1. i \in Nat /\ 1 + i # 1
    BY <1>1
  <2> QED BY <2>1 DEF UnitOf
<1> HIDE DEF first, rest, U
<1>7. /\ first \o rest \in Seq(U) /\ Len(first \o rest) = 1 + k
      /\ \A i \in 1..(1 + k) :
           (first \o rest)[i] = IF i <= 1 THEN first[i] ELSE rest[i - 1]
  <2>1. /\ first \o rest \in Seq(U) /\ Len(first \o rest) = Len(first) + Len(rest)
        /\ \A i \in 1..Len(first) + Len(rest) : (first \o rest)[i] =
             IF i <= Len(first) THEN first[i] ELSE rest[i - Len(first)]
    BY <1>3, <1>5, ConcatProperties
  <2> QED BY <1>3, <1>5, <2>1
<1>8. ASSUME NEW i \in 1..(1 + k) PROVE (first \o rest)[i] = UnitOf(n, i)
  <2>1. CASE i = 1
    BY <1>1, <1>3, <1>7, <2>1
  <2>2. CASE i # 1
    <3>1. (first \o rest)[i] = rest[i - 1] /\ i - 1 \in 1..k /\ 1 + (i - 1) = i
      BY <1>1, <1>7, <2>2
    <3> QED BY <1>6, <3>1
  <2> QED BY <2>1, <2>2
<1>9. UnitsFrom(first \o rest, 0, n)
  <2>1. \A i \in 1..(1 + k) : 0 + i = i
    BY <1>1
  <2> QED BY <1>7, <1>8, <2>1 DEF UnitsFrom
<1> QED BY <1>2, <1>7, <1>9 DEF k, U

LEMMA MoreUnits ==
  ASSUME NEW m \in Nat, NEW n \in Nat, m <= n,
         NEW s \in Seq([number : 1..m, head : BOOLEAN])
  PROVE  s \in Seq([number : 1..n, head : BOOLEAN])
<1>1. 1..m \subseteq 1..n
  OBVIOUS
<1>2. [number : 1..m, head : BOOLEAN] \subseteq [number : 1..n, head : BOOLEAN]
  BY <1>1
<1> QED BY <1>2, SeqMonotonic

LEMMA RequestKeeps ==
  ASSUME WebTypes, InTurn, NEW req \in Web!Request, Web!ClientRequest(req)
  PROVE  WebTypes' /\ InTurn'
<1>1. /\ unsent = <<>> /\ Len(sent) < MaxRequests /\ Len(sent) \in Nat
      /\ sent' = Append(sent, req) /\ sent' \in Seq(Web!Request)
      /\ Len(sent') = Len(sent) + 1 /\ Len(sent') \in Nat \ {0}
      /\ sent'[Len(sent')] = req
      /\ unsent' = Web!Units(Len(sent'), req)
      /\ pipelined' = (pipelined \/ Len(answers) < Len(sent))
      /\ UNCHANGED <<running, thread, wire, buffer, answers, asked>>
  BY DEF Web!ClientRequest, WebTypes
<1>2. wire' \in Seq(SentUnit') /\ buffer' \in Seq(SentUnit')
  <2>1. Len(sent) \in Nat /\ Len(sent') \in Nat /\ Len(sent) <= Len(sent')
    BY <1>1
  <2>2. /\ wire \in Seq([number : 1..Len(sent), head : BOOLEAN])
        /\ buffer \in Seq([number : 1..Len(sent), head : BOOLEAN])
    BY DEF WebTypes, SentUnit
  <2> QED BY <1>1, <2>1, <2>2, MoreUnits DEF SentUnit
<1>3. /\ unsent' \in Seq(SentUnit') /\ UnitsFrom(unsent', 0, Len(sent'))
      /\ Len(unsent') = 1 + req.body
  <2>1. PICK n \in Nat \ {0} : n = Len(sent')
    BY <1>1
  <2>2. /\ Web!Units(n, req) \in Seq([number : 1..n, head : BOOLEAN])
        /\ UnitsFrom(Web!Units(n, req), 0, n)
        /\ Len(Web!Units(n, req)) = 1 + req.body
    BY <2>1, UnitsOfRequest
  <2> QED BY <1>1, <2>1, <2>2 DEF SentUnit
<1>4. WebTypes'
  BY <1>1, <1>2, <1>3, WebConstants DEF WebTypes
<1>5. ASSUME Waits'
      PROVE  /\ \A i \in 1..Len(answers') : answers'[i].number = i
             /\ Len(answers') + 1 = Len(sent')
             /\ OnItsWay(Len(sent))'
  <2>0. Web!AllStated
    <3> SUFFICES ASSUME NEW i \in DOMAIN sent PROVE sent[i].body > 0 => sent[i].stated
      BY DEF Web!AllStated
    <3>1. i \in 1..Len(sent) /\ i \in DOMAIN sent' /\ sent'[i] = sent[i]
      BY <1>1, AppendProperties DEF WebTypes
    <3> QED BY <1>5, <3>1 DEF Waits, Web!AllStated
  <2>1. Waits /\ ~(Len(answers) < Len(sent))
    BY <1>1, <1>5, <2>0 DEF Waits
  <2>2. /\ Len(answers) = Len(sent) /\ Len(buffer) = 0 /\ Len(wire) = 0
        /\ \A i \in 1..Len(answers) : answers[i].number = i
    BY <1>1, <2>1 DEF InTurn
  <2>3. req.body \in Nat
    BY LengthOfBody
  <2>4. UnitsFrom(buffer', 0, Len(sent')) /\ UnitsFrom(wire', Len(buffer'), Len(sent'))
    BY <1>1, <2>2 DEF UnitsFrom
  <2> QED BY <1>1, <1>3, <2>2, <2>3, <2>4 DEF OnItsWay
<1> QED BY <1>4, <1>5 DEF InTurn

LEMMA SendKeeps ==
  ASSUME WebTypes, InTurn, Web!ClientSend
  PROVE  WebTypes' /\ InTurn'
<1>1. /\ unsent # <<>> /\ wire' = Append(wire, Head(unsent)) /\ unsent' = Tail(unsent)
      /\ UNCHANGED <<running, thread, sent, pipelined, buffer, answers, asked>>
      /\ wire \in Seq(SentUnit) /\ unsent \in Seq(SentUnit) /\ buffer \in Seq(SentUnit)
  BY DEF Web!ClientSend, WebTypes
<1>2. /\ wire' \in Seq(SentUnit) /\ unsent' \in Seq(SentUnit)
      /\ Len(wire') = Len(wire) + 1 /\ Len(unsent') = Len(unsent) - 1
      /\ wire'[Len(wire) + 1] = unsent[1]
      /\ \A i \in 1..Len(wire) : wire'[i] = wire[i]
      /\ \A i \in 1..Len(unsent') : unsent'[i] = unsent[i + 1]
      /\ Len(unsent) \in Nat \ {0} /\ Len(wire) \in Nat /\ Len(buffer) \in Nat
  BY <1>1
<1>3. SentUnit' = SentUnit
  BY <1>1 DEF SentUnit
<1>4. WebTypes'
  BY <1>1, <1>2, <1>3 DEF WebTypes
<1>5. ASSUME NEW n, OnItsWay(n) PROVE OnItsWay(n)'
  <2>1. UnitsFrom(wire', Len(buffer), n)
    <3>1. unsent[1] = UnitOf(n, Len(buffer) + Len(wire) + 1)
      BY <1>2, <1>5 DEF OnItsWay, UnitsFrom
    <3>2. Len(buffer) + (Len(wire) + 1) = Len(buffer) + Len(wire) + 1
      BY <1>2
    <3> SUFFICES ASSUME NEW i \in 1..Len(wire')
                 PROVE  wire'[i] = UnitOf(n, Len(buffer) + i)
      BY DEF UnitsFrom
    <3>3. CASE i = Len(wire) + 1
      BY <1>2, <3>1, <3>2, <3>3
    <3>4. CASE i # Len(wire) + 1
      <4>1. i \in 1..Len(wire)
        BY <1>2, <3>4
      <4> QED BY <1>2, <1>5, <4>1 DEF OnItsWay, UnitsFrom
    <3> QED BY <3>3, <3>4
  <2>2. UnitsFrom(unsent', Len(buffer) + Len(wire'), n)
    <3> SUFFICES ASSUME NEW i \in 1..Len(unsent')
                 PROVE  unsent'[i] = UnitOf(n, Len(buffer) + Len(wire') + i)
      BY DEF UnitsFrom
    <3>1. /\ unsent'[i] = unsent[i + 1] /\ i + 1 \in 1..Len(unsent)
          /\ Len(buffer) + Len(wire) + (i + 1) = Len(buffer) + Len(wire') + i
      BY <1>2
    <3>2. unsent[i + 1] = UnitOf(n, Len(buffer) + Len(wire) + (i + 1))
      BY <1>5, <3>1 DEF OnItsWay, UnitsFrom
    <3> QED BY <3>1, <3>2
  <2>3. sent'[n].body = sent[n].body
    BY <1>1
  <2>4. Len(buffer) + Len(wire') + Len(unsent') = Len(buffer) + Len(wire) + Len(unsent)
    BY <1>2
  <2> QED BY <1>1, <1>5, <2>1, <2>2, <2>3, <2>4 DEF OnItsWay
<1>6. Len(sent') = Len(sent) /\ Len(answers') = Len(answers) /\ (Waits' <=> Waits)
  BY <1>1 DEF Waits, Web!AllStated
<1>7. InTurn'
  <2> SUFFICES ASSUME Waits PROVE InTurn'
    BY <1>6 DEF InTurn
  <2>1. Len(answers) + 1 = Len(sent) /\ OnItsWay(Len(sent))
    BY <1>2 DEF InTurn
  <2>2. PICK n : n = Len(sent)
    OBVIOUS
  <2>3. OnItsWay(n)'
    BY <1>5, <2>1, <2>2
  <2> QED BY <1>1, <1>6, <2>1, <2>2, <2>3 DEF InTurn, OnItsWay
<1> QED BY <1>4, <1>7

(* recv() moves the first units of the wire behind those in the buffer.         *)
LEMMA Split ==
  ASSUME NEW S, NEW b \in Seq(S), NEW w \in Seq(S), NEW n \in 1..Len(w)
  PROVE  LET u == b \o SubSeq(w, 1, n)
             r == SubSeq(w, n + 1, Len(w))
         IN  /\ u \in Seq(S) /\ Len(u) = Len(b) + n
             /\ r \in Seq(S) /\ Len(r) = Len(w) - n
             /\ \A i \in 1..Len(b) : u[i] = b[i]
             /\ \A i \in 1..n : u[Len(b) + i] = w[i]
             /\ \A i \in 1..Len(r) : r[i] = w[n + i]
<1> DEFINE p == SubSeq(w, 1, n)
           u == b \o p
           r == SubSeq(w, n + 1, Len(w))
<1>1. Len(w) \in Nat /\ n \in Nat /\ n <= Len(w) /\ Len(b) \in Nat
  OBVIOUS
<1>2. p \in Seq(S) /\ Len(p) = n /\ \A i \in 1..n : p[i] = w[i]
  <2>1. \A i \in 1..n : w[i] \in S
    BY <1>1, ElementOfSeq
  <2>2. 1 \in Int /\ n \in Int
    BY <1>1
  <2>3. /\ p \in Seq(S) /\ Len(p) = IF 1 <= n THEN n - 1 + 1 ELSE 0
        /\ \A i \in 1..n - 1 + 1 : p[i] = w[1 + i - 1]
    BY <2>1, <2>2, SubSeqProperties
  <2>4. n - 1 + 1 = n /\ \A i \in 1..n : 1 + i - 1 = i
    BY <1>1
  <2> QED BY <1>1, <2>3, <2>4
<1>3. r \in Seq(S) /\ Len(r) = Len(w) - n /\ \A i \in 1..Len(r) : r[i] = w[n + i]
  <2>1. \A i \in (n + 1)..Len(w) : w[i] \in S
    BY <1>1, ElementOfSeq
  <2>2. n + 1 \in Int /\ Len(w) \in Int
    BY <1>1
  <2>3. /\ r \in Seq(S) /\ Len(r) = IF n + 1 <= Len(w) THEN Len(w) - (n + 1) + 1 ELSE 0
        /\ \A i \in 1..Len(w) - (n + 1) + 1 : r[i] = w[n + 1 + i - 1]
    BY <2>1, <2>2, SubSeqProperties
  <2>4. /\ Len(w) - (n + 1) + 1 = Len(w) - n
        /\ n + 1 <= Len(w) \/ Len(w) - n = 0
        /\ \A i \in 1..Len(w) - n : n + 1 + i - 1 = n + i
    BY <1>1
  <2> QED BY <2>3, <2>4
<1> HIDE DEF p, r
<1>4. /\ u \in Seq(S) /\ Len(u) = Len(b) + Len(p)
      /\ \A i \in 1..Len(b) + Len(p) : u[i] = IF i <= Len(b) THEN b[i] ELSE p[i - Len(b)]
  BY <1>2, ConcatProperties
<1> HIDE DEF u
<1>5. \A i \in 1..Len(b) : u[i] = b[i]
  BY <1>1, <1>2, <1>4
<1>6. ASSUME NEW i \in 1..n PROVE u[Len(b) + i] = w[i]
  <2>1. Len(b) + i \in 1..Len(b) + Len(p) /\ ~(Len(b) + i <= Len(b)) /\ Len(b) + i - Len(b) = i
    BY <1>1, <1>2
  <2> QED BY <1>2, <1>4, <2>1
<1>7. Len(u) = Len(b) + n
  BY <1>2, <1>4
<1> QED BY <1>3, <1>4, <1>5, <1>6, <1>7 DEF u, p, r

(* ... and these are still the units of one request.                            *)
LEMMA SplitUnits ==
  ASSUME NEW S, NEW b \in Seq(S), NEW w \in Seq(S), NEW n \in 1..Len(w), NEW m,
         UnitsFrom(b, 0, m), UnitsFrom(w, Len(b), m)
  PROVE  LET u == b \o SubSeq(w, 1, n)
             r == SubSeq(w, n + 1, Len(w))
         IN  UnitsFrom(u, 0, m) /\ UnitsFrom(r, Len(u), m)
<1> DEFINE u == b \o SubSeq(w, 1, n)
           r == SubSeq(w, n + 1, Len(w))
<1>1. Len(w) \in Nat /\ n \in Nat /\ n <= Len(w) /\ Len(b) \in Nat
  OBVIOUS
<1>2. /\ u \in Seq(S) /\ Len(u) = Len(b) + n
      /\ r \in Seq(S) /\ Len(r) = Len(w) - n
      /\ \A i \in 1..Len(b) : u[i] = b[i]
      /\ \A i \in 1..n : u[Len(b) + i] = w[i]
      /\ \A i \in 1..Len(r) : r[i] = w[n + i]
  BY Split
<1> HIDE DEF u, r
<1>3. UnitsFrom(u, 0, m)
  <2> SUFFICES ASSUME NEW i \in 1..Len(u) PROVE u[i] = UnitOf(m, 0 + i)
    BY DEF UnitsFrom
  <2>1. CASE i \in 1..Len(b)
    BY <1>2, <2>1 DEF UnitsFrom
  <2>2. CASE i \notin 1..Len(b)
    <3>1. i - Len(b) \in 1..n /\ i - Len(b) \in 1..Len(w) /\ Len(b) + (i - Len(b)) = 0 + i
          /\ 0 + i = i
      BY <1>1, <1>2, <2>2
    <3>2. u[i] = w[i - Len(b)] /\ w[i - Len(b)] = UnitOf(m, Len(b) + (i - Len(b)))
      BY <1>2, <3>1 DEF UnitsFrom
    <3> QED BY <3>1, <3>2
  <2> QED BY <2>1, <2>2
<1>4. UnitsFrom(r, Len(u), m)
  <2> SUFFICES ASSUME NEW i \in 1..Len(r) PROVE r[i] = UnitOf(m, Len(u) + i)
    BY DEF UnitsFrom
  <2>1. n + i \in 1..Len(w) /\ Len(b) + (n + i) = Len(u) + i
    BY <1>1, <1>2
  <2> QED BY <1>2, <2>1 DEF UnitsFrom
<1> QED BY <1>3, <1>4 DEF u, r

LEMMA ReceiveKeeps ==
  ASSUME WebTypes, InTurn, NEW n \in Nat, Web!Received(n)
  PROVE  WebTypes' /\ InTurn'
<1> DEFINE u == buffer \o SubSeq(wire, 1, n)
           r == SubSeq(wire, n + 1, Len(wire))
<1>1. /\ n \in 1..Len(wire) /\ n <= BufferSize - Len(buffer)
      /\ buffer' = u /\ wire' = r
      /\ UNCHANGED <<running, thread, sent, unsent, pipelined, answers, asked>>
      /\ buffer \in Seq(SentUnit) /\ wire \in Seq(SentUnit)
  BY DEF Web!Received, Web!clientVars, WebTypes
<1>2. /\ u \in Seq(SentUnit) /\ Len(u) = Len(buffer) + n
      /\ r \in Seq(SentUnit) /\ Len(r) = Len(wire) - n
  BY <1>1, Split
<1>3. ASSUME NEW m, UnitsFrom(buffer, 0, m), UnitsFrom(wire, Len(buffer), m)
      PROVE  UnitsFrom(u, 0, m) /\ UnitsFrom(r, Len(u), m)
  BY <1>1, <1>3, SplitUnits
<1> HIDE DEF u, r
<1>4. Len(buffer) \in Nat /\ Len(wire) \in Nat /\ BufferSize \in Nat
  BY <1>1, WebConstants
<1>5. WebTypes'
  <2>1. SentUnit' = SentUnit
    BY <1>1 DEF SentUnit
  <2>2. Len(buffer') <= BufferSize
    BY <1>1, <1>2, <1>4
  <2> QED BY <1>1, <1>2, <2>1, <2>2 DEF WebTypes
<1>6. InTurn'
  <2> SUFFICES ASSUME Waits PROVE InTurn'
    BY <1>1 DEF InTurn, Waits, Web!AllStated
  <2>1. Len(answers) + 1 = Len(sent) /\ OnItsWay(Len(sent))
    BY <1>1, <1>4 DEF InTurn
  <2>2. PICK m : m = Len(sent)
    OBVIOUS
  <2>3. UnitsFrom(u, 0, m) /\ UnitsFrom(r, Len(u), m)
    BY <1>3, <2>1, <2>2 DEF OnItsWay
  <2>4. Len(u) + Len(r) = Len(buffer) + Len(wire)
    BY <1>2, <1>4
  <2>5. /\ UnitsFrom(unsent, Len(u) + Len(r), m)
        /\ Len(u) + Len(r) + Len(unsent) = 1 + sent[m].body
    BY <2>1, <2>2, <2>4 DEF OnItsWay
  <2>6. OnItsWay(m)'
    BY <1>1, <2>3, <2>5 DEF OnItsWay
  <2>7. /\ \A i \in 1..Len(answers') : answers'[i].number = i
        /\ Len(answers') + 1 = Len(sent') /\ m = Len(sent')
    BY <1>1, <2>1, <2>2 DEF InTurn
  <2> QED BY <2>6, <2>7 DEF InTurn, OnItsWay
<1> QED BY <1>5, <1>6

(* The head that ends the buffer's first request, and the length it has.        *)
LEMMA FirstRequest ==
  ASSUME WebTypes, NEW units \in Seq(SentUnit), Web!Complete(units)
  PROVE  /\ Len(units) # 0 /\ Web!Total(units) \in Nat \ {0}
         /\ Web!Total(units) <= Len(units)
         /\ Web!First(Web!Heads(units)) \in 1..Len(units)
<1>1. Len(units) \in Nat /\ DOMAIN units = 1..Len(units)
  BY LenProperties
<1>2. ASSUME NEW S, S \subseteq 1..Len(units), S # {}
      PROVE  Web!First(S) \in S
  <2>1. IsFiniteSet(S) /\ S \subseteq Int
    <3>1. IsFiniteSet(1..Len(units))
      BY <1>1, FS_Interval
    <3>2. 1..Len(units) \subseteq Int
      BY <1>1
    <3>3. S \in SUBSET (1..Len(units))
      BY <1>2
    <3> QED BY <3>1, <3>2, <3>3, FS_Subset
  <2>2. \E m \in S : \A k \in S : m <= k
    BY <1>2, <2>1, LeastExists
  <2> QED BY <2>2 DEF Web!First
<1>3. Web!Heads(units) \subseteq 1..Len(units) /\ Web!Heads(units) # {}
  BY <1>1 DEF Web!Heads, Web!Complete
<1>4. Web!Lengths(units) \subseteq 1..Len(units)
  BY <1>3 DEF Web!Lengths
<1>5. Web!First(Web!Heads(units)) \in 1..Len(units)
  BY <1>2, <1>3
<1>6. Web!ContentLength(units) \in Nat
  <2>1. CASE Web!Lengths(units) = {}
    BY <2>1 DEF Web!ContentLength
  <2>2. CASE Web!Lengths(units) # {}
    <3> DEFINE i == Web!First(Web!Lengths(units))
    <3>1. i \in Web!Lengths(units) /\ i \in 1..Len(units)
      BY <1>2, <1>4, <2>2
    <3> HIDE DEF i
    <3>2. units[i] \in SentUnit
      BY <3>1, ElementOfSeq
    <3>3. units[i].number \in 1..Len(sent)
      BY <3>2 DEF SentUnit
    <3>4. sent[units[i].number] \in Web!Request
      BY <3>3, ElementOfSeq DEF WebTypes
    <3>5. sent[units[i].number].body \in Nat
      BY <3>4, LengthOfBody
    <3> QED BY <2>2, <3>5 DEF i, Web!ContentLength
  <2> QED BY <2>1, <2>2
<1>7. Web!Total(units) = Web!First(Web!Heads(units)) + Web!ContentLength(units)
  BY DEF Web!Total
<1>8. Web!Total(units) <= Len(units)
  BY DEF Web!Complete
<1> QED BY <1>1, <1>5, <1>6, <1>7, <1>8

(* In turn, the buffer's first request is the one that is on its way, and what  *)
(* completes it is all of it.                                                   *)
LEMMA WholeRequest ==
  ASSUME WebTypes, NEW units \in Seq(SentUnit), NEW m \in 1..Len(sent),
         UnitsFrom(units, 0, m), Len(units) <= 1 + sent[m].body, Web!Complete(units),
         sent[m].body > 0 => sent[m].stated
  PROVE  /\ Web!Total(units) = 1 + sent[m].body
         /\ Len(units) = 1 + sent[m].body
         /\ units[1].head /\ units[1].number = m
<1>1. Len(units) \in Nat \ {0} /\ DOMAIN units = 1..Len(units) /\ 1 \in 1..Len(units)
  BY FirstRequest, LenProperties
<1>2. sent[m] \in Web!Request /\ sent[m].body \in Nat
  BY ElementOfSeq, LengthOfBody DEF WebTypes
<1>3. units[1].head /\ units[1].number = m
  <2>1. units[1] = UnitOf(m, 0 + 1) /\ 0 + 1 = 1
    BY <1>1 DEF UnitsFrom
  <2> QED BY <2>1 DEF UnitOf
<1>4. \A i \in 1..Len(units) : i # 1 => ~units[i].head
  <2> SUFFICES ASSUME NEW i \in 1..Len(units), i # 1 PROVE ~units[i].head
    OBVIOUS
  <2>1. 0 + i # 1 /\ units[i] = UnitOf(m, 0 + i)
    BY <1>1 DEF UnitsFrom
  <2> QED BY <2>1 DEF UnitOf
<1>5. Web!Heads(units) = {1}
  BY <1>1, <1>3, <1>4 DEF Web!Heads
<1>6. Web!First({1}) = 1
  BY DEF Web!First
<1>7. Web!ContentLength(units) = sent[m].body
  <2>1. CASE ~sent[m].stated
    <3>1. Web!Lengths(units) = {}
      BY <1>3, <1>5, <2>1 DEF Web!Lengths
    <3>2. sent[m].body = 0
      BY <1>2, <2>1
    <3> QED BY <3>1, <3>2 DEF Web!ContentLength
  <2>2. CASE sent[m].stated
    <3>1. Web!Lengths(units) = {1}
      BY <1>3, <1>5, <2>2 DEF Web!Lengths
    <3> QED BY <1>3, <1>6, <3>1 DEF Web!ContentLength
  <2> QED BY <2>1, <2>2
<1>8. Web!Total(units) = 1 + sent[m].body
  BY <1>5, <1>6, <1>7 DEF Web!Total
<1>9. Len(units) >= 1 + sent[m].body
  BY <1>8 DEF Web!Complete
<1> QED BY <1>1, <1>2, <1>3, <1>8, <1>9

LEMMA AnswerIsTyped ==
  ASSUME WebTypes, NEW units \in Seq(SentUnit), Web!Complete(units), Web!Handled(units)
  PROVE  /\ \E number \in 0..MaxRequests, status \in Web!HttpStatuses :
              /\ answers' = Append(answers, [number |-> number, status |-> status])
              /\ units[1].head => number = units[1].number
         /\ asked' \in Web!WebModels
<1>1. \A path : Web!StatusOf(path) \subseteq Web!HttpStatuses
  BY DEF Web!StatusOf, Web!HttpStatuses
<1>2. \A i \in 1..Len(units) : units[i].number \in 0..MaxRequests
  <2> SUFFICES ASSUME NEW i \in 1..Len(units) PROVE units[i].number \in 0..MaxRequests
    OBVIOUS
  <2>1. units[i] \in SentUnit
    BY ElementOfSeq
  <2>2. units[i].number \in 1..Len(sent) /\ Len(sent) \in Nat /\ Len(sent) <= MaxRequests
    BY <2>1, LenProperties DEF SentUnit, WebTypes
  <2> QED BY <2>2, WebConstants
<1>3. PICK number \in Web!NumbersFound(units) :
        \E path \in Web!PathsFound(units) : \E status \in Web!StatusOf(path) :
          answers' = Append(answers, [number |-> number, status |-> status])
  BY Zenon DEF Web!Handled
<1>4. number \in 0..MaxRequests /\ (units[1].head => number = units[1].number)
  <2>1. 1 \in 1..Len(units) /\ Web!First(Web!Heads(units)) \in 1..Len(units)
    BY FirstRequest, LenProperties
  <2>2. 0 \in 0..MaxRequests
    BY WebConstants
  <2> QED BY <1>2, <2>1, <2>2 DEF Web!NumbersFound
<1>5. asked' \in Web!WebModels
  <2>1. \A words : Web!Routed(words) \in Web!WebModels
    BY DEF Web!Routed, Web!WebModels
  <2> QED BY <2>1 DEF Web!Handled, WebTypes
<1> QED BY <1>1, <1>3, <1>4, <1>5

LEMMA AnswerKeeps ==
  ASSUME WebTypes, InTurn, NEW n \in Nat, Web!Answer(n)
  PROVE  WebTypes' /\ InTurn'
<1> DEFINE u == buffer \o SubSeq(wire, 1, n)
           r == SubSeq(wire, n + 1, Len(wire))
           rest == SubSeq(u, Web!Total(u) + 1, Len(u))
<1>1. /\ n \in 1..Len(wire) /\ n <= BufferSize - Len(buffer)
      /\ Web!Complete(u) /\ Web!Handled(u)
      /\ thread' = (IF Web!Closing(u) THEN "ended" ELSE "serving")
      /\ buffer' = rest /\ wire' = r
      /\ UNCHANGED <<running, sent, unsent, pipelined>>
      /\ buffer \in Seq(SentUnit) /\ wire \in Seq(SentUnit)
  BY DEF Web!Answer, Web!clientVars, WebTypes
<1>2. /\ u \in Seq(SentUnit) /\ Len(u) = Len(buffer) + n
      /\ r \in Seq(SentUnit) /\ Len(r) = Len(wire) - n
  BY <1>1, Split
<1>3. ASSUME NEW m, UnitsFrom(buffer, 0, m), UnitsFrom(wire, Len(buffer), m)
      PROVE  UnitsFrom(u, 0, m)
  BY <1>1, <1>3, SplitUnits
<1> HIDE DEF u, r
<1>4. /\ Len(buffer) \in Nat /\ Len(wire) \in Nat /\ BufferSize \in Nat /\ Len(u) \in Nat
      /\ n <= Len(wire) /\ Len(unsent) \in Nat /\ Len(sent) \in Nat /\ Len(answers) \in Nat
  BY <1>1, <1>2, WebConstants, LenProperties DEF WebTypes
<1>5. Web!Total(u) \in Nat \ {0} /\ Web!Total(u) <= Len(u)
  BY <1>1, <1>2, FirstRequest
<1>6. rest \in Seq(SentUnit) /\ Len(rest) = Len(u) - Web!Total(u)
  <2> DEFINE k == Web!Total(u)
  <2> HIDE DEF k
  <2>1. k \in Nat \ {0} /\ k <= Len(u)
    BY <1>5 DEF k
  <2>2. \A i \in (k + 1)..Len(u) : u[i] \in SentUnit
    BY <1>2, <1>4, <2>1, ElementOfSeq
  <2>3. k + 1 \in Int /\ Len(u) \in Int
    BY <1>4, <2>1
  <2>4. /\ SubSeq(u, k + 1, Len(u)) \in Seq(SentUnit)
        /\ Len(SubSeq(u, k + 1, Len(u))) = IF k + 1 <= Len(u) THEN Len(u) - (k + 1) + 1 ELSE 0
    BY <2>2, <2>3, SubSeqProperties
  <2>5. Len(u) - (k + 1) + 1 = Len(u) - k /\ (k + 1 <= Len(u) \/ Len(u) - k = 0)
    BY <1>4, <2>1
  <2> QED BY <2>4, <2>5 DEF k
<1> HIDE DEF rest
<1>7. PICK number \in 0..MaxRequests, status \in Web!HttpStatuses :
        /\ answers' = Append(answers, [number |-> number, status |-> status])
        /\ u[1].head => number = u[1].number
  BY <1>1, <1>2, AnswerIsTyped
<1>8. WebTypes'
  <2>1. SentUnit' = SentUnit
    BY <1>1 DEF SentUnit
  <2>2. Len(buffer') <= BufferSize
    BY <1>1, <1>2, <1>4, <1>5, <1>6
  <2>3. asked' \in Web!WebModels
    BY <1>1, <1>2, AnswerIsTyped
  <2>4. answers' \in Seq([number : 0..MaxRequests, status : Web!HttpStatuses])
    <3>1. [number |-> number, status |-> status]
            \in [number : 0..MaxRequests, status : Web!HttpStatuses]
      BY <1>7
    <3> QED BY <1>7, <3>1, AppendProperties DEF WebTypes
  <2>5. thread' \in {"none", "serving", "ended"}
    BY <1>1
  <2> QED BY <1>1, <1>2, <1>6, <2>1, <2>2, <2>3, <2>4, <2>5 DEF WebTypes
<1>9. InTurn'
  <2> SUFFICES ASSUME Waits PROVE InTurn'
    BY <1>1 DEF InTurn, Waits, Web!AllStated
  <2>1. /\ Len(answers) + 1 = Len(sent) /\ OnItsWay(Len(sent))
        /\ \A i \in 1..Len(answers) : answers[i].number = i
    BY <1>1, <1>4 DEF InTurn
  <2>2. PICK m \in 1..Len(sent) : m = Len(sent)
    BY <1>4, <2>1
  <2>3. UnitsFrom(u, 0, m)
    BY <1>3, <2>1, <2>2 DEF OnItsWay
  <2>4. sent[m].body \in Nat
    BY ElementOfSeq, LengthOfBody DEF WebTypes
  <2>5. Len(buffer) + Len(wire) + Len(unsent) = 1 + sent[m].body
    BY <2>1, <2>2 DEF OnItsWay
  <2>6. Len(u) <= 1 + sent[m].body
    BY <1>2, <1>4, <2>4, <2>5
  <2>7. /\ Web!Total(u) = 1 + sent[m].body
        /\ Len(u) = 1 + sent[m].body
        /\ u[1].head /\ u[1].number = m
    <3>1. sent[m].body > 0 => sent[m].stated
      BY LenProperties DEF Waits, Web!AllStated, WebTypes
    <3> QED BY <1>1, <1>2, <2>3, <2>6, <3>1, WholeRequest
  <2>8. Len(buffer') = 0 /\ Len(wire') = 0 /\ Len(unsent') = 0
    BY <1>1, <1>2, <1>4, <1>6, <2>4, <2>5, <2>7
  <2>9. /\ Len(answers') = Len(answers) + 1
        /\ \A i \in 1..Len(answers) : answers'[i] = answers[i]
        /\ answers'[Len(answers) + 1].number = m
    <3>1. [number |-> number, status |-> status]
            \in [number : 0..MaxRequests, status : Web!HttpStatuses]
      BY <1>7
    <3>2. /\ Len(answers') = Len(answers) + 1
          /\ \A i \in 1..Len(answers) : answers'[i] = answers[i]
          /\ answers'[Len(answers) + 1] = [number |-> number, status |-> status]
      BY <1>7, <3>1, AppendProperties DEF WebTypes
    <3>3. [number |-> number, status |-> status].number = number
      OBVIOUS
    <3> QED BY <1>7, <2>7, <3>2, <3>3
  <2>10. ASSUME NEW i \in 1..Len(answers') PROVE answers'[i].number = i
    <3>1. i \in 1..Len(answers) \/ i = Len(answers) + 1
      BY <1>4, <2>9
    <3> QED BY <2>1, <2>2, <2>9, <3>1
  <2>11. Len(answers') = Len(sent')
    BY <1>1, <2>1, <2>9
  <2> QED BY <2>8, <2>10, <2>11 DEF InTurn
<1> QED BY <1>8, <1>9

LEMMA WebNext ==
  WebTypes /\ InTurn /\ [Web!Next]_(Web!webVars) => WebTypes' /\ InTurn'
<1> SUFFICES ASSUME WebTypes, InTurn, [Web!Next]_(Web!webVars)
             PROVE  WebTypes' /\ InTurn'
  OBVIOUS
<1>1. ASSUME UNCHANGED <<sent, wire, unsent, buffer, answers, asked, pipelined>>,
             running' \in BOOLEAN, thread' \in {"none", "serving", "ended"}
      PROVE  WebTypes' /\ InTurn'
  BY <1>1 DEF WebTypes, InTurn, Waits, Web!AllStated, SentUnit, OnItsWay
<1>2. CASE UNCHANGED Web!webVars
  BY <1>1, <1>2 DEF Web!webVars, Web!clientVars, WebTypes
<1>3. CASE Web!Accept \/ Web!Drop \/ Web!Stop
  BY <1>1, <1>3 DEF Web!Accept, Web!Drop, Web!Stop, Web!clientVars, WebTypes
<1>4. ASSUME NEW n \in 1..BufferSize, Web!Received(n) \/ Web!Answer(n)
      PROVE  WebTypes' /\ InTurn'
  BY <1>4, WebConstants, ReceiveKeeps, AnswerKeeps
<1> QED BY <1>2, <1>3, <1>4, RequestKeeps, SendKeeps DEF Web!Next

LEMMA WebKept == Spec => [](WebTypes /\ InTurn)
  BY WebStarts, WebNext, PartsFollowTheirSpecs, PTL DEF Web!Spec

(* Property AnswersFit, for any number of requests, lengths of bodies and sizes *)
(* of the buffer, and however the requests are cut: a client of the dashboard   *)
(* that waits for its answers and states the lengths of its bodies gets at most *)
(* one answer for each request, in turn; and the monitor shows a health with    *)
(* its own figures.  (A client that spells the header otherwise may be answered *)
(* for a request it did not make: WebServer's FramesRequests.)                  *)
THEOREM AnswersTheorem == Spec => []AnswersFit
<1>1. WebTypes /\ InTurn => Web!AnsweredInTurn
  <2> SUFFICES ASSUME WebTypes, InTurn PROVE Web!AnsweredInTurn
    OBVIOUS
  <2>1. DOMAIN answers = 1..Len(answers) /\ Len(answers) \in Nat /\ Len(sent) \in Nat
    BY LenProperties DEF WebTypes
  <2>2. Waits => Web!InTurn
    BY <2>1 DEF InTurn, Web!InTurn
  <2> QED BY <2>2 DEF Waits, Web!AnsweredInTurn
<1>2. Web!AnsweredInTurn /\ Watch!ReportsCoherent => AnswersFit
  BY DEF AnswersFit
<1> QED BY <1>1, <1>2, WebKept, CoherentTheorem, PTL

(* The types of WebServer; the buffer never holds more than it has room for.    *)
THEOREM WebTypeCorrect == Spec => []Web!TypeOK
<1>1. WebTypes => Web!TypeOK
  <2> SUFFICES ASSUME WebTypes PROVE Web!TypeOK
    OBVIOUS
  <2>1. Len(sent) \in Nat /\ Len(sent) <= MaxRequests
    BY LenProperties DEF WebTypes
  <2>2. wire \in Seq(Web!Unit) /\ unsent \in Seq(Web!Unit) /\ buffer \in Seq(Web!Unit)
    BY <2>1, WebConstants, MoreUnits DEF WebTypes, SentUnit, Web!Unit
  <2> QED BY <2>2 DEF WebTypes, Web!TypeOK
<1> QED BY <1>1, WebKept, PTL

---------------------------------------------------------------------------
(* BpfFilters: denials and the records of the maps, for any process ids and     *)
(* thresholds, and maps of any size                                             *)

LEMMA SameFilterCount ==
  ASSUME NEW S
  PROVE  /\ Filters!Cardinality(S) = Cardinality(S)
         /\ Filters!IsFiniteSet(S) <=> IsFiniteSet(S)
  BY DEF Filters!Cardinality, Cardinality, Filters!IsFiniteSet, IsFiniteSet

Executed == {p \in Pids : execs[p].count > 0}

ExecsOK == execs \in [Pids -> [count : 0..MaxExecs, short : BOOLEAN]]

DeniedOK == denied \in [Pids -> 6..Filters!NotDenied] /\ refused \in BOOLEAN

(* A map that is full takes no new key.                                         *)
RecordsFit ==
  /\ IsFiniteSet(Executed) /\ Cardinality(Executed) <= MaxRecords
  /\ seen \subseteq Sources /\ IsFiniteSet(seen) /\ Cardinality(seen) <= MaxRecords

FilterScalars ==
  /\ threshold \in Thresholds \cup {0}
  /\ limits \in [drop : Thresholds \cup {0}, slow : Thresholds \cup {0}]
  /\ ring \in 0..RingSize
  /\ action \in {"pass", "redirect", "drop"}

FilterInv == ExecsOK /\ DeniedOK /\ RecordsFit /\ FilterScalars

(* A name scores at most 45, and a history of up to five executions nothing.    *)
LEMMA ShortHistoryScoresLow ==
  ASSUME ExecsOK, NEW p \in Pids, NEW name \in DOMAIN Filters!NameScore,
         NEW interval, NEW orphan, execs[p].count <= 5
  PROVE  Filters!ExecScore(p, name, interval, orphan) <= 45
<1>1. execs[p].count \in Nat /\ ~(execs[p].count > 10) /\ ~(execs[p].count > 5)
  <2>1. execs[p].count \in 0..MaxExecs
    BY DEF ExecsOK
  <2> QED BY <2>1
<1>2. Filters!HistoryScore(execs[p], interval, orphan) = 0
  BY <1>1 DEF Filters!HistoryScore
<1>3. Filters!NameScore[name] \in 0..45
  BY DEF Filters!NameScore
<1> QED BY <1>2, <1>3 DEF Filters!ExecScore

LEMMA CountOfOneMore ==
  ASSUME NEW S, NEW x, NEW n \in Nat, IsFiniteSet(S), Cardinality(S) < n
  PROVE  IsFiniteSet(S \cup {x}) /\ Cardinality(S \cup {x}) <= n
<1>1. Cardinality(S) \in Nat
  BY FS_CardinalityType
<1> QED BY <1>1, FS_AddElement

LEMMA FilterInit == Filters!Init => FilterInv
<1> SUFFICES ASSUME Filters!Init PROVE FilterInv
  OBVIOUS
<1> USE ServicesAssumption DEF Filters!Init, Filters!FiltersAssumption
<1>1. ExecsOK
  BY DEF ExecsOK
<1>2. DeniedOK
  <2>1. denied \in [Pids -> 6..Filters!NotDenied]
    BY DEF Filters!NotDenied
  <2>2. refused \in BOOLEAN
    BY Zenon
  <2> QED BY <2>1, <2>2 DEF DeniedOK
<1>3. RecordsFit
  <2>1. Executed = {}
    BY DEF Executed
  <2> QED BY <2>1, FS_EmptySet DEF RecordsFit
<1>4. FilterScalars
  BY DEF FilterScalars
<1> QED BY <1>1, <1>2, <1>3, <1>4 DEF FilterInv

LEMMA ReportFits == FilterScalars /\ Filters!Reported => ring' \in 0..RingSize
  BY ServicesAssumption DEF FilterScalars, Filters!Reported, Filters!FiltersAssumption

LEMMA RecordedKeeps ==
  ASSUME FilterInv, NEW p \in Pids, NEW interval, execs[p].count < MaxExecs,
         Filters!Recorded(p, interval)
  PROVE  ExecsOK' /\ IsFiniteSet(Executed') /\ Cardinality(Executed') <= MaxRecords
<1> USE DEF FilterInv
<1>0. /\ execs[p].count \in 0..MaxExecs /\ MaxExecs \in Nat /\ MaxRecords \in Nat
      /\ IsFiniteSet(Executed) /\ Cardinality(Executed) <= MaxRecords
  BY ServicesAssumption DEF ExecsOK, Filters!FiltersAssumption, RecordsFit
<1>1. CASE execs' = execs
  BY <1>0, <1>1 DEF ExecsOK, Executed
<1>2. CASE execs[p].count = 0 /\ Filters!HasRoom /\ execs' = [execs EXCEPT ![p].count = 1]
  <2>1. ExecsOK'
    BY <1>0, <1>2 DEF ExecsOK
  <2>2. \A q \in Pids : execs'[q].count > 0 <=> q \in Executed \cup {p}
    BY <1>2 DEF ExecsOK, Executed
  <2>3. Executed' = Executed \cup {p}
    BY <2>2 DEF Executed
  <2>4. Cardinality(Executed) < MaxRecords
    BY <1>2, SameFilterCount DEF Filters!HasRoom, Executed
  <2> QED BY <1>0, <2>1, <2>3, <2>4, CountOfOneMore
<1>3. ASSUME NEW short \in BOOLEAN, execs[p].count # 0,
             execs' = [execs EXCEPT ![p] = [count |-> @.count + 1, short |-> short]]
      PROVE  ExecsOK' /\ IsFiniteSet(Executed') /\ Cardinality(Executed') <= MaxRecords
  <2>1. execs[p].count + 1 \in 0..MaxExecs /\ execs[p].count + 1 > 0 /\ execs[p].count > 0
    BY <1>0, <1>3
  <2>2. ExecsOK'
    BY <1>3, <2>1 DEF ExecsOK
  <2>3. \A q \in Pids : execs'[q].count > 0 <=> execs[q].count > 0
    BY <1>3, <2>1 DEF ExecsOK
  <2>4. Executed' = Executed
    BY <2>3 DEF Executed
  <2> QED BY <1>0, <2>2, <2>4
<1> QED BY <1>1, <1>2, <1>3 DEF Filters!Recorded

LEMMA TaskExecKeeps ==
  ASSUME FilterInv, NEW p \in Pids, NEW name \in DOMAIN Filters!NameScore,
         NEW interval \in Filters!Intervals, NEW orphan \in BOOLEAN,
         Filters!TaskExec(p, name, interval, orphan)
  PROVE  FilterInv'
<1> USE DEF FilterInv
<1>1. ExecsOK' /\ IsFiniteSet(Executed') /\ Cardinality(Executed') <= MaxRecords
  BY RecordedKeeps DEF Filters!TaskExec
<1>2. RecordsFit'
  BY <1>1 DEF RecordsFit, Filters!TaskExec
<1>3. DeniedOK'
  <2>0. execs[p].count \in 0..MaxExecs /\ MaxExecs \in Nat
    BY ServicesAssumption DEF ExecsOK, Filters!FiltersAssumption
  <2>3. refused' \in BOOLEAN
    BY DEF Filters!TaskExec, DeniedOK
  <2>1. CASE denied' = denied
    BY <2>1, <2>3 DEF DeniedOK
  <2>2. CASE /\ Filters!ExecScore(p, name, interval, orphan) >= threshold /\ threshold > 45
             /\ denied' = [denied EXCEPT ![p] = execs[p].count]
    <3>1. execs[p].count > 5
      <4>1. threshold \in Nat
        BY ServicesAssumption DEF FilterScalars, Filters!FiltersAssumption
      <4>2. ASSUME execs[p].count <= 5 PROVE FALSE
        <5>1. Filters!ExecScore(p, name, interval, orphan) <= 45
          BY <4>2, ShortHistoryScoresLow
        <5>2. Filters!ExecScore(p, name, interval, orphan) \in Nat
          <6>1. Filters!NameScore[name] \in Nat
            BY DEF Filters!NameScore
          <6>2. Filters!HistoryScore(execs[p], interval, orphan) \in Nat
            BY <2>0 DEF Filters!HistoryScore
          <6> QED BY <6>1, <6>2 DEF Filters!ExecScore
        <5> QED BY <2>2, <4>1, <5>1, <5>2
      <4> QED BY <2>0, <4>2
    <3> QED BY <2>0, <2>2, <2>3, <3>1 DEF DeniedOK, Filters!NotDenied
  <2> QED BY <2>1, <2>2 DEF Filters!TaskExec, Filters!NameReach
<1>4. FilterScalars'
  BY ReportFits DEF Filters!TaskExec, FilterScalars
<1> QED BY <1>1, <1>2, <1>3, <1>4

LEMMA XdpClassifyKeeps ==
  ASSUME FilterInv, NEW source \in Sources, NEW packet, Filters!XdpClassify(source, packet)
  PROVE  FilterInv'
<1> USE DEF FilterInv
<1>1. ExecsOK' /\ DeniedOK'
  BY DEF Filters!XdpClassify, ExecsOK, DeniedOK
<1>2. FilterScalars'
  <2>1. action' \in {"pass", "redirect", "drop"}
    <3> DEFINE score == Filters!PacketScore(packet)
    <3>1. action' = Filters!Verdict(score)
      BY DEF Filters!XdpClassify
    <3>2. score \in Nat /\ limits.drop \in Nat
      BY ServicesAssumption
         DEF FilterScalars, Filters!PacketScore, Filters!FiltersAssumption
    <3> HIDE DEF score
    <3> QED BY <3>1, <3>2 DEF Filters!Verdict
  <2> QED BY <2>1, ReportFits DEF Filters!XdpClassify, FilterScalars
<1>3. RecordsFit'
  <2>1. Executed' = Executed
    BY DEF Filters!XdpClassify, Executed
  <2>2. CASE seen' = seen
    BY <2>1, <2>2 DEF RecordsFit
  <2>3. CASE Cardinality(seen) < MaxRecords /\ seen' = seen \cup {source}
    <3>1. MaxRecords \in Nat
      BY ServicesAssumption DEF Filters!FiltersAssumption
    <3> QED BY <2>1, <2>3, <3>1, CountOfOneMore DEF RecordsFit
  <2> QED BY <2>2, <2>3, SameFilterCount DEF Filters!XdpClassify
<1> QED BY <1>1, <1>2, <1>3

LEMMA FilterNext == FilterInv /\ [Filters!Next]_(Filters!filterVars) => FilterInv'
<1> SUFFICES ASSUME FilterInv, [Filters!Next]_(Filters!filterVars) PROVE FilterInv'
  OBVIOUS
<1> USE DEF FilterInv
<1>1. CASE Filters!FileOpen \/ Filters!Consume
  <2>1. FilterScalars'
    <3>1. CASE Filters!FileOpen
      BY <3>1, ReportFits DEF Filters!FileOpen, FilterScalars
    <3>2. CASE Filters!Consume
      BY <3>2, ServicesAssumption
         DEF Filters!Consume, FilterScalars, Filters!FiltersAssumption
    <3> QED BY <1>1, <3>1, <3>2
  <2> QED BY <1>1, <2>1
       DEF Filters!FileOpen, Filters!Consume, ExecsOK, DeniedOK, RecordsFit, Executed
<1>2. ASSUME NEW t \in Thresholds, Filters!Configure(t) PROVE FilterInv'
  BY <1>2 DEF Filters!Configure, ExecsOK, DeniedOK, RecordsFit, Executed, FilterScalars
<1>3. ASSUME NEW drop \in Thresholds, NEW slow \in Thresholds,
             Filters!ConfigureXdp(drop, slow)
      PROVE  FilterInv'
  BY <1>3 DEF Filters!ConfigureXdp, ExecsOK, DeniedOK, RecordsFit, Executed, FilterScalars
<1>4. CASE UNCHANGED Filters!filterVars
  BY <1>4 DEF Filters!filterVars, ExecsOK, DeniedOK, RecordsFit, Executed, FilterScalars
<1> QED BY <1>1, <1>2, <1>3, <1>4, TaskExecKeeps, XdpClassifyKeeps DEF Filters!Next

LEMMA FiltersKept == Spec => []FilterInv
  BY FilterInit, FilterNext, PartsFollowTheirSpecs, PTL DEF Filters!Spec

(* Property DenialNeedsHistory of BpfFilters, part of AdviceSound: whatever is  *)
(* executed, however fast, task_exec() of the security program denies no        *)
(* process id that has executed fewer than six times, while the threshold is    *)
(* one above 45, which no name reaches.                                         *)
THEOREM DenialTheorem == Spec => []Filters!DenialNeedsHistory
<1>1. FilterInv => Filters!DenialNeedsHistory
  BY ServicesAssumption
     DEF FilterInv, DeniedOK, Filters!DenialNeedsHistory, Filters!NotDenied,
         Filters!FiltersAssumption
<1> QED BY <1>1, FiltersKept, PTL

(* The types of BpfFilters; neither exec_history nor traffic_baseline ever      *)
(* holds more records than max_entries.                                         *)
THEOREM FilterTypes == Spec => []Filters!TypeOK
<1>1. FilterInv => Filters!TypeOK
  <2> SUFFICES ASSUME FilterInv PROVE Filters!TypeOK
    OBVIOUS
  <2>0. refused \in BOOLEAN
    BY DEF FilterInv, DeniedOK
  <2>1. denied \in [Pids -> 0..Filters!NotDenied]
    BY ServicesAssumption
       DEF FilterInv, DeniedOK, Filters!NotDenied, Filters!FiltersAssumption
  <2>2. /\ Filters!Cardinality({p \in Pids : execs[p].count > 0}) <= MaxRecords
        /\ Filters!Cardinality(seen) <= MaxRecords
    BY SameFilterCount DEF FilterInv, RecordsFit, Executed
  <2> QED BY <2>0, <2>1, <2>2
       DEF Filters!TypeOK, FilterInv, ExecsOK, RecordsFit, FilterScalars
<1> QED BY <1>1, FiltersKept, PTL

---------------------------------------------------------------------------
(* KaiMetrics: the alert rules, for any number of rules and evaluators and any  *)
(* repeat_count; the types of the registry and of the audit ring                *)

Entry == [name : Metrics, value : 0..MaxValue]

AlertRules ==
  /\ rules \in [Rules -> [listed : BOOLEAN, count : Nat, last : Alerts!Now]]
  /\ streak \in [Rules -> 0..Repeat]

AlertClock ==
  /\ evaluator \in [Evaluators -> [waits : BOOLEAN, now : Alerts!Now]]
  /\ ticks \in Alerts!Now

AuditRing ==
  /\ audit \in [0..AuditSize - 1 -> [event : 0..MaxAudits, details : 0..MaxAudits]]
  /\ audited \in 0..MaxAudits

AlertInv ==
  metrics \in Seq(Entry) /\ AlertRules /\ AlertClock /\ AuditRing /\ CountBehindStreak

LEMMA AlertConstants ==
  /\ IsFiniteSet(Metrics) /\ CpuUsage \in Metrics /\ MaxValue \in Nat /\ Busy \in Nat
  /\ Repeat \in Nat /\ AuditSize \in Nat /\ AuditSize # 0 /\ MaxTime \in Nat
  /\ MaxAudits \in Nat
  BY ServicesAssumption
     DEF Alerts!MetricsAssumption, Alerts!IsFiniteSet, IsFiniteSet

(* The entries of a name have a first one.                                      *)
LEMMA FirstEntry ==
  ASSUME metrics \in Seq(Entry), NEW name, Alerts!Registered(name)
  PROVE  Alerts!First(name) \in 1..Len(metrics)
<1> DEFINE S == Alerts!Entries(name)
<1>1. S \in SUBSET (1..Len(metrics)) /\ Len(metrics) \in Nat
  BY DEF Alerts!Entries
<1>2. S # {}
  BY DEF Alerts!Registered
<1>3. IsFiniteSet(S) /\ S \subseteq Int
  <2>1. IsFiniteSet(1..Len(metrics))
    BY <1>1, FS_Interval
  <2> QED BY <1>1, <2>1, FS_Subset
<1> HIDE DEF S
<1>4. \E m \in S : \A k \in S : m <= k
  BY <1>2, <1>3, LeastExists
<1>5. Alerts!First(name) \in S
  BY <1>4 DEF Alerts!First, S
<1> QED BY <1>1, <1>5

LEMMA AlertInit == Alerts!Init => AlertInv
<1> SUFFICES ASSUME Alerts!Init PROVE AlertInv
  OBVIOUS
<1> USE AlertConstants DEF Alerts!Init, Alerts!FreshRule, Alerts!Now
<1>1. metrics \in Seq(Entry)
  <2> DEFINE M == [name : Metrics, value : {0}]
             n == Cardinality(Metrics)
  <2>1. n \in Nat /\ ExistsBijection(1..n, Metrics)
    BY FS_CardinalityType
  <2>2. Alerts!Cardinality(Metrics) = n
    BY DEF Alerts!Cardinality, Cardinality, Alerts!IsFiniteSet, IsFiniteSet
  <2> HIDE DEF n
  <2>3. PICK b \in [1..n -> Metrics] : IsInjective(b)
    BY <2>1 DEF ExistsBijection, Bijection, Injection
  <2>4. \E s \in [1..n -> M] : Alerts!IsInjective(s)
    <3> DEFINE s == [i \in 1..n |-> [name |-> b[i], value |-> 0]]
    <3>1. s \in [1..n -> M]
      BY <2>3
    <3>2. ASSUME NEW i \in 1..n, NEW j \in 1..n, s[i] = s[j] PROVE i = j
      <4>1. b[i] = b[j]
        BY <3>2
      <4> QED BY <2>3, <4>1 DEF IsInjective
    <3>3. Alerts!IsInjective(s)
      BY <3>2 DEF Alerts!IsInjective
    <3> QED BY <3>1, <3>3
  <2>5. metrics \in [1..n -> M]
    BY <2>2, <2>4
  <2>6. M \subseteq Entry
    BY DEF Entry
  <2> HIDE DEF M
  <2>7. metrics \in [1..n -> Entry]
    BY <2>5, <2>6
  <2> QED BY <2>1, <2>7, FunctionIsSeq
<1>2. AlertRules
  BY DEF AlertRules
<1>3. AlertClock /\ AuditRing
  BY DEF AlertClock, AuditRing
<1>4. CountBehindStreak
  BY DEF CountBehindStreak, Alerts!CountBehindStreak
<1> QED BY <1>1, <1>2, <1>3, <1>4 DEF AlertInv

LEMMA RegistryKeeps ==
  ASSUME AlertInv, NEW name \in Metrics, Alerts!Registry(name)
  PROVE  AlertInv'
<1> USE AlertConstants DEF AlertInv
<1>1. AlertRules' /\ AlertClock' /\ AuditRing' /\ CountBehindStreak'
  BY DEF Alerts!Registry, AlertRules, AlertClock, AuditRing, CountBehindStreak,
         Alerts!CountBehindStreak
<1>2. CASE Alerts!MetricRegister(name)
  <2>1. <<[name |-> name, value |-> 0]>> \in Seq(Entry)
    BY DEF Entry
  <2> QED BY <1>1, <1>2, <2>1, ConcatProperties DEF Alerts!MetricRegister
<1>3. CASE Alerts!MetricUpdate(name)
  <2>1. PICK v \in 0..MaxValue :
          metrics' = [metrics EXCEPT ![Alerts!First(name)].value = v]
    BY <1>3 DEF Alerts!MetricUpdate
  <2>2. Alerts!First(name) \in 1..Len(metrics)
    BY <1>3, FirstEntry DEF Alerts!MetricUpdate
  <2>3. PICK i \in 1..Len(metrics) : i = Alerts!First(name)
    BY <2>2
  <2>4. metrics[i] \in Entry
    OBVIOUS
  <2>5. [metrics[i] EXCEPT !.value = v] \in Entry
    BY <2>4 DEF Entry
  <2>6. metrics' = [metrics EXCEPT ![i] = [metrics[i] EXCEPT !.value = v]]
    BY <2>1, <2>3
  <2> QED BY <1>1, <2>5, <2>6, ExceptSeq
<1>4. CASE Alerts!MetricUnregister(name)
  <2> DEFINE i == Alerts!First(name)
  <2>1. i \in 1..Len(metrics) /\ Len(metrics) \in Nat
    BY <1>4, FirstEntry DEF Alerts!MetricUnregister
  <2>2. metrics' = SubSeq(metrics, 1, i - 1) \o SubSeq(metrics, i + 1, Len(metrics))
    BY <1>4 DEF Alerts!MetricUnregister
  <2> HIDE DEF i
  <2>3. \A j \in 1..Len(metrics) : metrics[j] \in Entry
    OBVIOUS
  <2>4. SubSeq(metrics, 1, i - 1) \in Seq(Entry)
    BY <2>1, <2>3, SubSeqProperties
  <2>5. SubSeq(metrics, i + 1, Len(metrics)) \in Seq(Entry)
    BY <2>1, <2>3, SubSeqProperties
  <2> QED BY <1>1, <2>2, <2>4, <2>5, ConcatProperties
<1> QED BY <1>2, <1>3, <1>4 DEF Alerts!Registry

LEMMA RulesKeep ==
  ASSUME AlertInv, NEW r \in Rules, Alerts!RuleAdd(r) \/ Alerts!RuleRemove(r)
  PROVE  AlertInv'
<1> USE AlertConstants DEF AlertInv
<1>1. /\ metrics' = metrics /\ AuditRing' /\ AlertClock'
  BY DEF Alerts!RuleAdd, Alerts!RuleRemove, Alerts!alertRest, AuditRing, AlertClock
<1>2. AlertRules'
  <2> DEFINE fresh == Alerts!FreshRule
             added == [fresh EXCEPT !.listed = TRUE]
             Rule == [listed : BOOLEAN, count : Nat, last : Alerts!Now]
  <2>1. fresh \in Rule /\ added \in Rule
    <3>1. fresh = [listed |-> FALSE, count |-> 0, last |-> 0]
      BY DEF Alerts!FreshRule
    <3>2. 0 \in Alerts!Now
      BY DEF Alerts!Now
    <3>3. fresh \in Rule
      <4> HIDE DEF fresh
      <4> QED BY <3>1, <3>2
    <3> HIDE DEF fresh
    <3> QED BY <3>3
  <2>2. rules' = [rules EXCEPT ![r] = added] \/ rules' = [rules EXCEPT ![r] = fresh]
    BY DEF Alerts!RuleAdd, Alerts!RuleRemove
  <2>3. streak' = [streak EXCEPT ![r] = 0] \/ streak' = streak
    BY DEF Alerts!RuleAdd, Alerts!RuleRemove
  <2>4. streak' \in [Rules -> 0..Repeat]
    BY <2>3 DEF AlertRules
  <2>5. rules \in [Rules -> Rule]
    BY DEF AlertRules
  <2> HIDE DEF fresh, added, Rule
  <2>6. rules' \in [Rules -> Rule]
    BY <2>1, <2>2, <2>5
  <2> QED BY <2>4, <2>6 DEF AlertRules, Rule
<1>3. ASSUME NEW q \in Rules
      PROVE  rules'[q].count <= streak'[q] \/ streak'[q] = Repeat
  <2>1. rules[q].count <= streak[q] \/ streak[q] = Repeat
    BY DEF CountBehindStreak, Alerts!CountBehindStreak
  <2>2. streak[q] \in 0..Repeat
    BY DEF AlertRules
  <2>3. CASE q # r
    BY <2>1, <2>3 DEF Alerts!RuleAdd, Alerts!RuleRemove, AlertRules
  <2>4. CASE q = r
    <3>1. rules'[q].count = 0 /\ streak'[q] \in {0, streak[q]}
      BY <2>4 DEF Alerts!RuleAdd, Alerts!RuleRemove, AlertRules, Alerts!FreshRule
    <3> QED BY <2>2, <3>1
  <2> QED BY <2>3, <2>4
<1> QED BY <1>1, <1>2, <1>3 DEF CountBehindStreak, Alerts!CountBehindStreak

LEMMA ClockKeeps ==
  ASSUME AlertInv, Alerts!Tick \/ \E e \in Evaluators : Alerts!ReadClock(e)
  PROVE  AlertInv'
<1> USE AlertConstants DEF AlertInv
<1>1. /\ metrics' = metrics /\ AuditRing' /\ AlertRules' /\ CountBehindStreak'
  BY DEF Alerts!Tick, Alerts!ReadClock, Alerts!alertRest, AuditRing, AlertRules,
         CountBehindStreak, Alerts!CountBehindStreak
<1>2. CASE Alerts!Tick
  BY <1>1, <1>2 DEF Alerts!Tick, AlertClock, Alerts!Now
<1>3. ASSUME NEW e \in Evaluators, Alerts!ReadClock(e) PROVE AlertClock'
  <2> DEFINE T == Alerts!Now
             waiting == [waits |-> TRUE, now |-> ticks]
             E == [waits : BOOLEAN, now : T]
  <2>1. waiting \in E /\ ticks \in T /\ evaluator \in [Evaluators -> E]
    BY DEF AlertClock
  <2>2. evaluator' = [evaluator EXCEPT ![e] = waiting] /\ ticks' = ticks
    BY <1>3 DEF Alerts!ReadClock
  <2> HIDE DEF waiting, E, T
  <2>3. evaluator' \in [Evaluators -> E] /\ ticks' \in T
    BY <2>1, <2>2
  <2> QED BY <2>3 DEF AlertClock, E, T
<1> QED BY <1>1, <1>2, <1>3

LEMMA CountedRule ==
  ASSUME NEW B, NEW L, NEW rule \in [listed : B, count : Nat, last : L], NEW n \in Nat,
         NEW now \in L
  PROVE  /\ [rule EXCEPT !.count = n] \in [listed : B, count : Nat, last : L]
         /\ [rule EXCEPT !.count = n].count = n
         /\ [rule EXCEPT !.count = n, !.last = now] \in [listed : B, count : Nat, last : L]
         /\ [rule EXCEPT !.count = n, !.last = now].count = n
  OBVIOUS

(* A judgement counts one at most, and only where the streak grows.             *)
LEMMA JudgedBehind ==
  ASSUME AlertInv, NEW r \in Rules, Alerts!Registered(CpuUsage), NEW now \in Alerts!Now
  PROVE  LET rule == Alerts!Judged(rules[r], now) IN
         /\ rule \in [listed : BOOLEAN, count : Nat, last : Alerts!Now]
         /\ Alerts!Streak(r) \in 0..Repeat
         /\ rule.count <= Alerts!Streak(r) \/ Alerts!Streak(r) = Repeat
<1> USE AlertConstants DEF AlertInv
<1> DEFINE busy == metrics[Alerts!First(CpuUsage)].value
           rule == rules[r]
           Rule == [listed : BOOLEAN, count : Nat, last : Alerts!Now]
<1>1. busy \in 0..MaxValue
  <2>1. Alerts!First(CpuUsage) \in 1..Len(metrics)
    BY FirstEntry
  <2>2. metrics[Alerts!First(CpuUsage)] \in Entry
    BY <2>1
  <2> QED BY <2>2 DEF Entry
<1>2. rule \in Rule /\ streak[r] \in 0..Repeat
  BY DEF AlertRules
<1>3. rule.count <= streak[r] \/ streak[r] = Repeat
  BY DEF CountBehindStreak, Alerts!CountBehindStreak
<1>4. CASE busy > Busy
  <2>1. Alerts!Streak(r) = IF streak[r] < Repeat THEN streak[r] + 1 ELSE Repeat
    BY <1>1, <1>4 DEF Alerts!Streak
  <2> DEFINE n == rule.count + 1
  <2>2. Alerts!Judged(rule, now) \in {rule, [rule EXCEPT !.count = n, !.last = now],
                                      [rule EXCEPT !.count = n]}
    BY <1>4 DEF Alerts!Judged, Alerts!Counted
  <2>0. n \in Nat /\ rule.count \in Nat /\ n = rule.count + 1
    BY <1>2
  <2> DEFINE judged == Alerts!Judged(rule, now)
  <2> HIDE DEF rule, busy, n, judged
  <2>3. judged \in Rule /\ judged.count \in {rule.count, n}
    <3>1. judged \in {rule, [rule EXCEPT !.count = n, !.last = now],
                      [rule EXCEPT !.count = n]}
      BY <2>2 DEF judged
    <3>2. /\ [rule EXCEPT !.count = n] \in Rule
          /\ [rule EXCEPT !.count = n].count = n
          /\ [rule EXCEPT !.count = n, !.last = now] \in Rule
          /\ [rule EXCEPT !.count = n, !.last = now].count = n
      BY <1>2, <2>0, CountedRule
    <3> QED BY <1>2, <3>1, <3>2
  <2>4. /\ Alerts!Streak(r) \in 0..Repeat
        /\ rule.count + 1 <= Alerts!Streak(r) \/ Alerts!Streak(r) = Repeat
    BY <1>2, <1>3, <2>1
  <2>6. judged.count <= Alerts!Streak(r) \/ Alerts!Streak(r) = Repeat
    BY <2>0, <2>3, <2>4
  <2> QED BY <2>3, <2>4, <2>6 DEF rule, judged
<1>5. CASE ~(busy > Busy)
  <2>1. Alerts!Streak(r) = 0
    BY <1>1, <1>5 DEF Alerts!Streak
  <2>2. Alerts!Judged(rule, now) = [rule EXCEPT !.count = 0]
    BY <1>5 DEF Alerts!Judged
  <2> HIDE DEF rule, busy
  <2>3. Alerts!Judged(rule, now) \in Rule /\ Alerts!Judged(rule, now).count = 0
    BY <1>2, <2>2
  <2> QED BY <2>1, <2>3 DEF rule
<1> QED BY <1>4, <1>5

LEMMA EvaluateKeeps ==
  ASSUME AlertInv, NEW e \in Evaluators, Alerts!Evaluate(e)
  PROVE  AlertInv'
<1> USE AlertConstants DEF AlertInv
<1> DEFINE now == evaluator[e].now
           Rule == [listed : BOOLEAN, count : Nat, last : Alerts!Now]
<1>1. /\ metrics' = metrics /\ AuditRing'
  BY DEF Alerts!Evaluate, Alerts!alertRest, AuditRing
<1>2. AlertClock'
  BY DEF Alerts!Evaluate, AlertClock, Alerts!Now
<1>3. now \in Alerts!Now
  BY DEF AlertClock
<1>4. ASSUME NEW r \in Rules
      PROVE  /\ rules'[r] \in Rule /\ streak'[r] \in 0..Repeat
             /\ rules'[r].count <= streak'[r] \/ streak'[r] = Repeat
  <2>1. CASE rules[r].listed /\ Alerts!Registered(CpuUsage)
    <3>1. rules'[r] = Alerts!Judged(rules[r], now) /\ streak'[r] = Alerts!Streak(r)
      BY <2>1 DEF Alerts!Evaluate
    <3> HIDE DEF now
    <3> QED BY <1>3, <2>1, <3>1, JudgedBehind
  <2>2. CASE ~(rules[r].listed /\ Alerts!Registered(CpuUsage))
    <3>1. rules'[r] = rules[r] /\ streak'[r] = streak[r]
      BY <2>2 DEF Alerts!Evaluate
    <3> QED BY <3>1 DEF AlertRules, CountBehindStreak, Alerts!CountBehindStreak
  <2> QED BY <2>1, <2>2
<1>5. AlertRules'
  <2>1. \E f, g : rules' = [r \in Rules |-> f[r]] /\ streak' = [r \in Rules |-> g[r]]
    <3>1. rules' = [r \in Rules |-> rules'[r]] /\ streak' = [r \in Rules |-> streak'[r]]
      BY DEF Alerts!Evaluate
    <3> QED BY <3>1
  <2> HIDE DEF Rule
  <2>2. rules' \in [Rules -> Rule] /\ streak' \in [Rules -> 0..Repeat]
    BY <1>4, <2>1
  <2> QED BY <2>2 DEF AlertRules, Rule
<1> QED BY <1>1, <1>2, <1>4, <1>5 DEF CountBehindStreak, Alerts!CountBehindStreak

LEMMA AuditKeeps ==
  ASSUME AlertInv, NEW detailed \in BOOLEAN, Alerts!Audit(detailed)
  PROVE  AlertInv'
<1> USE AlertConstants DEF AlertInv
<1>1. /\ metrics' = metrics /\ AlertRules' /\ AlertClock' /\ CountBehindStreak'
  BY DEF Alerts!Audit, AlertRules, AlertClock, CountBehindStreak, Alerts!CountBehindStreak
<1>2. AuditRing'
  <2> DEFINE i == audited % AuditSize
             slot == [event |-> audited + 1,
                      details |-> IF detailed THEN audited + 1 ELSE audit[i].details]
  <2>1. i \in 0..AuditSize - 1 /\ audited + 1 \in 0..MaxAudits
    BY DEF AuditRing, Alerts!Audit
  <2>2. slot \in [event : 0..MaxAudits, details : 0..MaxAudits]
    BY <2>1 DEF AuditRing
  <2>3. audit' = [audit EXCEPT ![i] = slot] /\ audited' = audited + 1
    BY DEF Alerts!Audit
  <2> HIDE DEF i, slot
  <2> QED BY <2>1, <2>2, <2>3 DEF AuditRing
<1> QED BY <1>1, <1>2

LEMMA AlertNext == AlertInv /\ [Alerts!Next]_(Alerts!metricsVars) => AlertInv'
<1> SUFFICES ASSUME AlertInv, [Alerts!Next]_(Alerts!metricsVars) PROVE AlertInv'
  OBVIOUS
<1>1. CASE UNCHANGED Alerts!metricsVars
  BY <1>1 DEF Alerts!metricsVars, AlertInv, AlertRules, AlertClock, AuditRing,
              CountBehindStreak, Alerts!CountBehindStreak
<1> QED BY <1>1, RegistryKeeps, RulesKeep, ClockKeeps, EvaluateKeeps, AuditKeeps
        DEF Alerts!Next

LEMMA AlertsKept == Spec => []AlertInv
  BY AlertInit, AlertNext, PartsFollowTheirSpecs, PTL DEF Alerts!Spec

(* Property CountBehindStreak: however evaluations, cooldowns and rules that    *)
(* come and go are ordered, and although an evaluation compares a clock it read *)
(* before the lock, alert_evaluate() counts no more hot evaluations of a rule   *)
(* than there have been since the last cool one.                                *)
THEOREM StreakTheorem == Spec => []CountBehindStreak
<1>1. AlertInv => CountBehindStreak
  BY DEF AlertInv
<1> QED BY <1>1, AlertsKept, PTL

(* The types of KaiMetrics.                                                     *)
THEOREM AlertTypes == Spec => []Alerts!TypeOK
<1>1. AlertInv => Alerts!TypeOK
  BY DEF AlertInv, AlertRules, AlertClock, AuditRing, Alerts!TypeOK, Entry
<1> QED BY <1>1, AlertsKept, PTL

---------------------------------------------------------------------------
(* Degradation: the memory protection with any number of checkers, and the      *)
(* types of what belongs to a request                                           *)

CheckerOK == checker \in [Checkers -> [place : {"idle", "sampled", "found", "notify"},
                                       level : Degrade!Levels, old : Degrade!Levels]]

MemoryOK ==
  /\ percent \in Percents /\ pressure \in Degrade!Levels /\ told \in Degrade!Levels
  /\ overlap \in BOOLEAN
  /\ \A c \in Checkers : checker[c].place = "idle" => checker[c] = Degrade!CheckIdle

(* As long as checks follow each other, at most one is under way, and what it   *)
(* still has to write is what keeps told and pressure apart.                    *)
OneCheck ==
  ~overlap => \A c, d \in Checkers :
                checker[c].place # "idle" /\ checker[d].place # "idle" => c = d

CheckerKnows(c) ==
  CASE checker[c].place = "sampled" -> told = pressure
    [] checker[c].place = "found" -> told = pressure /\ checker[c].old = pressure
    [] checker[c].place = "notify" -> checker[c].level = pressure
    [] OTHER -> TRUE

MemoryInv ==
  CheckerOK /\ MemoryOK /\ OneCheck /\ (~overlap => \A c \in Checkers : CheckerKnows(c))
    /\ ToldAgrees

LEMMA CheckerFields ==
  ASSUME CheckerOK, NEW c \in Checkers
  PROVE  /\ checker[c].place \in {"idle", "sampled", "found", "notify"}
         /\ checker[c].level \in Degrade!Levels /\ checker[c].old \in Degrade!Levels
         /\ checker[c] = Degrade!CheckIdle => checker[c].place = "idle"
  BY DEF CheckerOK, Degrade!CheckIdle

LEMMA MemoryInit == Init => MemoryInv
<1> SUFFICES ASSUME Init PROVE MemoryInv
  OBVIOUS
<1>1. Degrade!Init
  BY DEF Init
<1>2. CheckerOK
  BY <1>1 DEF Degrade!Init, CheckerOK, Degrade!CheckIdle, Degrade!Levels
<1>3. /\ \A c \in Checkers : checker[c] = Degrade!CheckIdle /\ checker[c].place = "idle"
      /\ told = pressure /\ pressure = 0 /\ overlap = FALSE /\ percent \in Percents
  BY <1>1 DEF Degrade!Init, Degrade!CheckIdle
<1>4. ToldAgrees
  BY <1>3 DEF ToldAgrees, Degrade!ToldAgrees
<1>5. MemoryOK
  <2>1. pressure \in Degrade!Levels /\ told \in Degrade!Levels
    BY <1>3 DEF Degrade!Levels
  <2>2. overlap \in BOOLEAN
    BY <1>3, Zenon
  <2> QED BY <1>3, <2>1, <2>2, Zenon DEF MemoryOK
<1>6. OneCheck /\ \A c \in Checkers : CheckerKnows(c)
  BY <1>3 DEF OneCheck, CheckerKnows
<1> QED BY <1>2, <1>4, <1>5, <1>6 DEF MemoryInv

LEMMA LevelInRange ==
  ASSUME percent \in Percents
  PROVE  Degrade!PressureLevel \in Degrade!Levels
<1>1. percent \in 0..100
  BY ServicesAssumption DEF Degrade!DegradationAssumption
<1> QED BY <1>1 DEF Degrade!PressureLevel, Degrade!Levels

(* What a step of a check does to the checkers: one of them gets a new record.  *)
LEMMA CheckerMoves ==
  ASSUME MemoryInv, NEW c \in Checkers, NEW r,
         r \in [place : {"idle", "sampled", "found", "notify"},
                level : Degrade!Levels, old : Degrade!Levels],
         r.place = "idle" => r = Degrade!CheckIdle,
         checker' = [checker EXCEPT ![c] = r]
  PROVE  /\ CheckerOK' /\ checker'[c] = r
         /\ \A d \in Checkers : d # c => checker'[d] = checker[d]
         /\ \A d \in Checkers : checker'[d].place = "idle" => checker'[d] = Degrade!CheckIdle
<1>1. checker'[c] = r /\ \A d \in Checkers : d # c => checker'[d] = checker[d]
  BY DEF MemoryInv, CheckerOK
<1>2. CheckerOK'
  BY DEF MemoryInv, CheckerOK
<1> QED BY <1>1, <1>2 DEF MemoryInv, MemoryOK

LEMMA SampleKeeps ==
  ASSUME MemoryInv, NEW c \in Checkers, Degrade!Sample(c)
  PROVE  MemoryInv'
<1> DEFINE r == [place |-> "sampled", level |-> Degrade!PressureLevel, old |-> 0]
<1>1. /\ checker' = [checker EXCEPT ![c] = r] /\ checker[c].place = "idle"
      /\ percent' = percent /\ pressure' = pressure /\ told' = told
      /\ overlap' = (overlap \/ \E d \in Checkers : checker[d] # Degrade!CheckIdle)
  BY DEF Degrade!Sample
<1>2. /\ r \in [place : {"idle", "sampled", "found", "notify"},
                level : Degrade!Levels, old : Degrade!Levels]
      /\ r.place = "sampled"
  BY LevelInRange DEF MemoryInv, MemoryOK, Degrade!Levels
<1> HIDE DEF r
<1>3. /\ CheckerOK' /\ checker'[c] = r
      /\ \A d \in Checkers : d # c => checker'[d] = checker[d]
      /\ \A d \in Checkers : checker'[d].place = "idle" => checker'[d] = Degrade!CheckIdle
  BY <1>1, <1>2, CheckerMoves
<1>4. MemoryOK'
  BY <1>1, <1>3 DEF MemoryInv, MemoryOK
<1>5. ASSUME ~overlap'
      PROVE  /\ told = pressure
             /\ \A d \in Checkers : d # c => checker'[d].place = "idle"
  <2>1. ~overlap /\ \A d \in Checkers : checker[d] = Degrade!CheckIdle
    BY <1>1, <1>5
  <2>2. told = pressure
    BY <2>1 DEF MemoryInv, ToldAgrees, Degrade!ToldAgrees
  <2> QED BY <1>3, <2>1, <2>2 DEF Degrade!CheckIdle
<1>6. OneCheck'
  BY <1>5 DEF OneCheck
<1>7. ~overlap' => \A d \in Checkers : CheckerKnows(d)'
  BY <1>1, <1>2, <1>3, <1>5 DEF CheckerKnows
<1>8. ToldAgrees'
  BY <1>1, <1>5 DEF ToldAgrees, Degrade!ToldAgrees
<1> QED BY <1>3, <1>4, <1>6, <1>7, <1>8 DEF MemoryInv

LEMMA ReadOldKeeps ==
  ASSUME MemoryInv, NEW c \in Checkers, Degrade!ReadOld(c)
  PROVE  MemoryInv'
<1> DEFINE r == [checker[c] EXCEPT !.place = "found", !.old = pressure]
<1>1. /\ checker' = [checker EXCEPT ![c] = r] /\ checker[c].place = "sampled"
      /\ percent' = percent /\ pressure' = pressure /\ told' = told /\ overlap' = overlap
  BY DEF Degrade!ReadOld, MemoryInv, CheckerOK
<1>2. /\ r \in [place : {"idle", "sampled", "found", "notify"},
                level : Degrade!Levels, old : Degrade!Levels]
      /\ r.place = "found" /\ r.old = pressure
  <2>1. checker[c] \in [place : {"idle", "sampled", "found", "notify"},
                        level : Degrade!Levels, old : Degrade!Levels]
    BY DEF MemoryInv, CheckerOK
  <2>2. pressure \in Degrade!Levels
    BY DEF MemoryInv, MemoryOK
  <2> QED BY <2>1, <2>2
<1> HIDE DEF r
<1>3. /\ CheckerOK' /\ checker'[c] = r
      /\ \A d \in Checkers : d # c => checker'[d] = checker[d]
      /\ \A d \in Checkers : checker'[d].place = "idle" => checker'[d] = Degrade!CheckIdle
  BY <1>1, <1>2, CheckerMoves
<1>4. MemoryOK'
  BY <1>1, <1>3 DEF MemoryInv, MemoryOK
<1>5. OneCheck'
  BY <1>1, <1>2, <1>3 DEF MemoryInv, OneCheck
<1>6. ASSUME ~overlap' PROVE told = pressure
  <2>1. CheckerKnows(c)
    BY <1>1, <1>6 DEF MemoryInv
  <2> QED BY <1>1, <2>1 DEF CheckerKnows
<1>7. ASSUME ~overlap', NEW d \in Checkers PROVE CheckerKnows(d)'
  <2>1. CASE d = c
    BY <1>1, <1>2, <1>3, <1>6, <1>7, <2>1 DEF CheckerKnows
  <2>2. CASE d # c
    BY <1>1, <1>3, <1>7, <2>2 DEF CheckerKnows, MemoryInv
  <2> QED BY <2>1, <2>2
<1>8. ToldAgrees'
  BY <1>1, <1>6 DEF ToldAgrees, Degrade!ToldAgrees
<1> QED BY <1>3, <1>4, <1>5, <1>7, <1>8 DEF MemoryInv

LEMMA RecordKeepsMemory ==
  ASSUME MemoryInv, NEW c \in Checkers, Degrade!Record(c)
  PROVE  MemoryInv'
<1> DEFINE changed == checker[c].level # checker[c].old
           r == IF changed THEN [checker[c] EXCEPT !.place = "notify"]
                           ELSE Degrade!CheckIdle
<1>1. /\ checker' = [checker EXCEPT ![c] = r] /\ checker[c].place = "found"
      /\ pressure' = checker[c].level
      /\ percent' = percent /\ told' = told /\ overlap' = overlap
  BY DEF Degrade!Record, Degrade!Changed, MemoryInv, CheckerOK
<1>2. /\ r \in [place : {"idle", "sampled", "found", "notify"},
                level : Degrade!Levels, old : Degrade!Levels]
      /\ r.place = "idle" => r = Degrade!CheckIdle
      /\ changed => r.place = "notify" /\ r.level = checker[c].level
      /\ ~changed => r = Degrade!CheckIdle
  <2>1. checker[c] \in [place : {"idle", "sampled", "found", "notify"},
                        level : Degrade!Levels, old : Degrade!Levels]
    BY DEF MemoryInv, CheckerOK
  <2> QED BY <2>1 DEF Degrade!CheckIdle, Degrade!Levels
<1>0. checker[c].level \in Degrade!Levels
  BY CheckerFields DEF MemoryInv
<1> HIDE DEF r
<1>3. /\ CheckerOK' /\ checker'[c] = r
      /\ \A d \in Checkers : d # c => checker'[d] = checker[d]
      /\ \A d \in Checkers : checker'[d].place = "idle" => checker'[d] = Degrade!CheckIdle
  BY <1>1, <1>2, CheckerMoves
<1>4. MemoryOK'
  BY <1>0, <1>1, <1>3 DEF MemoryInv, MemoryOK
<1>5. OneCheck'
  BY <1>1, <1>2, <1>3 DEF MemoryInv, OneCheck
<1>6. ASSUME ~overlap'
      PROVE  /\ told = pressure /\ checker[c].old = pressure
             /\ \A d \in Checkers : d # c => checker'[d].place = "idle"
  <2>1. CheckerKnows(c)
    BY <1>1, <1>6 DEF MemoryInv
  <2>2. \A d \in Checkers : d # c => checker[d].place = "idle"
    BY <1>1, <1>6 DEF MemoryInv, OneCheck
  <2> QED BY <1>1, <1>3, <2>1, <2>2 DEF CheckerKnows
<1>7. ASSUME ~overlap', NEW d \in Checkers PROVE CheckerKnows(d)'
  <2>1. CASE d = c
    BY <1>1, <1>2, <1>3, <2>1 DEF CheckerKnows, Degrade!CheckIdle
  <2>2. CASE d # c
    BY <1>6, <1>7, <2>2 DEF CheckerKnows
  <2> QED BY <2>1, <2>2
<1>8. ToldAgrees'
  BY <1>1, <1>2, <1>3, <1>6 DEF ToldAgrees, Degrade!ToldAgrees, Degrade!CheckIdle
<1> QED BY <1>3, <1>4, <1>5, <1>7, <1>8 DEF MemoryInv

LEMMA NotifyKeeps ==
  ASSUME MemoryInv, NEW c \in Checkers, Degrade!Notify(c)
  PROVE  MemoryInv'
<1>1. /\ checker' = [checker EXCEPT ![c] = Degrade!CheckIdle]
      /\ checker[c].place = "notify" /\ told' = checker[c].level
      /\ percent' = percent /\ pressure' = pressure /\ overlap' = overlap
  BY DEF Degrade!Notify
<1>2. Degrade!CheckIdle \in [place : {"idle", "sampled", "found", "notify"},
                             level : Degrade!Levels, old : Degrade!Levels]
  BY DEF Degrade!CheckIdle, Degrade!Levels
<1>3. /\ CheckerOK' /\ checker'[c] = Degrade!CheckIdle
      /\ \A d \in Checkers : d # c => checker'[d] = checker[d]
      /\ \A d \in Checkers : checker'[d].place = "idle" => checker'[d] = Degrade!CheckIdle
  BY <1>1, <1>2, CheckerMoves
<1>4. MemoryOK'
  BY <1>1, <1>3, CheckerFields DEF MemoryInv, MemoryOK
<1>5. ASSUME ~overlap'
      PROVE  told' = pressure' /\ \A d \in Checkers : checker'[d].place = "idle"
  <2>1. CheckerKnows(c)
    BY <1>1, <1>5 DEF MemoryInv
  <2>2. \A d \in Checkers : d # c => checker[d].place = "idle"
    BY <1>1, <1>5 DEF MemoryInv, OneCheck
  <2> QED BY <1>1, <1>3, <2>1, <2>2 DEF CheckerKnows, Degrade!CheckIdle
<1>6. /\ OneCheck' /\ ToldAgrees'
      /\ ~overlap' => \A d \in Checkers : CheckerKnows(d)'
  BY <1>5 DEF OneCheck, ToldAgrees, Degrade!ToldAgrees, CheckerKnows
<1> QED BY <1>3, <1>4, <1>6 DEF MemoryInv

LEMMA MemoryStep == MemoryInv /\ [Next]_vars => MemoryInv'
<1> SUFFICES ASSUME MemoryInv, [Next]_vars PROVE MemoryInv'
  OBVIOUS
<1>0. [Degrade!Memory]_(Degrade!memoryVars)
  BY EngineSteps
<1>1. CASE UNCHANGED Degrade!memoryVars
  BY <1>1 DEF Degrade!memoryVars, MemoryInv, CheckerOK, MemoryOK, OneCheck, CheckerKnows,
              ToldAgrees, Degrade!ToldAgrees
<1>2. ASSUME NEW p \in Percents, Degrade!UseMemory(p) PROVE MemoryInv'
  BY <1>2 DEF Degrade!UseMemory, MemoryInv, CheckerOK, MemoryOK, OneCheck, CheckerKnows,
              ToldAgrees, Degrade!ToldAgrees
<1> QED BY <1>0, <1>1, <1>2, SampleKeeps, ReadOldKeeps, RecordKeepsMemory, NotifyKeeps
        DEF Degrade!Memory

(* Property ToldAgrees: mem_protect_check() takes no lock between the sample,   *)
(* the level it finds and the notification; as long as checks do not overlap,   *)
(* the last on_pressure() told the level that is recorded.                      *)
THEOREM ToldTheorem == Spec => []ToldAgrees
<1>1. MemoryInv => ToldAgrees
  BY DEF MemoryInv
<1> QED BY <1>1, MemoryInit, MemoryStep, PTL DEF Spec

RequestInv ==
  /\ timer \in [start : 0..MaxMillis, length : Timeouts, expired : BOOLEAN]
  /\ millis \in 0..MaxMillis
  /\ chain \in [levels : Seq(Degrade!Fallbacks), current : 0..4]
  /\ Len(chain.levels) <= 4 /\ chain.current <= Len(chain.levels)
  /\ verdict \in [resources : Degrade!Admitted, score : {80, 90, 100}]

LEMMA RequestInit == Init => RequestInv
<1> SUFFICES ASSUME Init PROVE RequestInv
  OBVIOUS
<1>1. Degrade!Init
  BY DEF Init
<1>2. MaxMillis \in Nat /\ Timeouts # {}
  BY ServicesAssumption DEF Degrade!DegradationAssumption
<1>3. (CHOOSE t \in Timeouts : TRUE) \in Timeouts
  BY <1>2
<1> QED BY <1>1, <1>2, <1>3 DEF Degrade!Init, RequestInv, Degrade!Admitted

(* A chain that is tried is a sequence of levels.                               *)
LEMMA ChainsAreSequences ==
  ASSUME NEW s \in Degrade!Chains
  PROVE  s \in Seq(Degrade!Fallbacks)
<1>1. PICK n \in 1..4 : s \in [1..n -> Degrade!Fallbacks]
  BY DEF Degrade!Chains
<1>2. n \in Nat
  OBVIOUS
<1> QED BY <1>1, <1>2, FunctionIsSeq

LEMMA RequestStep == RequestInv /\ [Next]_vars => RequestInv'
<1> SUFFICES ASSUME RequestInv, [Next]_vars PROVE RequestInv'
  OBVIOUS
<1>0. [Degrade!Request]_(Degrade!requestVars)
  BY DEF Next, vars, requests, Degrade!requestVars
<1>c. MaxMillis \in Nat
  BY ServicesAssumption DEF Degrade!DegradationAssumption
<1>1. CASE UNCHANGED Degrade!requestVars
  BY <1>1 DEF Degrade!requestVars, RequestInv
<1>2. CASE Degrade!Passes
  BY <1>c, <1>2 DEF Degrade!Passes, RequestInv
<1>3. CASE Degrade!TimeoutExpired \/ Degrade!TimeoutCancel
  <2>1. PICK b \in BOOLEAN : timer' = [timer EXCEPT !.expired = b]
    <3>1. (timer.expired \/ Degrade!Up) \in BOOLEAN /\ TRUE \in BOOLEAN
      OBVIOUS
    <3> QED BY <1>3, <3>1 DEF Degrade!TimeoutExpired, Degrade!TimeoutCancel
  <2>2. millis' = millis /\ chain' = chain /\ verdict' = verdict
    BY <1>3 DEF Degrade!TimeoutExpired, Degrade!TimeoutCancel
  <2> QED BY <2>1, <2>2 DEF RequestInv
<1>4. CASE Degrade!FallbackNext \/ Degrade!FallbackReset
  <2>1. PICK n \in 0..4 : n <= Len(chain.levels) /\ chain' = [chain EXCEPT !.current = n]
    <3>1. chain.current \in 0..4 /\ Len(chain.levels) \in Nat /\ Len(chain.levels) <= 4
      BY DEF RequestInv
    <3>2. CASE Degrade!FallbackNext
      <4>1. /\ chain.current + 1 \in 0..4 /\ chain.current + 1 <= Len(chain.levels)
            /\ chain' = [chain EXCEPT !.current = chain.current + 1]
        BY <3>1, <3>2 DEF Degrade!FallbackNext
      <4> QED BY <4>1
    <3>3. CASE Degrade!FallbackReset
      <4>1. 0 <= Len(chain.levels) /\ chain' = [chain EXCEPT !.current = 0]
        BY <3>1, <3>3 DEF Degrade!FallbackReset
      <4> QED BY <4>1
    <3> QED BY <1>4, <3>2, <3>3
  <2>2. timer' = timer /\ millis' = millis /\ verdict' = verdict
    BY <1>4 DEF Degrade!FallbackNext, Degrade!FallbackReset
  <2>3. chain' \in [levels : Seq(Degrade!Fallbacks), current : 0..4]
        /\ chain'.levels = chain.levels /\ chain'.current = n
    BY <2>1 DEF RequestInv
  <2> QED BY <2>1, <2>2, <2>3 DEF RequestInv
<1>5. ASSUME NEW t \in Timeouts, Degrade!TimeoutStart(t) PROVE RequestInv'
  BY <1>5 DEF Degrade!TimeoutStart, RequestInv
<1>6. ASSUME NEW limit \in Degrade!Amounts(Limits), NEW load \in Degrade!Amounts(Loads),
             Degrade!ResourceCheck(limit, load)
      PROVE  RequestInv'
  <2>1. PICK a \in Degrade!Admitted : verdict' = [verdict EXCEPT !.resources = a]
    <3> DEFINE a == IF Degrade!Over(load.inferences, limit.inferences) THEN "again"
                    ELSE IF Degrade!Over(load.memory, limit.memory) THEN "nomem"
                    ELSE IF Degrade!Over(load.cpu, limit.cpu) THEN "busy" ELSE "ok"
    <3>1. a \in Degrade!Admitted
      BY DEF Degrade!Admitted
    <3>2. verdict' = [verdict EXCEPT !.resources = a]
      BY <1>6 DEF Degrade!ResourceCheck
    <3> HIDE DEF a
    <3> QED BY <3>1, <3>2
  <2> QED BY <1>6, <2>1 DEF Degrade!ResourceCheck, RequestInv
<1>7. ASSUME NEW p \in Percents, Degrade!HealthCheck(p) PROVE RequestInv'
  <2>1. PICK n \in {80, 90, 100} : verdict' = [verdict EXCEPT !.score = n]
    BY <1>7 DEF Degrade!HealthCheck
  <2> QED BY <1>7, <2>1 DEF Degrade!HealthCheck, RequestInv
<1>8. ASSUME NEW levels \in Degrade!Chains, Degrade!ChainInit(levels) PROVE RequestInv'
  <2>1. levels \in Seq(Degrade!Fallbacks) /\ Len(levels) \in Nat
    BY ChainsAreSequences
  <2> QED BY <1>8, <2>1 DEF Degrade!ChainInit, RequestInv
<1> QED BY <1>0, <1>1, <1>2, <1>3, <1>4, <1>5, <1>6, <1>7, <1>8 DEF Degrade!Request

(* The types of Degradation; the index of a fallback chain stays in the chain.  *)
THEOREM DegradationTypes == Spec => []Degrade!TypeOK
<1>1. MemoryInv /\ RequestInv => Degrade!TypeOK
  <2> SUFFICES ASSUME MemoryInv, RequestInv PROVE Degrade!TypeOK
    OBVIOUS
  <2>1. checker \in [Checkers -> [place : {"idle", "sampled", "found", "notify"},
                                  level : Degrade!Levels, old : Degrade!Levels]]
    BY DEF MemoryInv, CheckerOK
  <2>2. /\ chain.levels \in Seq(Degrade!Fallbacks) /\ Len(chain.levels) <= 4
        /\ chain.current \in 0..4 /\ chain.current <= Len(chain.levels)
    BY DEF RequestInv
  <2>3. /\ percent \in Percents /\ pressure \in Degrade!Levels /\ told \in Degrade!Levels
        /\ overlap \in BOOLEAN
    BY DEF MemoryInv, MemoryOK
  <2> QED BY <2>1, <2>2, <2>3 DEF RequestInv, Degrade!TypeOK
<1> QED BY <1>1, MemoryInit, MemoryStep, RequestInit, RequestStep, PTL DEF Spec

---------------------------------------------------------------------------
(* KaiSchedExt: the load figures, for any number of CPUs, tasks and profiles    *)

Load(f) == Sched!MapThenSumSet(LAMBDA c : f[c], Sched!Cpus)

SchedLoad ==
  /\ nr_running \in [Sched!Cpus -> 0..MaxDrift]
  /\ queued \subseteq Tasks /\ IsFiniteSet(queued)
  /\ missed \in Nat /\ Load(nr_running) = Cardinality(queued) + missed

SchedRest ==
  /\ profiles \subseteq Tasks
  /\ DOMAIN decisions \subseteq Utils
  /\ Sched!Range(decisions) \subseteq Sched!Decision
  /\ counter \in 0..SampleRate - 1
  /\ online \subseteq Sched!Cpus /\ online # {}
  /\ choice \in Sched!Cpus

LEMMA SchedConstants ==
  /\ NrCpus \in Nat /\ NrCpus # 0 /\ MaxProfiles \in Nat /\ MaxDrift \in Nat
  /\ SampleRate \in Nat /\ SampleRate # 0
  /\ IsFiniteSet(Sched!Cpus) /\ Sched!Cpus \subseteq Nat
<1>1. /\ NrCpus \in Nat /\ NrCpus # 0 /\ MaxProfiles \in Nat /\ MaxDrift \in Nat
      /\ SampleRate \in Nat /\ SampleRate # 0
  BY ServicesAssumption DEF Sched!SchedExtAssumption
<1>2. 0 \in Int /\ NrCpus - 1 \in Int
  BY <1>1
<1>3. IsFiniteSet(0..NrCpus - 1)
  BY <1>2, FS_Interval
<1> QED BY <1>1, <1>3 DEF Sched!Cpus

LEMMA SameQueueCount == ASSUME NEW S PROVE Sched!Cardinality(S) = Cardinality(S)
  BY DEF Sched!Cardinality, Cardinality, Sched!IsFiniteSet, IsFiniteSet

(* One CPU counts v instead.                                                    *)
LEMMA LoadIsSum ==
  ASSUME NEW f \in [Sched!Cpus -> Int]
  PROVE  \E g : IsSum(g, f, Sched!Cpus) /\ Load(f) = g[Sched!Cpus]
<1> DEFINE S == Sched!Cpus
<1>1. Load(f) = Sums(f, S)[S]
  BY DEF Load, Sums, Sched!MapThenSumSet, Sched!MapThenFoldSet
<1>2. IsSum(Sums(f, S), f, S)
  <2>1. IsFiniteSet(S) /\ f \in [S -> Int]
    BY SchedConstants
  <2> HIDE DEF S
  <2> QED BY <2>1, SumsSum
<1> QED BY <1>1, <1>2

LEMMA LoadChanges ==
  ASSUME NEW f \in [Sched!Cpus -> Int], NEW x \in Sched!Cpus, NEW v \in Int,
         NEW h, Changes(h, f, x, v)
  PROVE  Load(f) \in Int /\ Load(h) \in Int /\ Load(h) + f[x] = Load(f) + v
<1> DEFINE S == Sched!Cpus
<1>1. IsFiniteSet(S) /\ h \in [S -> Int] /\ f \in [S -> Int] /\ x \in S
  BY SchedConstants DEF Changes
<1>2. PICK g : IsSum(g, f, S) /\ Load(f) = g[S]
  BY <1>1, LoadIsSum
<1>3. PICK k : IsSum(k, h, S) /\ Load(h) = k[S]
  BY <1>1, LoadIsSum
<1> HIDE DEF S
<1>4. k[S] \in Int /\ g[S] \in Int /\ k[S] + f[x] = g[S] + v
  BY <1>1, <1>2, <1>3, SumOfChange
<1> QED BY <1>2, <1>3, <1>4

LEMMA NoLoadIsZero == Load([c \in Sched!Cpus |-> 0]) = 0
<1> DEFINE S == Sched!Cpus
           f == [c \in S |-> 0]
<1>1. PICK g : IsSum(g, f, S) /\ Load(f) = g[S]
  <2>1. f \in [Sched!Cpus -> Int]
    OBVIOUS
  <2> HIDE DEF f
  <2> QED BY <2>1, LoadIsSum
<1>2. IsFiniteSet(S)
  BY SchedConstants
<1> HIDE DEF S
<1> DEFINE T == {s \in SUBSET S : g[s] = 0}
<1>3. ASSUME NEW U \in SUBSET S, \A V \in SUBSET U : V # U => V \in T PROVE U \in T
  <2>1. CASE U = {}
    BY <1>1, <2>1 DEF IsSum
  <2>2. CASE U # {}
    <3> DEFINE e == CHOOSE x \in U : TRUE
    <3>1. e \in U
      BY <2>2
    <3>2. g[U] = f[e] + g[U \ {e}]
      BY <1>1, <2>2 DEF IsSum
    <3>3. U \ {e} \in T /\ f[e] = 0
      BY <1>3, <3>1
    <3> HIDE DEF e
    <3> QED BY <3>2, <3>3
  <2> QED BY <2>1, <2>2
<1> HIDE DEF T
<1>4. SUBSET S \subseteq T
  BY <1>2, <1>3, SubsetInduction
<1>5. g[S] = 0
  BY <1>4 DEF T
<1> QED BY <1>1, <1>5 DEF S, f

LEMMA SchedLoadInit == Sched!Init => SchedLoad
<1> SUFFICES ASSUME Sched!Init PROVE SchedLoad
  OBVIOUS
<1>1. nr_running = [c \in Sched!Cpus |-> 0] /\ queued = {}
  BY DEF Sched!Init
<1>2. nr_running \in [Sched!Cpus -> 0..MaxDrift]
  BY <1>1, SchedConstants
<1>3. IsFiniteSet(queued) /\ Cardinality(queued) = 0
  BY <1>1, FS_EmptySet
<1>4. Load(nr_running) = 0
  BY <1>1, NoLoadIsZero
<1>5. missed \in Nat /\ Load(nr_running) = Cardinality(queued) + missed
  BY <1>3, <1>4 DEF Sched!Init
<1> QED BY <1>1, <1>2, <1>3, <1>5 DEF SchedLoad

LEMMA LoadBound ==
  ASSUME SchedLoad
  PROVE  /\ nr_running \in [Sched!Cpus -> Int]
         /\ Load(nr_running) = Cardinality(queued) + missed
         /\ Cardinality(queued) \in Nat /\ missed \in Nat
<1>1. nr_running \in [Sched!Cpus -> Int]
  BY SchedConstants DEF SchedLoad
<1> QED BY <1>1, FS_CardinalityType DEF SchedLoad

LEMMA EnqueueKeeps ==
  ASSUME SchedLoad, NEW t \in Tasks, NEW cpu \in Sched!Cpus, Sched!Enqueue(t, cpu)
  PROVE  SchedLoad'
<1>1. /\ nr_running[cpu] \in 0..MaxDrift /\ nr_running[cpu] < MaxDrift /\ MaxDrift \in Nat
      /\ t \notin queued /\ queued' = queued \cup {t}
      /\ nr_running' = [nr_running EXCEPT ![cpu] = nr_running[cpu] + 1] /\ missed' = missed
  BY SchedConstants DEF SchedLoad, Sched!Enqueue
<1>2. PICK v \in 0..MaxDrift : v = nr_running[cpu] + 1
  BY <1>1
<1>3. Changes(nr_running', nr_running, cpu, v)
  BY <1>1, <1>2 DEF Changes
<1>4. nr_running' \in [Sched!Cpus -> 0..MaxDrift]
  BY <1>3 DEF SchedLoad, Changes
<1>5. IsFiniteSet(queued') /\ Cardinality(queued') = Cardinality(queued) + 1
  BY <1>1, FS_AddElement DEF SchedLoad
<1>6. /\ Load(nr_running) \in Int /\ Load(nr_running') \in Int
      /\ Load(nr_running') + nr_running[cpu] = Load(nr_running) + v
  BY <1>2, <1>3, LoadBound, LoadChanges
<1>7. missed' \in Nat /\ Load(nr_running') = Cardinality(queued') + missed'
  BY <1>1, <1>2, <1>5, <1>6, LoadBound
<1>8. queued' \subseteq Tasks
  BY <1>1 DEF SchedLoad
<1> QED BY <1>4, <1>5, <1>7, <1>8 DEF SchedLoad

(* The CPU that dequeues a task may count none: then one more has been missed.  *)
LEMMA DequeueKeeps ==
  ASSUME SchedLoad, NEW t \in Tasks, NEW cpu \in Sched!Cpus, Sched!Dequeue(t, cpu)
  PROVE  SchedLoad'
<1>1. /\ nr_running[cpu] \in 0..MaxDrift /\ MaxDrift \in Nat
      /\ t \in queued /\ queued' = queued \ {t}
      /\ nr_running' = [nr_running EXCEPT ![cpu] = Sched!Lowered(nr_running[cpu])]
      /\ missed' = IF nr_running[cpu] = 0 THEN missed + 1 ELSE missed
  BY SchedConstants DEF SchedLoad, Sched!Dequeue
<1>2. PICK v \in 0..MaxDrift : v = Sched!Lowered(nr_running[cpu])
                         /\ v = IF nr_running[cpu] = 0 THEN 0 ELSE nr_running[cpu] - 1
  BY <1>1 DEF Sched!Lowered
<1>3. Changes(nr_running', nr_running, cpu, v)
  BY <1>1, <1>2 DEF Changes
<1>4. nr_running' \in [Sched!Cpus -> 0..MaxDrift]
  BY <1>3 DEF SchedLoad, Changes
<1>5. IsFiniteSet(queued') /\ Cardinality(queued') = Cardinality(queued) - 1
  BY <1>1, FS_RemoveElement DEF SchedLoad
<1>6. /\ Load(nr_running) \in Int /\ Load(nr_running') \in Int
      /\ Load(nr_running') + nr_running[cpu] = Load(nr_running) + v
  BY <1>2, <1>3, LoadBound, LoadChanges
<1>7. missed' \in Nat /\ Load(nr_running') = Cardinality(queued') + missed'
  <2>1. Load(nr_running) = Cardinality(queued) + missed /\ Cardinality(queued) \in Nat
        /\ missed \in Nat
    BY LoadBound
  <2>2. CASE nr_running[cpu] = 0
    <3>1. v = 0 /\ missed' = missed + 1
      BY <1>1, <1>2, <2>2
    <3> QED BY <1>5, <1>6, <2>1, <2>2, <3>1
  <2>3. CASE nr_running[cpu] # 0
    <3>1. v = nr_running[cpu] - 1 /\ missed' = missed
      BY <1>1, <1>2, <2>3
    <3> QED BY <1>1, <1>5, <1>6, <2>1, <3>1
  <2> QED BY <2>2, <2>3
<1>8. queued' \subseteq Tasks
  BY <1>1 DEF SchedLoad
<1> QED BY <1>4, <1>5, <1>7, <1>8 DEF SchedLoad

LEMMA TargetExists ==
  ASSUME NEW decision, NEW wake \in Sched!Cpus
  PROVE  Sched!Target(decision, wake) \in Sched!Cpus
<1>1. (wake + 1) % NrCpus \in Sched!Cpus
  <2>1. wake \in Nat /\ NrCpus \in Nat /\ NrCpus # 0
    BY SchedConstants
  <2> QED BY <2>1 DEF Sched!Cpus
<1> QED BY <1>1 DEF Sched!Target, Sched!ChooseCpu

LEMMA SchedRestInit == Sched!Init => SchedRest
<1> SUFFICES ASSUME Sched!Init PROVE SchedRest
  OBVIOUS
<1>1. 0 \in Sched!Cpus /\ 0 \in 0..SampleRate - 1
  BY SchedConstants DEF Sched!Cpus
<1>2. DOMAIN decisions = {} /\ Sched!Range(decisions) = {}
  BY DEF Sched!Init, Sched!Range
<1> QED BY <1>1, <1>2 DEF Sched!Init, SchedRest

LEMMA SelectKeepsRest ==
  ASSUME SchedLoad, SchedRest, NEW t \in Tasks, NEW cpu \in Sched!Cpus,
         Sched!SelectSkipped(cpu) \/ Sched!SelectUnknown(t, cpu)
           \/ \E f \in Sched!Features : Sched!SelectCpu(t, cpu, f)
  PROVE  SchedRest'
<1>1. counter' \in 0..SampleRate - 1
  <2>1. counter' = (counter + 1) % SampleRate
    BY Zenon DEF Sched!SelectSkipped, Sched!SelectUnknown, Sched!SelectCpu
  <2>2. counter \in Nat /\ SampleRate \in Nat /\ SampleRate # 0
    BY SchedConstants DEF SchedRest
  <2> QED BY <2>1, <2>2
<1>2. CASE Sched!SelectSkipped(cpu) \/ Sched!SelectUnknown(t, cpu)
  <2>1. /\ choice' = cpu /\ profiles' = profiles /\ decisions' = decisions
        /\ online' = online
    BY <1>2 DEF Sched!SelectSkipped, Sched!SelectUnknown
  <2> QED BY <1>1, <2>1 DEF SchedRest
<1>3. ASSUME NEW f \in Sched!Features, Sched!SelectCpu(t, cpu, f) PROVE SchedRest'
  <2>1. choice' \in Sched!Cpus
    BY <1>3, TargetExists DEF Sched!SelectCpu
  <2>2. profiles' \subseteq Tasks /\ online' = online
    BY <1>3 DEF Sched!SelectCpu, SchedRest
  <2>3. DOMAIN decisions' \subseteq Utils /\ Sched!Range(decisions') \subseteq Sched!Decision
    <3>1. CASE decisions' = decisions
      BY <3>1 DEF SchedRest
    <3>2. CASE decisions' = [h \in DOMAIN decisions \cup {Sched!Hash(f)} |->
                 IF h = Sched!Hash(f) THEN Sched!DecisionOf(f) ELSE decisions[h]]
      <4>1. Sched!Hash(f) \in Utils
        BY DEF Sched!Features, Sched!Hash
      <4>2. Sched!DecisionOf(f) \in Sched!Decision
        BY DEF Sched!DecisionOf, Sched!Decision
      <4>3. DOMAIN decisions' = DOMAIN decisions \cup {Sched!Hash(f)}
        BY <3>2
      <4>4. ASSUME NEW h \in DOMAIN decisions' PROVE decisions'[h] \in Sched!Decision
        <5>1. h \in DOMAIN decisions => decisions[h] \in Sched!Decision
          BY DEF SchedRest, Sched!Range
        <5> QED BY <3>2, <4>2, <4>3, <5>1
      <4> QED BY <4>1, <4>3, <4>4 DEF SchedRest, Sched!Range
    <3> QED BY <1>3, <3>1, <3>2 DEF Sched!SelectCpu
  <2> QED BY <1>1, <2>1, <2>2, <2>3 DEF SchedRest
<1> QED BY <1>2, <1>3

LEMMA SchedNext ==
  SchedLoad /\ SchedRest /\ [Sched!Next]_(Sched!schedVars) => SchedLoad' /\ SchedRest'
<1> SUFFICES ASSUME SchedLoad, SchedRest, [Sched!Next]_(Sched!schedVars)
             PROVE  SchedLoad' /\ SchedRest'
  OBVIOUS
<1>1. CASE UNCHANGED Sched!schedVars
  BY <1>1 DEF Sched!schedVars, SchedLoad, SchedRest
<1>2. ASSUME NEW cpu \in Sched!Cpus, Sched!Hotplug(cpu) PROVE SchedLoad' /\ SchedRest'
  <2>1. SchedLoad'
    BY <1>2 DEF Sched!Hotplug, SchedLoad
  <2>2. online' \subseteq Sched!Cpus /\ online' # {}
    BY <1>2 DEF Sched!Hotplug, SchedRest
  <2> QED BY <1>2, <2>1, <2>2 DEF Sched!Hotplug, SchedRest
<1>3. ASSUME NEW t \in Tasks, NEW cpu \in online,
             Sched!Enqueue(t, cpu) \/ Sched!Dequeue(t, cpu)
      PROVE  SchedLoad' /\ SchedRest'
  <2>1. PICK c \in Sched!Cpus : c = cpu
    BY DEF SchedRest
  <2>2. Sched!Enqueue(t, c) \/ Sched!Dequeue(t, c)
    BY <1>3, <2>1
  <2>3. SchedLoad'
    BY <2>2, EnqueueKeeps, DequeueKeeps
  <2>4. SchedRest'
    BY <2>2 DEF Sched!Enqueue, Sched!Dequeue, SchedRest
  <2> QED BY <2>3, <2>4
<1>4. ASSUME NEW t \in Tasks, NEW cpu \in Sched!Cpus,
             Sched!SelectSkipped(cpu) \/ Sched!SelectUnknown(t, cpu)
               \/ \E f \in Sched!Features : Sched!SelectCpu(t, cpu, f)
      PROVE  SchedLoad' /\ SchedRest'
  <2>1. SchedLoad'
    BY <1>4 DEF Sched!SelectSkipped, Sched!SelectUnknown, Sched!SelectCpu, SchedLoad
  <2> QED BY <1>4, <2>1, SelectKeepsRest
<1> QED BY <1>1, <1>2, <1>3, <1>4 DEF Sched!Next

LEMMA SchedKept == Spec => [](SchedLoad /\ SchedRest)
  BY SchedLoadInit, SchedRestInit, SchedNext, PartsFollowTheirSpecs, PTL DEF Sched!Spec

(* Property LoadAccounted of KaiSchedExt, part of AdviceSound: tasks are counted *)
(* on the CPU that enqueues them and discounted on the one that dequeues them;  *)
(* the counts of all CPUs together exceed the number of queued tasks by exactly *)
(* the number of dequeues on a CPU that counted none.                           *)
THEOREM LoadTheorem == Spec => []Sched!LoadAccounted
<1>1. SchedLoad => Sched!LoadAccounted
  BY SameQueueCount DEF SchedLoad, Load, Sched!LoadAccounted
<1> QED BY <1>1, SchedKept, PTL

(* The types of KaiSchedExt: whatever CPUs come and go, and whatever decision   *)
(* is cached, a waking task is sent to a CPU there is.                          *)
THEOREM SchedTypes == Spec => []Sched!TypeOK
<1>1. SchedLoad /\ SchedRest => Sched!TypeOK
  BY DEF SchedLoad, SchedRest, Sched!TypeOK
<1> QED BY <1>1, SchedKept, PTL

---------------------------------------------------------------------------
(* GatewayClient: the options, whichever there are and in whatever order        *)

Config ==
  [backend : Client!Backends, model : Client!TriedModels \cup {"deepseek-chat", "moonshot-v1-8k"},
   mode : {"sync", "async", "override"}, key : BOOLEAN,
   threshold : [Client!Domains -> {40, 70, 80}]]

LEMMA AppliedKeeps ==
  ASSUME NEW c \in Config, NEW option \in Client!Options
  PROVE  Client!Applied(c, option) \in Config
<1> USE DEF Config, Client!Applied, Client!Options
<1>1. CASE option \in [name : {"backend"}, value : Client!Backends]
  <2>1. Client!DefaultModel[option.value] \in {"deepseek-chat", "moonshot-v1-8k"}
    BY <1>1 DEF Client!DefaultModel, Client!Backends
  <2>2. option.name = "backend" /\ option.value \in Client!Backends
    BY <1>1
  <2> QED BY <2>1, <2>2
<1>2. CASE option \in [name : {"model"}, value : Client!TriedModels]
  BY <1>2
<1>3. CASE option \in [name : {"mode"}, value : {"sync", "async", "override"}]
  BY <1>3
<1>4. CASE option \in [name : {"threshold"}, value : Client!Domains]
  <2> DEFINE t == [c.threshold EXCEPT ![option.value] = 40]
  <2>1. t \in [Client!Domains -> {40, 70, 80}]
    BY <1>4
  <2>2. Client!Applied(c, option) = [c EXCEPT !.threshold = t]
    BY <1>4 DEF Client!TriedThreshold
  <2> HIDE DEF t
  <2>3. [c EXCEPT !.threshold = t] \in Config
    BY <2>1
  <2> QED BY <2>2, <2>3
<1>5. CASE option \in [name : {"key"}, value : {"given"}]
  BY <1>5
<1> QED BY <1>1, <1>2, <1>3, <1>4, <1>5

(* The function by which FoldLeft applies the options, from the defaults on.    *)
AppliedTo(options) ==
  CHOOSE g : g = [s \in SUBSET DOMAIN options |->
    IF s = {} THEN Client!Defaults
    ELSE Client!Applied(g[s \ {Greatest(s)}], options[Greatest(s)])]

LEMMA OptionsApplied ==
  ASSUME NEW n \in Nat, NEW options \in [1..n -> Client!Options]
  PROVE  Client!FoldLeft(Client!Applied, Client!Defaults, options) \in Config
<1> DEFINE S == 1..n
           c == [s \in SUBSET S |-> Greatest(s)]
           h == [i \in S |-> [x \in Config |-> Client!Applied(x, options[i])]]
           Unfolds(g) == g = [s \in SUBSET S |->
             IF s = {} THEN Client!Defaults
             ELSE Client!Applied(g[s \ {Greatest(s)}], options[Greatest(s)])]
           iter == AppliedTo(options)
<1>1. Client!Defaults \in Config
  BY DEF Client!Defaults, Config, Client!Backends, Client!Domains
<1>2. Picks(c, S)
  BY GreatestExists DEF Picks
<1>3. h \in [S -> [Config -> Config]]
  BY AppliedKeeps
<1>4. IsFiniteSet(S)
  BY FS_Interval
<1>5. PICK g : IsFold(g, S, Config, Client!Defaults, h, c)
  <2> HIDE DEF c, h, S
  <2> QED BY <1>1, <1>2, <1>3, <1>4, FoldExists
<1>6. Unfolds(g)
  <2>1. ASSUME NEW s \in SUBSET S, s # {}
        PROVE  g[s] = Client!Applied(g[s \ {Greatest(s)}], options[Greatest(s)])
    <3>1. c[s] \in S /\ g[s \ {c[s]}] \in Config /\ g[s] = h[c[s]][g[s \ {c[s]}]]
      <4> HIDE DEF c, h
      <4> QED BY <1>2, <1>5, <2>1 DEF IsFold, Picks
    <3> QED BY <2>1, <3>1
  <2>2. g \in [SUBSET S -> Config] /\ g[{}] = Client!Defaults
    BY <1>5 DEF IsFold
  <2> HIDE DEF c, h
  <2> QED BY <2>1, <2>2
<1>7. Unfolds(iter)
  <2>1. iter = CHOOSE k : Unfolds(k)
    BY DEF AppliedTo
  <2> HIDE DEF Unfolds, iter
  <2> QED BY <1>6, <2>1
<1>8. Client!FoldLeft(Client!Applied, Client!Defaults, options) = iter[S]
  BY DEF AppliedTo, Client!FoldLeft, Client!MapThenFoldSet, Client!Max, Greatest
<1> HIDE DEF iter
<1>9. ASSUME NEW U \in SUBSET S, \A V \in SUBSET U : V # U => iter[V] \in Config
      PROVE  iter[U] \in Config
  <2>1. CASE U = {}
    BY <1>1, <1>7, <2>1
  <2>2. CASE U # {}
    <3> DEFINE e == Greatest(U)
    <3>1. e \in U
      BY <2>2, GreatestExists
    <3>2. iter[U] = Client!Applied(iter[U \ {e}], options[e])
      BY <1>7, <2>2
    <3>3. iter[U \ {e}] \in Config /\ options[e] \in Client!Options
      BY <1>9, <3>1
    <3> QED BY <3>2, <3>3, AppliedKeeps
  <2> QED BY <2>1, <2>2
<1> DEFINE T == {U \in SUBSET S : iter[U] \in Config}
<1>10. ASSUME NEW U \in SUBSET S, \A V \in SUBSET U : V # U => V \in T PROVE U \in T
  BY <1>9, <1>10
<1> HIDE DEF T, S
<1>11. SUBSET S \subseteq T
  BY <1>4, <1>10, SubsetInduction
<1>12. S \in T
  BY <1>11
<1> QED BY <1>8, <1>12 DEF T

(* parse_args() ends with a model of the backend.                               *)
LEMMA ParsedFits ==
  ASSUME NEW n \in Nat, NEW options \in [1..n -> Client!Options], NEW environment \in BOOLEAN
  PROVE  /\ Client!Parsed(options, environment) \in
              [backend : Client!Backends, mode : {"sync", "async", "override"},
               model : UNION {Client!KnownModels[b] : b \in Client!Backends},
               key : BOOLEAN, threshold : [Client!Domains -> {40, 70, 80}]]
         /\ Client!Parsed(options, environment).model
              \in Client!KnownModels[Client!Parsed(options, environment).backend]
<1> DEFINE c == Client!FoldLeft(Client!Applied, Client!Defaults, options)
           p == Client!Parsed(options, environment)
           model == IF c.model \in Client!KnownModels[c.backend] THEN c.model
                    ELSE Client!DefaultModel[c.backend]
           key == c.key \/ environment
<1>1. c \in Config
  BY OptionsApplied
<1>2. p = [c EXCEPT !.key = key, !.model = model]
  BY DEF Client!Parsed
<1> HIDE DEF c, p
<1>3. c.backend \in Client!Backends
  BY <1>1 DEF Config
<1>4. model \in Client!KnownModels[c.backend]
  BY <1>3 DEF Client!KnownModels, Client!DefaultModel, Client!Backends
<1>5. key \in BOOLEAN
  BY Zenon, <1>1 DEF Config
<1> HIDE DEF model, key
<1>6. /\ p.backend = c.backend /\ p.model = model
      /\ p = [backend |-> c.backend, mode |-> c.mode, model |-> model, key |-> key,
              threshold |-> c.threshold]
  BY <1>1, <1>2 DEF Config
<1>7. model \in UNION {Client!KnownModels[b] : b \in Client!Backends}
  BY <1>3, <1>4
<1>8. /\ c.mode \in {"sync", "async", "override"}
      /\ c.threshold \in [Client!Domains -> {40, 70, 80}]
  BY <1>1 DEF Config
<1>9. p \in [backend : Client!Backends, mode : {"sync", "async", "override"},
             model : UNION {Client!KnownModels[b] : b \in Client!Backends},
             key : BOOLEAN, threshold : [Client!Domains -> {40, 70, 80}]]
  BY <1>3, <1>5, <1>6, <1>7, <1>8
<1> QED BY <1>4, <1>6, <1>9 DEF p

ClientSettings ==
  /\ settings.backend \in Client!Backends /\ settings.key \in BOOLEAN
  /\ settings.mode \in {"sync", "async", "override"}
  /\ settings.threshold \in [Client!Domains -> {40, 70, 80}]
  /\ settings.model \in Client!KnownModels[settings.backend]

LEMMA ClientConstants ==
  MaxOptions \in Nat /\ Confidences \subseteq Nat /\ Confidences # {} /\ 200 \in Statuses
  BY ServicesAssumption DEF Client!GatewayClientAssumption

LEMMA SettingsStart == Client!Init => ClientSettings
<1> SUFFICES ASSUME Client!Init PROVE ClientSettings
  OBVIOUS
<1>1. PICK options \in Client!SeqOf(Client!Options, MaxOptions), environment \in BOOLEAN :
        settings = Client!Parsed(options, environment)
  BY DEF Client!Init
<1>2. PICK n \in Nat : options \in [1..n -> Client!Options]
  BY ClientConstants DEF Client!SeqOf
<1>3. settings \in [backend : Client!Backends, mode : {"sync", "async", "override"},
               model : UNION {Client!KnownModels[b] : b \in Client!Backends},
               key : BOOLEAN, threshold : [Client!Domains -> {40, 70, 80}]]
  BY <1>1, <1>2, ParsedFits
<1>4. settings.model \in Client!KnownModels[settings.backend]
  BY <1>1, <1>2, ParsedFits
<1> QED BY <1>3, <1>4 DEF ClientSettings

LEMMA SettingsStay ==
  ClientSettings /\ [Client!Next]_(Client!gatewayVars) => ClientSettings'
<1>1. [Client!Next]_(Client!gatewayVars) => UNCHANGED settings
  BY DEF Client!Next, Client!gatewayVars, Client!clientRest, Client!Ask, Client!Connect,
         Client!SendHeader, Client!SendBody, Client!Proceed, Client!Fail, Client!Receive,
         Client!Ended
<1> QED BY <1>1 DEF ClientSettings

LEMMA SettingsKept == Spec => []ClientSettings
  BY SettingsStart, SettingsStay, PartsFollowTheirSpecs, PTL DEF Client!Spec

ClientRequests ==
  /\ place \in {"idle", "connect", "header", "body", "receive"}
  /\ request \in Client!Domains /\ response \in Client!Responses
  /\ arrived \in 0..6
  /\ outcome \in Client!Outcomes

LEMMA ClientRequestsStart == Client!Init => ClientRequests
<1> SUFFICES ASSUME Client!Init PROVE ClientRequests
  OBVIOUS
<1>1. response = Client!Silent /\ outcome = Client!NoOutcome /\ arrived = 0
      /\ request = "sched" /\ place = "idle"
  BY Zenon DEF Client!Init
<1>2. (CHOOSE c \in Confidences : TRUE) \in Confidences
  BY ClientConstants
<1>3. Client!Silent \in Client!Responses
  BY <1>2, ClientConstants DEF Client!Silent, Client!Responses, Client!DecisionStrings
<1>4. Client!NoOutcome \in Client!Outcomes
  BY DEF Client!NoOutcome, Client!Outcomes, Client!DecisionStrings
<1> QED BY <1>1, <1>3, <1>4 DEF ClientRequests, Client!Domains

LEMMA ShortSeqs ==
  ASSUME NEW S, NEW a \in S, NEW b \in S, NEW c \in S
  PROVE  /\ <<a>> \in Seq(S) /\ Len(<<a>>) = 1
         /\ <<a, b>> \in Seq(S) /\ Len(<<a, b>>) = 2
         /\ <<a, b, c>> \in Seq(S) /\ Len(<<a, b, c>>) = 3
  OBVIOUS

LEMMA PartsAtMostSix ==
  ASSUME NEW r \in Client!Responses
  PROVE  Len(Client!Parts(r)) \in 0..6
<1> DEFINE S == {"head", "envelope", "brace", "decision", "confidence", "prose", "end"}
           first == <<"head", "envelope">>
           middle == IF r.json THEN <<"brace", "decision", "confidence">> ELSE <<"prose">>
           final == <<"end">>
<1>1. /\ first \in Seq(S) /\ Len(first) = 2
      /\ final \in Seq(S) /\ Len(final) = 1
  BY ShortSeqs
<1>2. middle \in Seq(S) /\ (Len(middle) = 1 \/ Len(middle) = 3)
  BY ShortSeqs
<1>3. Client!Parts(r) = (first \o middle) \o final
  BY DEF Client!Parts
<1> HIDE DEF S, first, middle, final
<1>4. /\ first \o middle \in Seq(S)
      /\ Len(first \o middle) = Len(first) + Len(middle)
  BY <1>1, <1>2, ConcatProperties
<1>5. Len((first \o middle) \o final) = Len(first \o middle) + Len(final)
  BY <1>1, <1>4, ConcatProperties
<1>6. PICK n \in {1, 3} : Len((first \o middle) \o final) = 2 + n + 1
  BY <1>1, <1>2, <1>4, <1>5
<1>7. 2 + n + 1 \in 0..6
  BY <1>6
<1> QED BY <1>3, <1>6, <1>7

LEMMA OutcomeFits ==
  ASSUME ClientSettings, ClientRequests, NEW parts,
         NEW decision \in Client!DecisionsRead(parts, response),
         NEW o, o = [ok |-> TRUE, decision |-> decision,
                     confidence |-> Client!Confidence(parts, response),
                     override |-> Client!Override(Client!Confidence(parts, response))]
  PROVE  o \in Client!Outcomes
<1>1. decision \in Client!DecisionStrings
  BY DEF Client!DecisionsRead, ClientRequests, Client!Responses
<1>2. Client!Confidence(parts, response) \in 0..100
  <2>1. response.confidence \in Nat
    BY ClientConstants DEF ClientRequests, Client!Responses
  <2> QED BY <2>1 DEF Client!Confidence
<1>3. Client!Override(Client!Confidence(parts, response)) \in BOOLEAN
  BY Zenon DEF Client!Override
<1> QED BY <1>1, <1>2, <1>3 DEF Client!Outcomes

LEMMA EndedKeeps ==
  ASSUME ClientSettings, ClientRequests, Client!Ended
  PROVE  ClientRequests'
<1> DEFINE parts == Client!SubSeq(Client!Parts(response), 1, arrived)
<1>1. CASE Client!Fail
  <2>1. Client!NoOutcome \in Client!Outcomes
    BY DEF Client!NoOutcome, Client!Outcomes, Client!DecisionStrings
  <2> QED BY <1>1, <2>1 DEF Client!Fail, Client!clientRest, ClientRequests
<1>2. CASE ~Client!Fail
  <2>1. /\ \E decision \in Client!DecisionsRead(parts, response) :
             outcome' = [ok |-> TRUE, decision |-> decision,
                         confidence |-> Client!Confidence(parts, response),
                         override |-> Client!Override(Client!Confidence(parts, response))]
        /\ place' = "idle" /\ arrived' = 0 /\ UNCHANGED Client!clientRest
    BY Zenon, <1>2 DEF Client!Ended
  <2>2. outcome' \in Client!Outcomes
    BY <2>1, OutcomeFits
  <2> QED BY <2>1, <2>2 DEF Client!clientRest, ClientRequests
<1> QED BY <1>1, <1>2

LEMMA ClientRequestsStay ==
  ClientSettings /\ ClientRequests /\ [Client!Next]_(Client!gatewayVars) => ClientRequests'
<1> SUFFICES ASSUME ClientSettings, ClientRequests, [Client!Next]_(Client!gatewayVars)
             PROVE  ClientRequests'
  OBVIOUS
<1>0. Client!NoOutcome \in Client!Outcomes
  BY DEF Client!NoOutcome, Client!Outcomes, Client!DecisionStrings
<1>1. CASE UNCHANGED Client!gatewayVars
  BY <1>1 DEF Client!gatewayVars, Client!clientRest, ClientRequests
<1>2. ASSUME NEW domain \in Client!Domains, NEW r \in Client!Responses, Client!Ask(domain, r)
      PROVE  ClientRequests'
  BY <1>0, <1>2 DEF Client!Ask, ClientRequests
<1>3. CASE Client!Connect \/ Client!SendHeader \/ Client!SendBody
  BY <1>0, <1>3 DEF Client!Connect, Client!SendHeader, Client!SendBody, Client!Proceed,
     Client!Fail, Client!clientRest, ClientRequests
<1>4. CASE Client!Receive
  <2>1. PICK len \in 0..6 : len = Len(Client!Parts(response))
    BY PartsAtMostSix DEF ClientRequests
  <2>2. arrived < len /\ arrived' = arrived + 1 /\ arrived \in 0..6
    BY <1>4, <2>1 DEF Client!Receive, ClientRequests
  <2>3. arrived' \in 0..6
    BY <2>1, <2>2
  <2> QED BY <1>4, <2>3 DEF Client!Receive, Client!clientRest, ClientRequests
<1> QED BY <1>1, <1>2, <1>3, <1>4, EndedKeeps DEF Client!Next

(* Property ModelFitsBackend of GatewayClient, part of RoutesFit, for any       *)
(* number of options: the backend is asked for a model of its own.              *)
THEOREM ModelTheorem == Spec => []Client!ModelFitsBackend
<1>1. ClientSettings => Client!ModelFitsBackend
  BY DEF ClientSettings, Client!ModelFitsBackend
<1> QED BY <1>1, SettingsKept, PTL

(* The types of GatewayClient: whatever a backend answers, and wherever the     *)
(* answer is cut, the decision and the confidence read out of it are in range.  *)
THEOREM ClientTypes == Spec => []Client!TypeOK
<1>1. Spec => [](ClientSettings /\ ClientRequests)
  BY SettingsKept, ClientRequestsStart, ClientRequestsStay, PartsFollowTheirSpecs, PTL
     DEF Client!Spec
<1>2. ClientSettings /\ ClientRequests => Client!TypeOK
  BY DEF ClientSettings, ClientRequests, Client!TypeOK, Client!TriedThreshold
<1> QED BY <1>1, <1>2, PTL

---------------------------------------------------------------------------
(* SkillRouter: the rules that match and the scores of the backends             *)

RuleSet == [category : Router!Categories, priority : 1..100]

LEMMA RulesOfCategory ==
  ASSUME NEW category \in Router!Categories, NEW p \in Seq(1..100)
  PROVE  [i \in DOMAIN p |-> Router!Rule(category, p[i])] \in Seq(RuleSet)
<1>1. DOMAIN p = 1..Len(p) /\ Len(p) \in Nat
  BY LenProperties
<1>2. \A i \in 1..Len(p) : p[i] \in 1..100
  BY ElementOfSeq
<1>3. \A i \in 1..Len(p) : Router!Rule(category, p[i]) \in RuleSet
  BY <1>2 DEF Router!Rule, RuleSet
<1> DEFINE f == [i \in 1..Len(p) |-> Router!Rule(category, p[i])]
<1>4. f \in [1..Len(p) -> RuleSet]
  BY <1>3
<1>5. f \in Seq(RuleSet)
  <2> HIDE DEF f
  <2> QED BY <1>1, <1>4, FunctionIsSeq
<1> QED BY <1>1, <1>5

LEMMA MatchRulesTyped == Router!MatchRules \in Seq(RuleSet)
<1> DEFINE of(category, p) == [i \in DOMAIN p |-> Router!Rule(category, p[i])]
           a1 == of("scheduling", <<90, 60, 50, 70, 80, 85>>)
           a2 == of("io", <<80, 75, 70, 65, 60, 55, 50, 65>>)
           a3 == of("security", <<90, 95, 95, 90, 80, 85, 70, 85, 60>>)
           a4 == of("memory", <<80, 85, 80, 90>>)
           a5 == of("system", <<50, 70, 65>>)
           a6 == of("code", <<80, 70, 60, 50>>)
           a7 == of("analysis", <<60, 50>>)
           a8 == of("orchestrate", <<70, 60>>)
<1>0. \A c \in {"scheduling", "io", "security", "memory", "system", "code", "analysis",
               "orchestrate"} : c \in Router!Categories
  BY DEF Router!Categories
<1>1. a1 \in Seq(RuleSet)
  <2>1. <<90, 60, 50, 70, 80, 85>> \in Seq(1..100)
    OBVIOUS
  <2> QED BY <1>0, <2>1, RulesOfCategory
<1>2. a2 \in Seq(RuleSet)
  <2>1. <<80, 75, 70, 65, 60, 55, 50, 65>> \in Seq(1..100)
    OBVIOUS
  <2> QED BY <1>0, <2>1, RulesOfCategory
<1>3. a3 \in Seq(RuleSet)
  <2>0. <<90, 95, 95, 90, 80, 85, 70, 85, 60>> \in Seq(1..100)
    OBVIOUS
  <2>1. PICK p \in Seq(1..100) : p = <<90, 95, 95, 90, 80, 85, 70, 85, 60>>
    BY <2>0
  <2>2. [i \in DOMAIN p |-> Router!Rule("security", p[i])] \in Seq(RuleSet)
    BY <1>0, RulesOfCategory
  <2> QED BY <2>1, <2>2
<1>4. a4 \in Seq(RuleSet)
  <2>1. <<80, 85, 80, 90>> \in Seq(1..100)
    OBVIOUS
  <2> QED BY <1>0, <2>1, RulesOfCategory
<1>5. a5 \in Seq(RuleSet)
  <2>1. <<50, 70, 65>> \in Seq(1..100)
    OBVIOUS
  <2> QED BY <1>0, <2>1, RulesOfCategory
<1>6. a6 \in Seq(RuleSet)
  <2>1. <<80, 70, 60, 50>> \in Seq(1..100)
    OBVIOUS
  <2> QED BY <1>0, <2>1, RulesOfCategory
<1>7. a7 \in Seq(RuleSet)
  <2>1. <<60, 50>> \in Seq(1..100)
    OBVIOUS
  <2> QED BY <1>0, <2>1, RulesOfCategory
<1>8. a8 \in Seq(RuleSet)
  <2>1. <<70, 60>> \in Seq(1..100)
    OBVIOUS
  <2> QED BY <1>0, <2>1, RulesOfCategory
<1>9. Router!MatchRules = a1 \o a2 \o a3 \o a4 \o a5 \o a6 \o a7 \o a8
  BY DEF Router!MatchRules
<1> HIDE DEF a1, a2, a3, a4, a5, a6, a7, a8
<1>10. a1 \o a2 \in Seq(RuleSet)
  BY <1>1, <1>2, ConcatProperties
<1>11. a1 \o a2 \o a3 \in Seq(RuleSet)
  BY <1>3, <1>10, ConcatProperties
<1>12. a1 \o a2 \o a3 \o a4 \in Seq(RuleSet)
  BY <1>4, <1>11, ConcatProperties
<1>13. a1 \o a2 \o a3 \o a4 \o a5 \in Seq(RuleSet)
  BY <1>5, <1>12, ConcatProperties
<1>14. a1 \o a2 \o a3 \o a4 \o a5 \o a6 \in Seq(RuleSet)
  BY <1>6, <1>13, ConcatProperties
<1>15. a1 \o a2 \o a3 \o a4 \o a5 \o a6 \o a7 \in Seq(RuleSet)
  BY <1>7, <1>14, ConcatProperties
<1> QED BY <1>8, <1>9, <1>15, ConcatProperties

LEMMA RuleTyped ==
  /\ Len(Router!MatchRules) \in Nat
  /\ DOMAIN Router!MatchRules = 1..Len(Router!MatchRules)
  /\ \A i \in DOMAIN Router!MatchRules :
       Router!MatchRules[i].category \in Router!Categories /\ Router!MatchRules[i].priority \in 1..100
<1> DEFINE R == Router!MatchRules
<1>1. R \in Seq(RuleSet)
  BY MatchRulesTyped
<1> HIDE DEF R
<1>2. Len(R) \in Nat /\ DOMAIN R = 1..Len(R) /\ \A i \in 1..Len(R) : R[i] \in RuleSet
  BY <1>1, LenProperties, ElementOfSeq
<1> QED BY <1>2 DEF R, RuleSet

(* The best so far, and what it is of the rules tried and matched, those in s:  *)
(* the greatest priority, and the categories of the rules that have it.         *)
Found == [categories : SUBSET Router!Categories, priority : 0..100]
NoneFound == [categories |-> {}, priority |-> 0]

IsBest(b, s) ==
  /\ b \in Found
  /\ s = {} => b = NoneFound
  /\ s # {} => \E m \in s : Router!MatchRules[m].priority = b.priority
  /\ \A i \in s : Router!MatchRules[i].priority <= b.priority
  /\ b.categories = {Router!MatchRules[i].category :
                       i \in {j \in s : Router!MatchRules[j].priority = b.priority}}

LEMMA MatchedTyped ==
  ASSUME NEW b \in Found, NEW i \in DOMAIN Router!MatchRules, NEW req
  PROVE  Router!Tried(req, b, i) \in Found
<1> DEFINE rule == Router!MatchRules[i]
<1>1. rule.category \in Router!Categories /\ rule.priority \in 1..100
  BY RuleTyped
<1> HIDE DEF rule
<1>2. [categories |-> {rule.category}, priority |-> rule.priority] \in Found
  BY <1>1 DEF Found
<1>3. b.categories \cup {rule.category} \in SUBSET Router!Categories /\ b.priority \in 0..100
  BY <1>1 DEF Found
<1>4. [b EXCEPT !.categories = @ \cup {rule.category}] \in Found
  BY <1>3 DEF Found
<1>5. Router!Matched(rule, b) \in Found
  BY <1>2, <1>4 DEF Router!Matched
<1> QED BY <1>5 DEF rule, Router!Tried

LEMMA MatchedIsBest ==
  ASSUME NEW s \in SUBSET DOMAIN Router!MatchRules, NEW b, IsBest(b, s),
         NEW i \in DOMAIN Router!MatchRules, i \notin s
  PROVE  IsBest(Router!Matched(Router!MatchRules[i], b), s \cup {i})
<1> DEFINE rule == Router!MatchRules[i]
           prio(j) == Router!MatchRules[j].priority
           cat(j) == Router!MatchRules[j].category
           new == Router!Matched(rule, b)
<1>1. rule.category \in Router!Categories /\ prio(i) \in 1..100 /\ rule.priority = prio(i)
      /\ rule.category = cat(i) /\ \A j \in s : prio(j) \in 1..100
  BY RuleTyped
<1>2. /\ b \in Found /\ b.priority \in 0..100
      /\ s = {} => b = NoneFound
      /\ s # {} => \E m \in s : prio(m) = b.priority
      /\ \A j \in s : prio(j) <= b.priority
      /\ b.categories = {cat(j) : j \in {k \in s : prio(k) = b.priority}}
  BY DEF IsBest, Found
<1>3. new \in Found
  <2>1. i \in {i}
    OBVIOUS
  <2>2. Router!Tried({i}, b, i) = new
    BY <2>1 DEF Router!Tried
  <2> QED BY <1>2, <2>2, MatchedTyped
<1> HIDE DEF rule, prio, cat
<1>4. CASE rule.priority > b.priority
  <2>1. new = [categories |-> {rule.category}, priority |-> rule.priority]
    BY <1>4 DEF Router!Matched
  <2>2. new.priority = prio(i) /\ new.categories = {cat(i)}
    BY <1>1, <2>1
  <2>3. \A j \in s : prio(j) < prio(i) /\ prio(j) # prio(i)
    BY <1>1, <1>2, <1>4
  <2>4. {j \in s \cup {i} : prio(j) = new.priority} = {i}
    BY <2>2, <2>3
  <2>5. {cat(j) : j \in {i}} = {cat(i)}
    OBVIOUS
  <2>6. \A j \in s \cup {i} : prio(j) <= new.priority
    BY <1>1, <2>2, <2>3
  <2>7. i \in s \cup {i} /\ prio(i) = new.priority
    BY <2>2
  <2> HIDE DEF new
  <2> QED BY <1>3, <2>2, <2>4, <2>5, <2>6, <2>7 DEF IsBest, new, prio, cat, rule
<1>5. CASE rule.priority = b.priority
  <2>1. new = [b EXCEPT !.categories = @ \cup {rule.category}]
    BY <1>1, <1>2, <1>5 DEF Router!Matched
  <2>2. new.priority = b.priority /\ new.categories = b.categories \cup {cat(i)}
    BY <1>1, <1>2, <2>1 DEF Found
  <2>3. {j \in s \cup {i} : prio(j) = new.priority}
          = {k \in s : prio(k) = b.priority} \cup {i}
    BY <1>1, <1>5, <2>2
  <2>4. {cat(j) : j \in {j \in s \cup {i} : prio(j) = new.priority}}
          = {cat(j) : j \in {k \in s : prio(k) = b.priority}} \cup {cat(i)}
    BY <2>3
  <2>5. new.categories = {cat(j) : j \in {j \in s \cup {i} : prio(j) = new.priority}}
    BY <1>2, <2>2, <2>4
  <2>6. \A j \in s \cup {i} : prio(j) <= new.priority
    <3>1. prio(i) <= b.priority
      BY <1>1, <1>2, <1>5
    <3> HIDE DEF new
    <3> QED BY <1>2, <2>2, <3>1
  <2>7. i \in s \cup {i} /\ prio(i) = new.priority
    BY <1>1, <1>5, <2>2
  <2> HIDE DEF new
  <2> QED BY <1>3, <2>5, <2>6, <2>7 DEF IsBest, new, prio, cat, rule
<1>6. CASE rule.priority < b.priority
  <2>1. new = b
    BY <1>1, <1>2, <1>6 DEF Router!Matched
  <2>2. prio(i) # b.priority /\ prio(i) <= b.priority
    BY <1>1, <1>2, <1>6
  <2>3. {j \in s \cup {i} : prio(j) = b.priority} = {k \in s : prio(k) = b.priority}
    BY <2>2
  <2>4. s # {}
    <3>1. CASE s = {}
      <4>1. b.priority = 0
        BY <1>2, <3>1 DEF NoneFound
      <4> QED BY <1>1, <1>6, <4>1
    <3> QED BY <3>1
  <2>5. \E m \in s \cup {i} : prio(m) = b.priority
    BY <1>2, <2>4
  <2>6. \A j \in s \cup {i} : prio(j) <= b.priority
    BY <1>2, <2>2
  <2>7. IsBest(b, s \cup {i})
    <3>1. b.categories = {cat(j) : j \in {j \in s \cup {i} : prio(j) = b.priority}}
      BY <1>2, <2>3
    <3> QED BY <1>2, <2>4, <2>5, <2>6, <3>1 DEF IsBest, prio, cat
  <2> QED BY <2>1, <2>7 DEF rule
<1>7. rule.priority \in Int /\ b.priority \in Int
  BY <1>1, <1>2
<1> QED BY <1>4, <1>5, <1>6, <1>7

(* The function by which FoldLeftDomain tries the rules in order.               *)
Indices == [i \in DOMAIN Router!MatchRules |-> i]
Trials(req) ==
  CHOOSE g : g = [s \in SUBSET DOMAIN Indices |->
    IF s = {} THEN NoneFound
    ELSE Router!Tried(req, g[s \ {Greatest(s)}], Indices[Greatest(s)])]

(* Tried in order, the rules leave the best of those the request matches.       *)
LEMMA AnalyzeFindsBest ==
  ASSUME NEW req \in SUBSET DOMAIN Router!MatchRules
  PROVE  \E b : /\ IsBest(b, req)
                /\ Router!Analyze(req)
                     = IF b.categories = {} THEN {"system"} ELSE b.categories
<1> DEFINE n == Len(Router!MatchRules)
           S == DOMAIN Router!MatchRules
           c == [s \in SUBSET S |-> Greatest(s)]
           h == [i \in S |-> [b \in Found |-> Router!Tried(req, b, i)]]
           Unfolds(g) == g = [s \in SUBSET DOMAIN Indices |->
             IF s = {} THEN NoneFound
             ELSE Router!Tried(req, g[s \ {Greatest(s)}], Indices[Greatest(s)])]
           iter == Trials(req)
<1>0. n \in Nat /\ S = 1..n
  BY RuleTyped
<1>i. DOMAIN Indices = S /\ \A s \in SUBSET S : s # {} => Indices[Greatest(s)] = Greatest(s)
  BY <1>0, GreatestExists DEF Indices
<1>1. NoneFound \in Found
  BY DEF NoneFound, Found
<1>2. Picks(c, S)
  BY <1>0, GreatestExists DEF Picks
<1>3. h \in [S -> [Found -> Found]]
  BY MatchedTyped
<1>4. IsFiniteSet(S)
  <2>1. 1 \in Int /\ n \in Int
    BY <1>0
  <2>2. IsFiniteSet(1..n)
    BY <2>1, FS_Interval
  <2> QED BY <1>0, <2>2
<1>5. PICK g : IsFold(g, S, Found, NoneFound, h, c)
  <2> HIDE DEF c, h, S
  <2> QED BY <1>1, <1>2, <1>3, <1>4, FoldExists
<1>6. Unfolds(g)
  <2>1. ASSUME NEW s \in SUBSET S, s # {}
        PROVE  g[s] = Router!Tried(req, g[s \ {Greatest(s)}], Greatest(s))
    <3>1. c[s] \in S /\ g[s \ {c[s]}] \in Found /\ g[s] = h[c[s]][g[s \ {c[s]}]]
      <4> HIDE DEF c, h
      <4> QED BY <1>2, <1>5, <2>1 DEF IsFold, Picks
    <3> QED BY <2>1, <3>1
  <2>2. g \in [SUBSET S -> Found] /\ g[{}] = NoneFound
    BY <1>5 DEF IsFold
  <2> HIDE DEF c, h, S
  <2> QED BY <1>i, <2>1, <2>2
<1>7. Unfolds(iter)
  <2>1. iter = CHOOSE k : Unfolds(k)
    BY DEF Trials
  <2> HIDE DEF Unfolds, iter
  <2> QED BY <1>6, <2>1
<1>8. Router!Analyze(req)
        = IF iter[S].categories = {} THEN {"system"} ELSE iter[S].categories
  BY <1>i DEF Trials, Indices, Router!Analyze, Router!FoldLeftDomain, Router!FoldLeft,
         Router!MapThenFoldSet, Router!Max, Greatest, NoneFound
<1>u. \A s \in SUBSET S : iter[s] = IF s = {} THEN NoneFound
        ELSE Router!Tried(req, iter[s \ {Greatest(s)}], Greatest(s))
  BY <1>7, <1>i
<1> HIDE DEF iter, Unfolds
<1> DEFINE T == {k \in Nat : k <= n => IsBest(iter[1..k], req \cap (1..k))}
<1>9. 0 \in T
  <2>1. 1..0 = {} /\ {} \in SUBSET S
    OBVIOUS
  <2>2. iter[1..0] = NoneFound
    BY <1>u, <2>1
  <2>3. IsBest(NoneFound, {})
    BY <1>1 DEF IsBest, NoneFound
  <2> QED BY <2>1, <2>2, <2>3
<1>10. ASSUME NEW k \in Nat, k \in T PROVE k + 1 \in T
  <2> SUFFICES ASSUME k + 1 <= n PROVE IsBest(iter[1..(k + 1)], req \cap (1..(k + 1)))
    OBVIOUS
  <2> DEFINE b == iter[1..k]
             i == k + 1
  <2>1. IsBest(b, req \cap (1..k))
    BY <1>0, <1>10
  <2>2. i \in S /\ i \in 1..n /\ 1..i \in SUBSET S /\ 1..i # {} /\ i \notin 1..k
        /\ 1..i = (1..k) \cup {i} /\ i - 1 = k
    BY <1>0
  <2>3. Greatest(1..i) = i /\ (1..i) \ {i} = 1..k
    BY <1>0, <2>2, GreatestOfInterval
  <2>4. iter[1..i] = Router!Tried(req, b, i)
    BY <1>u, <2>2, <2>3
  <2> HIDE DEF b, i
  <2>5. CASE i \in req
    <3>1. iter[1..i] = Router!Matched(Router!MatchRules[i], b)
      BY <2>4, <2>5 DEF Router!Tried
    <3>2. req \cap (1..i) = (req \cap (1..k)) \cup {i}
      BY <2>2, <2>5
    <3>3. req \cap (1..k) \in SUBSET DOMAIN Router!MatchRules /\ i \notin req \cap (1..k)
      BY <2>2
    <3>4. IsBest(Router!Matched(Router!MatchRules[i], b), (req \cap (1..k)) \cup {i})
      BY <2>1, <2>2, <3>3, MatchedIsBest
    <3> QED BY <3>1, <3>2, <3>4 DEF i
  <2>6. CASE i \notin req
    <3>1. iter[1..i] = b
      BY <2>4, <2>6 DEF Router!Tried
    <3>2. req \cap (1..i) = req \cap (1..k)
      BY <2>2, <2>6
    <3> QED BY <2>1, <3>1, <3>2 DEF i
  <2> QED BY <2>5, <2>6
<1> HIDE DEF T
<1>11. n \in T
  BY <1>0, <1>9, <1>10, NatInductionOnSet
<1>12. IsBest(iter[S], req)
  <2>1. IsBest(iter[1..n], req \cap (1..n))
    BY <1>0, <1>11 DEF T
  <2>2. req \cap (1..n) = req
    BY <1>0
  <2> QED BY <1>0, <2>1, <2>2
<1> QED BY <1>8, <1>12

(* What skill_analyze() finds is what AnalyzeKeepsBest asks for.                *)
LEMMA AnalyzeIsBest ==
  ASSUME NEW req \in SUBSET DOMAIN Router!MatchRules
  PROVE  /\ Router!Analyze(req) \subseteq Router!Categories
         /\ req # {} =>
              LET best == Router!Max({Router!MatchRules[i].priority : i \in req})
              IN  Router!Analyze(req) = {Router!MatchRules[i].category :
                    i \in {j \in req : Router!MatchRules[j].priority = best}}
<1>1. PICK b : /\ IsBest(b, req)
               /\ Router!Analyze(req)
                    = IF b.categories = {} THEN {"system"} ELSE b.categories
  BY AnalyzeFindsBest
<1>2. b.categories \subseteq Router!Categories
  BY <1>1 DEF IsBest, Found
<1>3. "system" \in Router!Categories
  BY DEF Router!Categories
<1>4. ASSUME req # {}
      PROVE  Router!Analyze(req) = {Router!MatchRules[i].category :
               i \in {j \in req : Router!MatchRules[j].priority
                  = Router!Max({Router!MatchRules[k].priority : k \in req})}}
  <2> DEFINE P == {Router!MatchRules[k].priority : k \in req}
  <2>1. b.priority \in P /\ \A p \in P : p <= b.priority /\ p \in Int
    <3>1. \E m \in req : Router!MatchRules[m].priority = b.priority
      BY <1>1, <1>4 DEF IsBest
    <3>2. \A i \in req : Router!MatchRules[i].priority <= b.priority
      BY <1>1 DEF IsBest
    <3>3. \A i \in req : Router!MatchRules[i].priority \in Int
      <4> SUFFICES ASSUME NEW i \in req PROVE Router!MatchRules[i].priority \in Int
        OBVIOUS
      <4>1. Router!MatchRules[i].priority \in 1..100
        BY RuleTyped
      <4> QED BY <4>1
    <3> QED BY <3>1, <3>2, <3>3
  <2>2. Router!Max(P) = b.priority
    <3> HIDE DEF P
    <3>1. \A p \in P : b.priority >= p
      BY <2>1
    <3>2. \A p \in P : (\A q \in P : p >= q) => p = b.priority
      BY <2>1
    <3> QED BY <2>1, <3>1, <3>2 DEF Router!Max
  <2>3. b.categories = {Router!MatchRules[i].category :
                          i \in {j \in req : Router!MatchRules[j].priority = b.priority}}
    BY <1>1 DEF IsBest
  <2>4. b.categories # {}
    <3>1. PICK m \in req : Router!MatchRules[m].priority = b.priority
      BY <1>1, <1>4 DEF IsBest
    <3> QED BY <2>3, <3>1
  <2> QED BY <1>1, <2>2, <2>3, <2>4
<1> QED BY <1>1, <1>2, <1>3, <1>4

LEMMA CategoriesFinite == IsFiniteSet(Router!Categories)
<1> DEFINE a == {"scheduling", "io", "security"}
           b == {"memory", "system", "code"}
           c == {"analysis", "orchestrate"}
<1>1. IsFiniteSet(a) /\ IsFiniteSet(b) /\ IsFiniteSet(c)
  <2>1. \A x, y, z : IsFiniteSet({x, y, z})
    <3> SUFFICES ASSUME NEW x, NEW y, NEW z PROVE IsFiniteSet({x, y, z})
      OBVIOUS
    <3>1. IsFiniteSet({x})
      BY FS_Singleton
    <3>2. IsFiniteSet({x} \cup {y})
      BY <3>1, FS_AddElement
    <3>3. IsFiniteSet(({x} \cup {y}) \cup {z})
      BY <3>2, FS_AddElement
    <3>4. ({x} \cup {y}) \cup {z} = {x, y, z}
      OBVIOUS
    <3> QED BY <3>3, <3>4
  <2>2. c = {"analysis", "orchestrate", "orchestrate"}
    OBVIOUS
  <2> HIDE DEF c
  <2> QED BY <2>1, <2>2
<1>2. Router!Categories = (a \cup b) \cup c
  BY DEF Router!Categories
<1> HIDE DEF a, b, c
<1>3. IsFiniteSet(a \cup b)
  BY <1>1, FS_Union
<1>4. IsFiniteSet((a \cup b) \cup c)
  BY <1>1, <1>3, FS_Union
<1> QED BY <1>2, <1>4

(* Of code, f gives lead more than k; of security, lag less at most; and of the *)
(* rest no less.                                                                *)
Leads(f, k, S, lead, lag) ==
  \A x \in S : f[x] + (IF x = "security" THEN lag ELSE 0)
                 >= k[x] + (IF x = "code" THEN lead ELSE 0)

LEMMA SumsLead ==
  ASSUME NEW S, IsFiniteSet(S), NEW f \in [S -> Int], NEW k \in [S -> Int],
         NEW F, IsSum(F, f, S), NEW K, IsSum(K, k, S),
         NEW lead \in Nat, NEW lag \in Nat, Leads(f, k, S, lead, lag)
  PROVE  /\ F[S] \in Int /\ K[S] \in Int
         /\ F[S] + lag >= K[S] + (IF "code" \in S THEN lead ELSE 0)
<1> DEFINE Lag(U) == IF "security" \in U THEN lag ELSE 0
           Lead(U) == IF "code" \in U THEN lead ELSE 0
           T == {U \in SUBSET S : F[U] + Lag(U) >= K[U] + Lead(U)}
<1>0. F \in [SUBSET S -> Int] /\ K \in [SUBSET S -> Int] /\ F[{}] = 0 /\ K[{}] = 0
  BY DEF IsSum
<1>1. ASSUME NEW U \in SUBSET S, \A V \in SUBSET U : V # U => V \in T
      PROVE  U \in T
  <2>1. CASE U = {}
    BY <1>0, <2>1
  <2>2. CASE U # {}
    <3> DEFINE e == CHOOSE y \in U : TRUE
               R == U \ {e}
    <3>1. e \in U /\ R \in SUBSET U /\ R # U /\ R \in SUBSET S
      BY <2>2
    <3>2. R \in T
      BY <1>1, <3>1
    <3>3. F[U] = f[e] + F[R] /\ K[U] = k[e] + K[R]
      BY <2>2 DEF IsSum
    <3>4. F[R] \in Int /\ K[R] \in Int /\ f[e] \in Int /\ k[e] \in Int
      BY <1>0, <3>1
    <3>5. \A y : y \in R <=> (y \in U /\ y # e)
      OBVIOUS
    <3>6. F[R] + Lag(R) >= K[R] + Lead(R)
      BY <3>2
    <3>7. f[e] + (IF e = "security" THEN lag ELSE 0) >= k[e] + (IF e = "code" THEN lead ELSE 0)
      BY <3>1 DEF Leads
    <3> HIDE DEF e, R
    <3>8. /\ Lag(U) = Lag(R) + (IF e = "security" THEN lag ELSE 0)
          /\ Lead(U) = Lead(R) + (IF e = "code" THEN lead ELSE 0)
      BY <3>1, <3>5
    <3>9. Lag(R) \in Nat /\ Lead(R) \in Nat
      OBVIOUS
    <3> HIDE DEF Lag, Lead
    <3>10. F[U] + Lag(U) >= K[U] + Lead(U)
      <4> DEFINE x == IF e = "security" THEN lag ELSE 0
                 z == IF e = "code" THEN lead ELSE 0
      <4>1. x \in Nat /\ z \in Nat
        OBVIOUS
      <4>2. f[e] + x >= k[e] + z /\ Lag(U) = Lag(R) + x /\ Lead(U) = Lead(R) + z
        BY <3>7, <3>8
      <4> HIDE DEF x, z
      <4> QED BY <3>3, <3>4, <3>6, <3>9, <4>1, <4>2
    <3> QED BY <3>10
  <2> QED BY <2>1, <2>2
<1> HIDE DEF T
<1>2. SUBSET S \subseteq T
  BY <1>1, SubsetInduction
<1>3. S \in T
  BY <1>2
<1>4. F[S] + Lag(S) >= K[S] + Lead(S) /\ F[S] \in Int /\ K[S] \in Int
  BY <1>0, <1>3 DEF T
<1>5. Lag(S) \in Nat /\ Lag(S) <= lag /\ Lead(S) \in Nat
  OBVIOUS
<1> HIDE DEF Lag
<1> QED BY <1>4, <1>5

(* The score of a backend is the sum of its weights for the categories.         *)
LEMMA ScoreIsSum ==
  ASSUME NEW b, NEW category, IsFiniteSet(category), NEW f \in [category -> Int],
         \A x \in category : f[x] = weights[b][Router!WeightOf[x]]
  PROVE  \E g : IsSum(g, f, category) /\ Router!Score(b, category) = g[category]
<1> DEFINE Unfolds(g) == g = [s \in SUBSET category |->
             IF s = {} THEN 0
             ELSE weights[b][Router!WeightOf[CHOOSE x \in s : TRUE]]
                    + g[s \ {CHOOSE x \in s : TRUE}]]
           iter == CHOOSE g : Unfolds(g)
<1>1. Router!Score(b, category) = iter[category]
  BY DEF Router!Score, Router!MapThenSumSet, Router!MapThenFoldSet
<1>2. \A s \in SUBSET category : s # {} =>
        f[CHOOSE x \in s : TRUE] = weights[b][Router!WeightOf[CHOOSE x \in s : TRUE]]
  OBVIOUS
<1>3. \A g : Unfolds(g) <=> SumUnfolds(g, f, category)
  BY <1>2 DEF SumUnfolds
<1>4. PICK g : SumUnfolds(g, f, category)
  BY SumExists
<1> HIDE DEF Unfolds
<1>5. Unfolds(iter)
  BY <1>3, <1>4
<1> HIDE DEF iter
<1>6. IsSum(iter, f, category)
  BY <1>3, <1>5, SumUnfolded
<1> QED BY <1>1, <1>6

LEMMA CoreSumIsSum ==
  ASSUME NEW b \in Router!Backends, NEW S, IsFiniteSet(S), NEW f \in [S -> Int],
         \A x \in S : f[x] = Router!CoreWeights[b][x]
  PROVE  \E g : IsSum(g, f, S)
                /\ Router!MapThenSumSet(LAMBDA c : Router!CoreWeights[b][c], S) = g[S]
<1> DEFINE Unfolds(g) == g = [s \in SUBSET S |->
             IF s = {} THEN 0
             ELSE Router!CoreWeights[b][CHOOSE x \in s : TRUE]
                    + g[s \ {CHOOSE x \in s : TRUE}]]
           iter == CHOOSE g : Unfolds(g)
<1>1. Router!MapThenSumSet(LAMBDA c : Router!CoreWeights[b][c], S) = iter[S]
  BY DEF Router!MapThenSumSet, Router!MapThenFoldSet
<1>2. \A s \in SUBSET S : s # {} =>
        f[CHOOSE x \in s : TRUE] = Router!CoreWeights[b][CHOOSE x \in s : TRUE]
  OBVIOUS
<1>3. \A g : Unfolds(g) <=> SumUnfolds(g, f, S)
  BY <1>2 DEF SumUnfolds
<1>4. PICK g : SumUnfolds(g, f, S)
  BY SumExists
<1> HIDE DEF Unfolds
<1>5. Unfolds(iter)
  BY <1>3, <1>4
<1> HIDE DEF iter
<1>6. IsSum(iter, f, S)
  BY <1>3, <1>5, SumUnfolded
<1> QED BY <1>1, <1>6

(* With the default weights, what code brings DeepSeek outweighs all that Kimi  *)
(* is ahead in: 60 against 20.                                                  *)
LEMMA CoderRouted ==
  ASSUME weights = Router!DefaultWeights,
         NEW category \in SUBSET Router!Categories,
         "code" \in category, "orchestrate" \notin category
  PROVE  Router!Score("deepseek", category) >= Router!Score("kimi", category)
<1> DEFINE f == [x \in category |-> weights["deepseek"][Router!WeightOf[x]]]
           k == [x \in category |-> weights["kimi"][Router!WeightOf[x]]]
           lead == 60
           lag == 20
<1>0. category \subseteq {"scheduling", "io", "security", "memory", "system", "code", "analysis"}
  BY DEF Router!Categories
<1>1. \A x \in category :
        /\ f[x] \in Int /\ k[x] \in Int
        /\ f[x] + (IF x = "security" THEN lag ELSE 0)
             >= k[x] + (IF x = "code" THEN lead ELSE 0)
  BY <1>0 DEF Router!DefaultWeights, Router!Weights, Router!WeightOf
<1>2. IsFiniteSet(category)
  BY CategoriesFinite, FS_Subset
<1>3. f \in [category -> Int] /\ k \in [category -> Int] /\ Leads(f, k, category, lead, lag)
  BY <1>1 DEF Leads
<1>4. /\ \A x \in category : f[x] = weights["deepseek"][Router!WeightOf[x]]
      /\ \A x \in category : k[x] = weights["kimi"][Router!WeightOf[x]]
  OBVIOUS
<1> HIDE DEF f, k
<1>5. PICK F : IsSum(F, f, category) /\ Router!Score("deepseek", category) = F[category]
  BY <1>2, <1>3, <1>4, ScoreIsSum
<1>6. PICK K : IsSum(K, k, category) /\ Router!Score("kimi", category) = K[category]
  BY <1>2, <1>3, <1>4, ScoreIsSum
<1>7. /\ F[category] \in Int /\ K[category] \in Int
      /\ F[category] + lag >= K[category] + (IF "code" \in category THEN lead ELSE 0)
  <2>1. lead \in Nat /\ lag \in Nat
    OBVIOUS
  <2> HIDE DEF lead, lag
  <2> QED BY <1>2, <1>3, <1>5, <1>6, <2>1, SumsLead
<1> QED BY <1>5, <1>6, <1>7

(* The weights of the MCP core: 40 against 10, before both are cut at 100.      *)
LEMMA CoderRoutedByCore ==
  ASSUME NEW category \in SUBSET Router!Categories,
         "code" \in category, "orchestrate" \notin category
  PROVE  Router!CoreScore("deepseek", category) >= Router!CoreScore("kimi", category)
<1> DEFINE names == {"code", "scheduling", "security", "memory", "orchestrate"}
           S == category \cap names
           f == [x \in S |-> Router!CoreWeights["deepseek"][x]]
           k == [x \in S |-> Router!CoreWeights["kimi"][x]]
           lead == 40
           lag == 10
<1>0. S \subseteq {"code", "scheduling", "security", "memory"} /\ "code" \in S
  OBVIOUS
<1>d. /\ DOMAIN Router!CoreWeights["deepseek"] = names
      /\ DOMAIN Router!CoreWeights["kimi"] = names
  BY DEF Router!CoreWeights
<1>1. \A x \in S :
        /\ f[x] \in Int /\ k[x] \in Int
        /\ f[x] + (IF x = "security" THEN lag ELSE 0)
             >= k[x] + (IF x = "code" THEN lead ELSE 0)
  BY <1>0 DEF Router!CoreWeights
<1>2. IsFiniteSet(S)
  BY CategoriesFinite, FS_Subset
<1>3. f \in [S -> Int] /\ k \in [S -> Int] /\ Leads(f, k, S, lead, lag)
  BY <1>1 DEF Leads
<1>4. /\ \A x \in S : f[x] = Router!CoreWeights["deepseek"][x]
      /\ \A x \in S : k[x] = Router!CoreWeights["kimi"][x]
      /\ "deepseek" \in Router!Backends /\ "kimi" \in Router!Backends
  BY DEF Router!Backends
<1> DEFINE sum(b) == Router!MapThenSumSet(LAMBDA c : Router!CoreWeights[b][c], S)
<1>8. /\ Router!CoreScore("deepseek", category)
           = IF 50 + sum("deepseek") > 100 THEN 100 ELSE 50 + sum("deepseek")
      /\ Router!CoreScore("kimi", category)
           = IF 50 + sum("kimi") > 100 THEN 100 ELSE 50 + sum("kimi")
  BY <1>d DEF Router!CoreScore
<1> HIDE DEF f, k, S
<1>5. PICK F : IsSum(F, f, S) /\ sum("deepseek") = F[S]
  BY <1>2, <1>3, <1>4, CoreSumIsSum
<1>6. PICK K : IsSum(K, k, S) /\ sum("kimi") = K[S]
  BY <1>2, <1>3, <1>4, CoreSumIsSum
<1>7. /\ F[S] \in Int /\ K[S] \in Int
      /\ F[S] + lag >= K[S] + (IF "code" \in S THEN lead ELSE 0)
  <2>1. lead \in Nat /\ lag \in Nat
    OBVIOUS
  <2> HIDE DEF lead, lag
  <2> QED BY <1>2, <1>3, <1>5, <1>6, <2>1, SumsLead
<1> HIDE DEF sum
<1>9. F[S] >= K[S]
  BY <1>0, <1>7
<1> QED BY <1>5, <1>6, <1>7, <1>8, <1>9

RouterTypes ==
  /\ mcpTools \subseteq Router!AllTools
  /\ DOMAIN weights = Router!Backends
  /\ \A b \in Router!Backends : weights[b] \in {Router!DefaultWeights[b], Router!EvenWeights}
  /\ last.request \subseteq DOMAIN Router!MatchRules /\ last.category \subseteq Router!Categories
  /\ last.tool \in Router!AllTools \cup {Router!NoTool}
  /\ last.decision \in Router!Decision /\ last.core \in Router!Decision
  /\ reply \in Router!Replies

(* The categories of the dispatch are those its request was analysed to; the    *)
(* weights stay as they were when it was routed.                                *)
RouterFits ==
  /\ last.request # {} => last.category = Router!Analyze(last.request)
  /\ weights = Router!DefaultWeights /\ last.decision.model = "deepseek-coder"
       => last.decision.backend = "deepseek"
  /\ last.core.model = "deepseek-coder" => last.core.backend = "deepseek"

LEMMA ChosenFits ==
  ASSUME NEW deepseek, NEW category
  PROVE  /\ Router!Chosen(deepseek, category) \in Router!Decision
         /\ Router!Chosen(deepseek, category).model = "deepseek-coder"
              => "code" \in category /\ "orchestrate" \notin category
         /\ deepseek => Router!Chosen(deepseek, category).backend = "deepseek"
<1> DEFINE backend == IF deepseek THEN "deepseek" ELSE "kimi"
           model == CASE "orchestrate" \in category -> "moonshot-v1-32k"
                      [] "orchestrate" \notin category /\ "code" \in category -> "deepseek-coder"
                      [] OTHER -> IF deepseek THEN "deepseek-chat" ELSE "moonshot-v1-8k"
<1>1. Router!Chosen(deepseek, category) = [backend |-> backend, model |-> model]
  BY DEF Router!Chosen
<1>2. backend \in Router!Backends /\ (deepseek => backend = "deepseek")
  BY DEF Router!Backends
<1>3. model \in Router!Models
  BY DEF Router!Models
<1>4. model = "deepseek-coder" => "code" \in category /\ "orchestrate" \notin category
  OBVIOUS
<1> HIDE DEF backend, model
<1> QED BY <1>1, <1>2, <1>3, <1>4 DEF Router!Decision

LEMMA NoDispatchFits ==
  /\ Router!Chosen(TRUE, {}) \in Router!Decision
  /\ Router!Chosen(TRUE, {}).model # "deepseek-coder"
  BY DEF Router!Chosen, Router!Decision, Router!Backends, Router!Models

LEMMA RequestsMatch ==
  ASSUME NEW req \in Router!Requests
  PROVE  req \subseteq DOMAIN Router!MatchRules
<1>1. req = {} \/ \E f \in [1..MaxKeywords -> DOMAIN Router!MatchRules] :
                        req = Router!Range(f)
  BY DEF Router!Requests
<1> QED BY <1>1 DEF Router!Range

LEMMA ToolFound ==
  ASSUME NEW category
  PROVE  Router!ToolFor(category) \in Router!AllTools \cup {Router!NoTool}
<1> DEFINE M == Router!ToolMappings
           usable == {i \in DOMAIN M : M[i][1] \in category /\ Router!CallTool(M[i][2])}
           least == CHOOSE i \in usable : \A j \in usable : i <= j
<1>1. Router!ToolFor(category) = IF usable = {} THEN Router!NoTool ELSE M[least][2]
  BY DEF Router!ToolFor
<1>2. CASE usable = {}
  BY <1>1, <1>2
<1>3. CASE usable # {}
  <2>1. DOMAIN M = 1..9
    BY DEF Router!ToolMappings
  <2>2. IsFiniteSet(1..9)
    <3>1. 1 \in Int /\ 9 \in Int
      OBVIOUS
    <3> QED BY <3>1, FS_Interval
  <2>3. usable \subseteq DOMAIN M
    OBVIOUS
  <2> HIDE DEF usable
  <2>4. usable \in SUBSET (1..9) /\ usable \subseteq Int
    BY <2>1, <2>3
  <2>5. IsFiniteSet(usable)
    BY <2>2, <2>4, FS_Subset
  <2>6. \E i \in usable : \A j \in usable : i <= j
    BY <1>3, <2>4, <2>5, LeastExists
  <2>7. least \in usable
    BY <2>6
  <2>8. least \in DOMAIN M
    BY <2>3, <2>7
  <2> HIDE DEF least
  <2>9. M[least][2] \in Router!AllTools
    <3>1. \E i \in DOMAIN M : M[least][2] = M[i][2]
      BY <2>8
    <3> HIDE DEF M
    <3>2. M[least][2] \in {M[i][2] : i \in DOMAIN M}
      BY <3>1
    <3> QED BY <3>2 DEF Router!AllTools, M
  <2> QED BY <1>1, <1>3, <2>9
<1> QED BY <1>2, <1>3

LEMMA RouterStarts == Router!Init => RouterTypes /\ RouterFits
<1> SUFFICES ASSUME Router!Init PROVE RouterTypes /\ RouterFits
  OBVIOUS
<1>1. /\ mcpTools = {} /\ reply = "none" /\ weights = Router!DefaultWeights
      /\ last = Router!NoDispatch
  BY DEF Router!Init
<1>2. DOMAIN weights = Router!Backends
  BY <1>1 DEF Router!DefaultWeights, Router!Backends
<1>3. /\ Router!Chosen(TRUE, {}) \in Router!Decision
      /\ Router!Chosen(TRUE, {}).model # "deepseek-coder"
  BY NoDispatchFits
<1>4. /\ last.request = {} /\ last.category = {} /\ last.tool = Router!NoTool
      /\ last.decision = Router!Chosen(TRUE, {}) /\ last.core = Router!Chosen(TRUE, {})
  BY <1>1 DEF Router!NoDispatch
<1>5. reply \in Router!Replies
  BY <1>1 DEF Router!Replies
<1>6. RouterTypes
  BY <1>1, <1>2, <1>3, <1>4, <1>5 DEF RouterTypes
<1>7. RouterFits
  BY <1>3, <1>4 DEF RouterFits
<1> QED BY <1>6, <1>7

LEMMA DispatchKeeps ==
  ASSUME RouterTypes, RouterFits, NEW req \in Router!Requests, Router!Dispatch(req)
  PROVE  RouterTypes' /\ RouterFits'
<1> DEFINE category == Router!Analyze(req)
<1>0. req \in SUBSET DOMAIN Router!MatchRules
  BY RequestsMatch
<1>1. category \in SUBSET Router!Categories
  BY <1>0, AnalyzeIsBest
<1>2. /\ last' = Router!Dispatched(req)
      /\ mcpTools' = mcpTools /\ weights' = weights /\ reply' = reply
  BY DEF Router!Dispatch
<1>3. /\ last'.request = req /\ last'.category = category
      /\ last'.tool = Router!ToolFor(category)
      /\ last'.decision = Router!Route(category) /\ last'.core = Router!CoreRoute(category)
  BY <1>2 DEF Router!Dispatched
<1> HIDE DEF category
<1>4. /\ Router!Route(category) \in Router!Decision
      /\ weights = Router!DefaultWeights /\ Router!Route(category).model = "deepseek-coder"
           => Router!Route(category).backend = "deepseek"
  <2> DEFINE deepseek == Router!Score("deepseek", category) >= Router!Score("kimi", category)
  <2>1. Router!Route(category) = Router!Chosen(deepseek, category)
    BY DEF Router!Route
  <2>3. weights = Router!DefaultWeights /\ "code" \in category /\ "orchestrate" \notin category
          => deepseek
    BY <1>1, CoderRouted
  <2> HIDE DEF deepseek
  <2> QED BY <2>1, <2>3, ChosenFits
<1>5. /\ Router!CoreRoute(category) \in Router!Decision
      /\ Router!CoreRoute(category).model = "deepseek-coder"
           => Router!CoreRoute(category).backend = "deepseek"
  <2> DEFINE deepseek == Router!CoreScore("deepseek", category)
                           >= Router!CoreScore("kimi", category)
  <2>1. Router!CoreRoute(category) = Router!Chosen(deepseek, category)
    BY DEF Router!CoreRoute
  <2>3. "code" \in category /\ "orchestrate" \notin category => deepseek
    BY <1>1, CoderRoutedByCore
  <2> HIDE DEF deepseek
  <2> QED BY <2>1, <2>3, ChosenFits
<1>6. Router!ToolFor(category) \in Router!AllTools \cup {Router!NoTool}
  BY ToolFound
<1>7. RouterTypes'
  BY <1>0, <1>1, <1>2, <1>3, <1>4, <1>5, <1>6 DEF RouterTypes
<1>8. RouterFits'
  <2>1. last'.category = Router!Analyze(last'.request)
    BY <1>3 DEF category
  <2> QED BY <1>2, <1>3, <1>4, <1>5, <2>1 DEF RouterFits
<1> QED BY <1>7, <1>8

LEMMA RouterNext ==
  RouterTypes /\ RouterFits /\ [Router!Next]_(Router!routerVars) => RouterTypes' /\ RouterFits'
<1> SUFFICES ASSUME RouterTypes, RouterFits, [Router!Next]_(Router!routerVars)
             PROVE  RouterTypes' /\ RouterFits'
  OBVIOUS
<1>0. /\ Router!Chosen(TRUE, {}) \in Router!Decision
      /\ Router!Chosen(TRUE, {}).model # "deepseek-coder"
  BY NoDispatchFits
<1>1. CASE UNCHANGED Router!routerVars
  BY <1>1 DEF Router!routerVars, RouterTypes, RouterFits
<1>2. CASE Router!RouterInit
  BY <1>2 DEF Router!RouterInit, RouterTypes, RouterFits
<1>3. ASSUME NEW tool \in Removable, Router!ToolUnregister(tool)
      PROVE  RouterTypes' /\ RouterFits'
  BY <1>3 DEF Router!ToolUnregister, RouterTypes, RouterFits
<1>4. CASE Router!Taken
  <2>1. /\ last'.request = {} /\ last'.category = {} /\ last'.tool = Router!NoTool
        /\ last'.decision = Router!Chosen(TRUE, {}) /\ last'.core = Router!Chosen(TRUE, {})
        /\ reply' = "none" /\ mcpTools' = mcpTools /\ weights' = weights
    BY <1>4 DEF Router!Taken, Router!NoDispatch
  <2>2. reply' \in Router!Replies
    BY <2>1 DEF Router!Replies
  <2>3. RouterTypes'
    BY <1>0, <2>1, <2>2 DEF RouterTypes
  <2>4. RouterFits'
    BY <1>0, <2>1 DEF RouterFits
  <2> QED BY <2>3, <2>4
<1>5. ASSUME NEW b \in Router!Backends,
             NEW w \in {Router!DefaultWeights[b], Router!EvenWeights}, Router!SetWeights(b, w)
      PROVE  RouterTypes' /\ RouterFits'
  <2>1. /\ last = Router!NoDispatch /\ last' = last /\ mcpTools' = mcpTools /\ reply' = reply
        /\ weights' = [weights EXCEPT ![b] = w]
    BY <1>5 DEF Router!SetWeights, Router!Idle
  <2>2. /\ last.request = {}
        /\ last.decision = Router!Chosen(TRUE, {}) /\ last.core = Router!Chosen(TRUE, {})
    BY <2>1 DEF Router!NoDispatch
  <2>3. /\ DOMAIN weights' = Router!Backends
        /\ \A x \in Router!Backends :
             weights'[x] \in {Router!DefaultWeights[x], Router!EvenWeights}
    BY <2>1 DEF RouterTypes
  <2> QED BY <1>0, <2>1, <2>2, <2>3 DEF RouterTypes, RouterFits
<1>6. ASSUME NEW jsonrpc, NEW hasMethod, NEW hasName,
             Router!HandleMessage(jsonrpc, hasMethod, hasName)
      PROVE  RouterTypes' /\ RouterFits'
  <2>1. reply' \in Router!Replies
    BY <1>6 DEF Router!HandleMessage, Router!Answers, Router!Replies
  <2> QED BY <1>6, <2>1 DEF Router!HandleMessage, RouterTypes, RouterFits
<1> QED BY <1>1, <1>2, <1>3, <1>4, <1>5, <1>6, DispatchKeeps DEF Router!Next

LEMMA RouterKept == Spec => [](RouterTypes /\ RouterFits)
  BY RouterStarts, RouterNext, PartsFollowTheirSpecs, PTL DEF Router!Spec

(* Property RoutesFit: whatever keywords a request holds it goes to the         *)
(* categories of its best rules; the DeepSeek coder is never asked of Kimi, in  *)
(* the skill router with its default weights and in the MCP core; and the       *)
(* gateway asks its backend for a model of its own.  (That the skill router     *)
(* does too is false: SkillRouter's ModelOfBackend.)                            *)
THEOREM RoutesTheorem == Spec => []RoutesFit
<1>1. RouterTypes /\ RouterFits => Router!AnalyzeKeepsBest
  <2> SUFFICES ASSUME RouterTypes, RouterFits, last.request # {}
               PROVE  LET best == Router!Max({Router!MatchRules[i].priority : i \in last.request})
                      IN  last.category = {Router!MatchRules[i].category :
                            i \in {j \in last.request : Router!MatchRules[j].priority = best}}
    BY DEF Router!AnalyzeKeepsBest
  <2>1. PICK req \in SUBSET DOMAIN Router!MatchRules :
          req = last.request /\ last.category = Router!Analyze(req)
    BY DEF RouterTypes, RouterFits
  <2> QED BY <2>1, AnalyzeIsBest
<1>2. RouterFits => Router!CoderStaysWithDeepSeek
  BY DEF RouterFits, Router!CoderStaysWithDeepSeek
<1>3. Router!AnalyzeKeepsBest /\ Router!CoderStaysWithDeepSeek /\ Client!ModelFitsBackend
        => RoutesFit
  BY DEF RoutesFit
<1> QED BY <1>1, <1>2, <1>3, RouterKept, ModelTheorem, PTL

(* The types of SkillRouter: a dispatch ends with a tool and two decisions.     *)
THEOREM RouterTypeCorrect == Spec => []Router!TypeOK
<1>1. RouterTypes => Router!TypeOK
  BY DEF RouterTypes, Router!TypeOK
<1> QED BY <1>1, RouterKept, PTL

---------------------------------------------------------------------------
(* KernelCaches *)

(* Records named by distinct keys: no two stand for the same.                   *)
PageInv ==
  /\ history \in Seq([page : Pages, count : 1..3]) /\ Len(history) <= History
  /\ predicted \in Seq(Pages)
  /\ \A i, j \in DOMAIN history : history[i].page = history[j].page => i = j

(* Dropping the last of a sequence.                                             *)
LEMMA FrontFacts ==
  ASSUME NEW S, NEW s \in Seq(S), Len(s) > 0
  PROVE  /\ Caches!Front(s) \in Seq(S) /\ Len(Caches!Front(s)) = Len(s) - 1
         /\ \A i \in 1..Len(s) - 1 : Caches!Front(s)[i] = s[i]
<1> DEFINE n == Len(s) - 1
<1>1. 1 \in 1..Len(s) + 1 /\ n \in 0..Len(s) /\ Len(s) \in Nat
  BY LenProperties
<1>2. /\ SubSeq(s, 1, n) \in Seq(S)
      /\ Len(SubSeq(s, 1, n)) = IF 1 <= n THEN n - 1 + 1 ELSE 0
      /\ \A i \in 1..n - 1 + 1 : SubSeq(s, 1, n)[i] = s[1 + i - 1]
  BY <1>1, SubSeqProperties
<1> DEFINE f == SubSeq(s, 1, n)
<1> HIDE DEF f
<1>3. Len(f) = n
  <2>1. (IF 1 <= n THEN n - 1 + 1 ELSE 0) = n
    <3>1. n \in Nat
      BY <1>1
    <3> HIDE DEF n
    <3> QED BY <3>1
  <2>2. Len(f) = IF 1 <= n THEN n - 1 + 1 ELSE 0
    BY <1>2 DEF f
  <2> HIDE DEF n
  <2> QED BY <2>1, <2>2
<1>4. ASSUME NEW i \in 1..n PROVE f[i] = s[i]
  <2>1. 1 + i - 1 = i /\ n - 1 + 1 = n
    BY <1>1
  <2>2. f[i] = s[1 + i - 1]
    BY <1>2, <2>1 DEF f
  <2> QED BY <2>1, <2>2
<1> QED BY <1>2, <1>3, <1>4 DEF Caches!Front, f

(* A record put before a sequence that was cut to make room.                    *)
LEMMA RoomFacts ==
  ASSUME NEW S, NEW s \in Seq(S), NEW size \in Nat \ {0}, Len(s) <= size
  PROVE  /\ Caches!Room(s, size) \in Seq(S)
         /\ Len(Caches!Room(s, size)) < size /\ Len(Caches!Room(s, size)) <= Len(s)
         /\ \A i \in DOMAIN Caches!Room(s, size) :
              i \in DOMAIN s /\ Caches!Room(s, size)[i] = s[i]
<1>0. Len(s) \in Nat /\ DOMAIN s = 1..Len(s)
  BY LenProperties
<1>1. CASE Len(s) >= size
  <2>0. Len(s) = size
    <3>1. \A a, b \in Nat : a <= b /\ a >= b => a = b
      OBVIOUS
    <3> QED BY <1>0, <1>1, <3>1, Zenon
  <2>1. Caches!Room(s, size) = Caches!Front(s) /\ Len(s) = size
    BY <1>1, <2>0 DEF Caches!Room
  <2>2. /\ Caches!Front(s) \in Seq(S) /\ Len(Caches!Front(s)) = Len(s) - 1
        /\ \A i \in 1..Len(s) - 1 : Caches!Front(s)[i] = s[i]
    BY <1>0, <2>1, FrontFacts
  <2>3. DOMAIN Caches!Front(s) = 1..Len(s) - 1
    BY <2>2, LenProperties
  <2> QED BY <1>0, <2>1, <2>2, <2>3
<1>2. CASE ~(Len(s) >= size)
  <2>1. Caches!Room(s, size) = s
    BY <1>2 DEF Caches!Room
  <2> QED BY <1>0, <1>2, <2>1
<1> QED BY <1>1, <1>2

LEMMA PutFirst ==
  ASSUME NEW S, NEW s \in Seq(S), NEW e \in S
  PROVE  /\ <<e>> \o s \in Seq(S) /\ Len(<<e>> \o s) = Len(s) + 1
         /\ DOMAIN (<<e>> \o s) = 1..Len(s) + 1
         /\ (<<e>> \o s)[1] = e
         /\ \A i \in 2..Len(s) + 1 : (<<e>> \o s)[i] = s[i - 1]
<1>1. <<e>> \in Seq(S) /\ Len(<<e>>) = 1 /\ <<e>>[1] = e
  OBVIOUS
<1>2. /\ <<e>> \o s \in Seq(S) /\ Len(<<e>> \o s) = 1 + Len(s)
      /\ \A i \in 1..1 + Len(s) :
           (<<e>> \o s)[i] = IF i <= 1 THEN <<e>>[i] ELSE s[i - 1]
  BY <1>1, ConcatProperties
<1>3. Len(s) \in Nat
  BY LenProperties
<1>4. DOMAIN (<<e>> \o s) = 1..Len(<<e>> \o s)
  BY <1>2, LenProperties
<1> QED BY <1>1, <1>2, <1>3, <1>4

(* The function by which FoldLeft collects the hot pages.                       *)
HotStep(max, hot, e) == IF Len(hot) < max /\ e.count >= 3 THEN Append(hot, e.page) ELSE hot
HotOf(max, records_) ==
  CHOOSE g : g = [s \in SUBSET DOMAIN records_ |->
    IF s = {} THEN <<>>
    ELSE IF Len(g[s \ {Greatest(s)}]) < max /\ records_[Greatest(s)].count >= 3
         THEN Append(g[s \ {Greatest(s)}], records_[Greatest(s)].page)
         ELSE g[s \ {Greatest(s)}]]

LEMMA HotTyped ==
  ASSUME NEW list \in Seq([page : Pages, count : 1..3]), NEW max
  PROVE  HotOf(max, list)[DOMAIN list] \in Seq(Pages)
<1> DEFINE S == DOMAIN list
           c == [s \in SUBSET S |-> Greatest(s)]
           h == [i \in S |-> [x \in Seq(Pages) |-> HotStep(max, x, list[i])]]
           Unfolds(g) == g = [s \in SUBSET S |->
             IF s = {} THEN <<>>
             ELSE IF Len(g[s \ {Greatest(s)}]) < max /\ list[Greatest(s)].count >= 3
                  THEN Append(g[s \ {Greatest(s)}], list[Greatest(s)].page)
                  ELSE g[s \ {Greatest(s)}]]
           iter == HotOf(max, list)
<1>1. /\ Len(list) \in Nat /\ S = 1..Len(list)
      /\ \A i \in S : list[i] \in [page : Pages, count : 1..3]
  BY LenProperties, ElementOfSeq
<1>2. Picks(c, S)
  BY <1>1, GreatestExists DEF Picks
<1>3. \A i \in S, x \in Seq(Pages) : HotStep(max, x, list[i]) \in Seq(Pages)
  <2> SUFFICES ASSUME NEW i \in S, NEW x \in Seq(Pages)
               PROVE  HotStep(max, x, list[i]) \in Seq(Pages)
    OBVIOUS
  <2>1. list[i].page \in Pages
    BY <1>1
  <2>2. Append(x, list[i].page) \in Seq(Pages)
    BY <2>1, AppendProperties
  <2> QED BY <2>2 DEF HotStep
<1>4. h \in [S -> [Seq(Pages) -> Seq(Pages)]]
  BY <1>3
<1>5. IsFiniteSet(S)
  <2>1. 1 \in Int /\ Len(list) \in Int
    BY <1>1
  <2>2. IsFiniteSet(1..Len(list))
    BY <2>1, FS_Interval
  <2> QED BY <1>1, <2>2
<1>b. <<>> \in Seq(Pages)
  BY EmptySeq
<1>6. PICK g : IsFold(g, S, Seq(Pages), <<>>, h, c)
  <2> HIDE DEF c, h, S
  <2> QED BY <1>2, <1>4, <1>5, <1>b, FoldExists
<1>7. Unfolds(g)
  <2>1. ASSUME NEW s \in SUBSET S, s # {}
        PROVE  g[s] = HotStep(max, g[s \ {Greatest(s)}], list[Greatest(s)])
    <3>1. c[s] \in S /\ g[s \ {c[s]}] \in Seq(Pages) /\ g[s] = h[c[s]][g[s \ {c[s]}]]
      <4> HIDE DEF c, h, S
      <4> QED BY <1>2, <1>6, <2>1 DEF IsFold, Picks
    <3> QED BY <2>1, <3>1
  <2>2. g \in [SUBSET S -> Seq(Pages)] /\ g[{}] = <<>>
    BY <1>6 DEF IsFold
  <2> HIDE DEF c, h, S
  <2>3. \A s \in SUBSET S : g[s] = IF s = {} THEN <<>>
          ELSE HotStep(max, g[s \ {Greatest(s)}], list[Greatest(s)])
    BY <2>1, <2>2
  <2>4. g = [s \in SUBSET S |-> IF s = {} THEN <<>>
               ELSE HotStep(max, g[s \ {Greatest(s)}], list[Greatest(s)])]
    BY <2>2, <2>3
  <2> QED BY <2>4 DEF HotStep
<1>8. Unfolds(iter)
  <2>1. iter = CHOOSE k : Unfolds(k)
    BY DEF HotOf
  <2> HIDE DEF Unfolds, iter
  <2> QED BY <1>7, <2>1
<1>u. \A s \in SUBSET S : iter[s] = IF s = {} THEN <<>>
        ELSE HotStep(max, iter[s \ {Greatest(s)}], list[Greatest(s)])
  <2> HIDE DEF iter, S
  <2> QED BY <1>8 DEF HotStep
<1> HIDE DEF iter, Unfolds, S, c, h
<1> DEFINE T == {U \in SUBSET S : iter[U] \in Seq(Pages)}
<1>9. ASSUME NEW U \in SUBSET S, \A V \in SUBSET U : V # U => V \in T PROVE U \in T
  <2>1. CASE U = {}
    <3>1. iter[U] = <<>>
      BY <1>u, <2>1
    <3> QED BY <1>b, <3>1
  <2>2. CASE U # {}
    <3>1. Greatest(U) \in U
      BY <1>1, <2>2, GreatestExists
    <3>2. iter[U \ {Greatest(U)}] \in Seq(Pages)
      BY <1>9, <3>1
    <3>3. iter[U] = HotStep(max, iter[U \ {Greatest(U)}], list[Greatest(U)])
      BY <1>u, <2>2
    <3> QED BY <1>3, <3>1, <3>2, <3>3
  <2> QED BY <2>1, <2>2
<1> HIDE DEF T
<1>10. SUBSET S \subseteq T
  BY <1>5, <1>9, SubsetInduction
<1>11. S \in T
  BY <1>10
<1> QED BY <1>11 DEF T, S, iter

LEMMA PagesStart == Caches!Init => PageInv
<1> SUFFICES ASSUME Caches!Init PROVE PageInv
  OBVIOUS
<1>1. history = <<>> /\ predicted = <<>>
  BY DEF Caches!Init
<1>2. History \in Nat
  BY ServicesAssumption DEF Caches!CachesAssumption
<1> QED BY <1>1, <1>2 DEF PageInv

(* A new record with a name of its own, before what room was left for.          *)
NamedOnce(s, name) == \A i, j \in DOMAIN s : name[s[i]] = name[s[j]] => i = j

LEMMA RoomNamedOnce ==
  ASSUME NEW S, NEW s \in Seq(S), NEW size \in Nat \ {0}, Len(s) <= size, NEW name,
         NamedOnce(s, name)
  PROVE  NamedOnce(Caches!Room(s, size), name)
BY RoomFacts DEF NamedOnce

LEMMA PutFirstNamedOnce ==
  ASSUME NEW S, NEW s \in Seq(S), NEW e \in S, NEW name, NamedOnce(s, name),
         \A i \in DOMAIN s : name[s[i]] # name[e]
  PROVE  NamedOnce(<<e>> \o s, name)
<1> DEFINE r == <<e>> \o s
<1>1. /\ DOMAIN r = 1..Len(s) + 1 /\ r[1] = e /\ \A i \in 2..Len(s) + 1 : r[i] = s[i - 1]
      /\ Len(s) \in Nat /\ DOMAIN s = 1..Len(s)
  BY PutFirst, LenProperties
<1> HIDE DEF r
<1>2. ASSUME NEW i \in DOMAIN r PROVE i = 1 \/ (i \in 2..Len(s) + 1 /\ i - 1 \in DOMAIN s)
  BY <1>1
<1>3. ASSUME NEW i \in DOMAIN r, NEW j \in DOMAIN r, name[r[i]] = name[r[j]]
      PROVE  i = j
  <2>1. CASE i = 1 /\ j = 1
    BY <2>1
  <2>2. CASE i = 1 /\ j # 1
    <3>1. r[i] = e /\ j - 1 \in DOMAIN s /\ r[j] = s[j - 1]
      BY <1>1, <1>2, <2>2
    <3> QED BY <1>3, <3>1
  <2>3. CASE i # 1 /\ j = 1
    <3>1. r[j] = e /\ i - 1 \in DOMAIN s /\ r[i] = s[i - 1]
      BY <1>1, <1>2, <2>3
    <3> QED BY <1>3, <3>1
  <2>4. CASE i # 1 /\ j # 1
    <3>1. j - 1 \in DOMAIN s /\ r[j] = s[j - 1] /\ i - 1 \in DOMAIN s /\ r[i] = s[i - 1]
      BY <1>1, <1>2, <2>4
    <3>2. i - 1 = j - 1
      BY <1>3, <3>1 DEF NamedOnce
    <3>3. i \in Int /\ j \in Int
      BY <1>1
    <3> QED BY <3>2, <3>3
  <2> QED BY <2>1, <2>2, <2>3, <2>4
<1> QED BY <1>3 DEF NamedOnce, r

(* The pages and the hosts of records.                                          *)
PageRecords == [page : Pages, count : 1..3]
PageName == [e \in PageRecords |-> e.page]

LEMMA PagesNamed ==
  PageInv <=> /\ history \in Seq(PageRecords) /\ Len(history) <= History
              /\ predicted \in Seq(Pages) /\ NamedOnce(history, PageName)
<1>1. ASSUME history \in Seq(PageRecords)
      PROVE  \A i \in DOMAIN history : PageName[history[i]] = history[i].page
  <2>1. \A i \in DOMAIN history : history[i] \in PageRecords
    BY <1>1, LenProperties, ElementOfSeq
  <2> QED BY <2>1 DEF PageName
<1> QED BY <1>1 DEF PageInv, PageRecords, NamedOnce

LEMMA CountedTyped ==
  ASSUME history \in Seq(PageRecords), NEW page
  PROVE  /\ Caches!Counted(page) \in Seq(PageRecords)
         /\ Len(Caches!Counted(page)) = Len(history)
         /\ DOMAIN Caches!Counted(page) = DOMAIN history
         /\ \A i \in DOMAIN history : Caches!Counted(page)[i].page = history[i].page
<1> DEFINE more(e) == IF e.page = page /\ e.count < 3 THEN [e EXCEPT !.count = @ + 1] ELSE e
           f == [i \in DOMAIN history |-> more(history[i])]
<1>0. Len(history) \in Nat /\ DOMAIN history = 1..Len(history)
      /\ \A i \in DOMAIN history : history[i] \in PageRecords
  BY LenProperties, ElementOfSeq
<1>1. ASSUME NEW e \in PageRecords PROVE more(e) \in PageRecords /\ more(e).page = e.page
  BY DEF PageRecords
<1>2. Caches!Counted(page) = f
  BY DEF Caches!Counted, Caches!Hot
<1>3. \A i \in DOMAIN history : f[i] = more(history[i])
  OBVIOUS
<1>4. f \in [1..Len(history) -> PageRecords] /\ DOMAIN f = DOMAIN history
  BY <1>0, <1>1
<1>5. \A i \in DOMAIN history : f[i].page = history[i].page
  BY <1>0, <1>1, <1>3
<1> HIDE DEF f, more
<1>6. f \in Seq(PageRecords)
  BY <1>0, <1>4, FunctionIsSeq
<1>7. Len(f) = Len(history)
  BY <1>0, <1>4, <1>6, LenProperties
<1> QED BY <1>2, <1>4, <1>5, <1>6, <1>7

LEMMA PagesStep == PageInv /\ [Caches!PageHistory]_(Caches!pageVars) => PageInv'
<1> SUFFICES ASSUME PageInv, [Caches!PageHistory]_(Caches!pageVars) PROVE PageInv'
  OBVIOUS
<1>0. History \in Nat \ {0}
  BY ServicesAssumption DEF Caches!CachesAssumption
<1>1. CASE UNCHANGED Caches!pageVars
  BY <1>1 DEF Caches!pageVars, PageInv
<1>2. ASSUME NEW page \in Pages, Caches!RecordAccess(page) PROVE PageInv'
  <2>1. predicted' = predicted
    BY <1>2 DEF Caches!RecordAccess
  <2>2. CASE history' = Caches!Counted(page)
    <3>1. history \in Seq(PageRecords)
      BY DEF PageInv, PageRecords
    <3> QED BY <2>1, <2>2, <3>1, CountedTyped DEF PageInv, PageRecords
  <2> DEFINE rest == Caches!Room(history, History)
             new == [page |-> page, count |-> 1]
  <2>3. /\ history \in Seq(PageRecords) /\ Len(history) <= History
        /\ predicted \in Seq(Pages) /\ NamedOnce(history, PageName)
    BY PagesNamed
  <2>4. /\ rest \in Seq(PageRecords) /\ Len(rest) < History /\ NamedOnce(rest, PageName)
        /\ \A i \in DOMAIN rest : i \in DOMAIN history /\ rest[i] = history[i]
        /\ Len(rest) \in Nat
    BY <1>0, <2>3, RoomFacts, RoomNamedOnce, LenProperties
  <2>5. CASE history' = rest
    <3>1. Len(rest) <= History
      <4> HIDE DEF rest
      <4> QED BY <1>0, <2>4
    <3>2. rest \in Seq(PageRecords) /\ NamedOnce(rest, PageName) /\ predicted' \in Seq(Pages)
      BY <2>1, <2>3, <2>4
    <3> HIDE DEF rest
    <3>3. (/\ history \in Seq(PageRecords) /\ Len(history) <= History
           /\ predicted \in Seq(Pages) /\ NamedOnce(history, PageName))'
      BY <2>5, <3>1, <3>2
    <3> QED BY <3>3, PagesNamed, PTL
  <2>6. CASE history' = <<new>> \o rest /\ \A i \in DOMAIN history : history[i].page # page
    <3> HIDE DEF rest
    <3>1. new \in PageRecords /\ PageName[new] = page
      BY DEF PageRecords, PageName
    <3>2. \A i \in DOMAIN rest : PageName[rest[i]] # PageName[new]
      <4>1. \A i \in DOMAIN history : history[i] \in PageRecords
        BY <2>3, LenProperties, ElementOfSeq
      <4> QED BY <2>4, <2>6, <3>1, <4>1 DEF PageName
    <3> HIDE DEF new
    <3>3. <<new>> \o rest \in Seq(PageRecords) /\ Len(<<new>> \o rest) = Len(rest) + 1
          /\ NamedOnce(<<new>> \o rest, PageName)
      BY <2>4, <3>1, <3>2, PutFirst, PutFirstNamedOnce
    <3>4. Len(rest) + 1 <= History
      BY <1>0, <2>4
    <3>5. (/\ history \in Seq(PageRecords) /\ Len(history) <= History
           /\ predicted \in Seq(Pages) /\ NamedOnce(history, PageName))'
      BY <2>1, <2>3, <2>6, <3>3, <3>4
    <3> QED BY <3>5, PagesNamed, PTL
  <2> QED BY <1>2, <2>2, <2>5, <2>6 DEF Caches!RecordAccess
<1>3. ASSUME NEW max \in 1..History, Caches!Predict(max) PROVE PageInv'
  <2>1. predicted' = Caches!HotPages(max) /\ history' = history
    BY <1>3 DEF Caches!Predict
  <2>2. Caches!HotPages(max) = HotOf(max, history)[DOMAIN history]
    BY DEF HotOf, Caches!HotPages, Caches!Hot, Caches!FoldLeft, Caches!MapThenFoldSet,
           Caches!Max, Greatest
  <2>3. HotOf(max, history)[DOMAIN history] \in Seq(Pages)
    <3>1. PICK list \in Seq([page : Pages, count : 1..3]) : list = history
      BY DEF PageInv
    <3>2. HotOf(max, list)[DOMAIN list] \in Seq(Pages)
      BY HotTyped
    <3> QED BY <3>1, <3>2
  <2>4. predicted' \in Seq(Pages)
    BY <2>1, <2>2, <2>3
  <2> QED BY <2>1, <2>4 DEF PageInv
<1> QED BY <1>1, <1>2, <1>3 DEF Caches!PageHistory

(* The element at p moved to the front of s.                                    *)
MovedUp(s, p) == <<s[p]>> \o Caches!RemoveAt(s, p)

LEMMA RemoveAtFacts ==
  ASSUME NEW S, NEW s \in Seq(S), NEW p \in 1..Len(s)
  PROVE  /\ Caches!RemoveAt(s, p) \in Seq(S)
         /\ Len(Caches!RemoveAt(s, p)) = Len(s) - 1
         /\ \A i \in 1..Len(s) - 1 :
              Caches!RemoveAt(s, p)[i] = IF i < p THEN s[i] ELSE s[i + 1]
<1> DEFINE n == Len(s)
           f == SubSeq(s, 1, p - 1)
           b == SubSeq(s, p + 1, n)
<1>0. n \in Nat /\ p \in Nat /\ p >= 1 /\ p <= n
  BY LenProperties
<1>1. f \in Seq(S) /\ Len(f) = p - 1 /\ \A i \in 1..p - 1 : f[i] = s[i]
  <2>1. 1 \in 1..n + 1 /\ p - 1 \in 0..n
    BY <1>0
  <2>2. /\ f \in Seq(S) /\ Len(f) = IF 1 <= p - 1 THEN p - 1 - 1 + 1 ELSE 0
        /\ \A i \in 1..p - 1 - 1 + 1 : f[i] = s[1 + i - 1]
    BY <2>1, SubSeqProperties
  <2> HIDE DEF f
  <2>3. (IF 1 <= p - 1 THEN p - 1 - 1 + 1 ELSE 0) = p - 1 /\ p - 1 - 1 + 1 = p - 1
        /\ \A i \in 1..p - 1 : 1 + i - 1 = i
    BY <1>0
  <2> QED BY <2>2, <2>3
<1>2. b \in Seq(S) /\ Len(b) = n - p /\ \A i \in 1..n - p : b[i] = s[p + i]
  <2>1. p + 1 \in 1..n + 1 /\ n \in 0..n
    BY <1>0
  <2>2. /\ b \in Seq(S) /\ Len(b) = IF p + 1 <= n THEN n - (p + 1) + 1 ELSE 0
        /\ \A i \in 1..n - (p + 1) + 1 : b[i] = s[p + 1 + i - 1]
    BY <2>1, SubSeqProperties
  <2> HIDE DEF b
  <2>3. (IF p + 1 <= n THEN n - (p + 1) + 1 ELSE 0) = n - p /\ n - (p + 1) + 1 = n - p
        /\ \A i \in 1..n - p : p + 1 + i - 1 = p + i
    <3> HIDE DEF n
    <3> QED BY <1>0
  <2> HIDE DEF n
  <2> QED BY <2>2, <2>3
<1>3. /\ f \o b \in Seq(S) /\ Len(f \o b) = Len(f) + Len(b)
      /\ \A i \in 1..Len(f) + Len(b) :
           (f \o b)[i] = IF i <= Len(f) THEN f[i] ELSE b[i - Len(f)]
  <2> HIDE DEF f, b
  <2> QED BY <1>1, <1>2, ConcatProperties
<1>4. Caches!RemoveAt(s, p) = f \o b
  BY DEF Caches!RemoveAt
<1> DEFINE r == f \o b
<1> HIDE DEF f, b, n, r
<1>5. r \in Seq(S) /\ Len(r) = n - 1
  BY <1>0, <1>1, <1>2, <1>3 DEF r
<1>6. ASSUME NEW i \in 1..n - 1
      PROVE  r[i] = IF i < p THEN s[i] ELSE s[i + 1]
  <2>1. r[i] = IF i <= p - 1 THEN f[i] ELSE b[i - (p - 1)]
    <3>1. i \in 1..Len(f) + Len(b)
      BY <1>0, <1>1, <1>2
    <3> QED BY <1>1, <1>3, <3>1 DEF r
  <2>2. CASE i < p
    <3>1. i <= p - 1 /\ i \in 1..p - 1
      BY <1>0, <2>2
    <3> QED BY <1>1, <2>1, <2>2, <3>1
  <2>3. CASE ~(i < p)
    <3>1. ~(i <= p - 1) /\ i - (p - 1) \in 1..n - p /\ p + (i - (p - 1)) = i + 1
      BY <1>0, <2>3
    <3> QED BY <1>2, <2>1, <2>3, <3>1
  <2> QED BY <2>2, <2>3
<1> QED BY <1>4, <1>5, <1>6 DEF r, n

LEMMA MovedUpFacts ==
  ASSUME NEW S, NEW s \in Seq(S), NEW p \in 1..Len(s), NEW name, NamedOnce(s, name)
  PROVE  /\ MovedUp(s, p) \in Seq(S) /\ Len(MovedUp(s, p)) = Len(s)
         /\ NamedOnce(MovedUp(s, p), name)
<1> DEFINE n == Len(s)
           rest == Caches!RemoveAt(s, p)
           r == MovedUp(s, p)
           from(i) == IF i = 1 THEN p ELSE IF i - 1 < p THEN i - 1 ELSE i
<1>0. n \in Nat /\ p \in Nat /\ p >= 1 /\ p <= n /\ DOMAIN s = 1..n /\ s[p] \in S
  BY LenProperties, ElementOfSeq
<1>1. rest \in Seq(S) /\ Len(rest) = n - 1
      /\ \A i \in 1..n - 1 : rest[i] = IF i < p THEN s[i] ELSE s[i + 1]
  BY RemoveAtFacts
<1> HIDE DEF rest, n
<1>2. /\ r \in Seq(S) /\ Len(r) = n - 1 + 1 /\ DOMAIN r = 1..n - 1 + 1
      /\ r[1] = s[p] /\ \A i \in 2..n - 1 + 1 : r[i] = rest[i - 1]
  <2>1. r = <<s[p]>> \o rest
    BY DEF MovedUp, rest
  <2> HIDE DEF r
  <2> QED BY <1>0, <1>1, <2>1, PutFirst
<1> HIDE DEF r
<1>3. Len(r) = n /\ DOMAIN r = 1..n
  <2>1. n - 1 + 1 = n
    BY <1>0
  <2> QED BY <1>2, <2>1
<1>4. ASSUME NEW i \in 1..n PROVE from(i) \in 1..n /\ r[i] = s[from(i)]
  <2>1. CASE i = 1
    BY <1>0, <1>2, <2>1
  <2>2. CASE i # 1
    <3>1. i \in 2..n - 1 + 1 /\ i - 1 \in 1..n - 1 /\ i - 1 + 1 = i
      BY <1>0, <2>2
    <3>2. r[i] = IF i - 1 < p THEN s[i - 1] ELSE s[i]
      BY <1>1, <1>2, <3>1
    <3> QED BY <1>0, <2>2, <3>1, <3>2
  <2> QED BY <2>1, <2>2
<1>5. ASSUME NEW i \in 1..n, NEW j \in 1..n, from(i) = from(j) PROVE i = j
  BY <1>0, <1>5
<1>6. ASSUME NEW i \in 1..n, NEW j \in 1..n, name[r[i]] = name[r[j]] PROVE i = j
  <2>1. name[s[from(i)]] = name[s[from(j)]]
    BY <1>4, <1>6
  <2>2. from(i) \in 1..n /\ from(j) \in 1..n
    BY <1>4
  <2>3. from(i) = from(j)
    <3> HIDE DEF from
    <3> QED BY <1>0, <2>1, <2>2 DEF NamedOnce
  <2> HIDE DEF from
  <2> QED BY <1>5, <2>3
<1>7. NamedOnce(r, name)
  BY <1>3, <1>6 DEF NamedOnce
<1> QED BY <1>2, <1>3, <1>7 DEF r, n

DnsRecords == [host : Hosts, address : Addresses, expires : Caches!Expiry]
HostName == [e \in DnsRecords |-> e.host]
Decided == [file : Files, decision : Decisions, expires : Caches!Expiry]
Insertions == [file : Files \cup {NoFile}, decision : Decisions, expires : Caches!Expiry]

RecordInv ==
  /\ lsm \in Seq(Decided) /\ inserter \in [Inserters -> Insertions]
  /\ dns \in Seq(DnsRecords) /\ Len(dns) <= DnsSize /\ NamedOnce(dns, HostName)
  /\ clock \in 0..MaxClock

(* An entry made now has a time to expire at.                                   *)
LEMMA ExpiryOf ==
  ASSUME NEW now \in 0..MaxClock
  PROVE  now + Lifetime \in Caches!Expiry /\ 0 \in Caches!Expiry
<1>1. Lifetime \in Nat /\ MaxClock \in Nat
  BY ServicesAssumption DEF Caches!CachesAssumption
<1> QED BY <1>1 DEF Caches!Expiry

LEMMA NoEntryTyped == Caches!NoEntry \in Insertions
<1>1. (CHOOSE d \in Decisions : TRUE) \in Decisions
  BY ServicesAssumption DEF Caches!CachesAssumption
<1>2. 0 \in Caches!Expiry
  <2>1. 0 \in 0..MaxClock
    BY ServicesAssumption DEF Caches!CachesAssumption
  <2> QED BY <2>1, ExpiryOf
<1> QED BY <1>1, <1>2 DEF Caches!NoEntry, Insertions

LEMMA RecordsStart == Caches!Init => RecordInv
<1> SUFFICES ASSUME Caches!Init PROVE RecordInv
  OBVIOUS
<1>1. lsm = <<>> /\ dns = <<>> /\ clock = 0 /\ inserter = [i \in Inserters |-> Caches!NoEntry]
  BY DEF Caches!Init
<1>2. DnsSize \in Nat /\ MaxClock \in Nat
  BY ServicesAssumption DEF Caches!CachesAssumption
<1>3. inserter \in [Inserters -> Insertions]
  BY <1>1, NoEntryTyped
<1>4. NamedOnce(<<>>, HostName)
  BY DEF NamedOnce
<1>5. lsm \in Seq(Decided) /\ dns \in Seq(DnsRecords) /\ Len(dns) = 0
  BY <1>1, EmptySeq
<1>6. 0 <= DnsSize /\ clock \in 0..MaxClock
  BY <1>1, <1>2
<1> QED BY <1>1, <1>3, <1>4, <1>5, <1>6 DEF RecordInv

(* A record of the same name in the place of another.                           *)
LEMMA RenewedNamedOnce ==
  ASSUME NEW S, NEW s \in Seq(S), NEW p \in 1..Len(s), NEW e \in S, NEW name,
         NamedOnce(s, name), name[e] = name[s[p]], NEW r, Changes(r, s, p, e)
  PROVE  r \in Seq(S) /\ Len(r) = Len(s) /\ NamedOnce(r, name)
<1>1. r = [s EXCEPT ![p] = e]
  BY DEF Changes
<1>2. r \in Seq(S) /\ Len(r) = Len(s)
  BY <1>1, ExceptSeq
<1>3. \A j \in 1..Len(s) : r[j] = IF j = p THEN e ELSE s[j]
  BY <1>1, ExceptSeq
<1>4. DOMAIN r = 1..Len(s) /\ DOMAIN s = 1..Len(s)
  BY <1>2, LenProperties
<1>5. \A j \in DOMAIN r : name[r[j]] = name[s[j]]
  BY <1>3, <1>4
<1>6. NamedOnce(r, name)
  BY <1>4, <1>5 DEF NamedOnce
<1> QED BY <1>2, <1>6

LEMMA DnsTypes ==
  ASSUME RecordInv
  PROVE  /\ DOMAIN dns = 1..Len(dns) /\ Len(dns) \in Nat
         /\ \A i \in DOMAIN dns : dns[i] \in DnsRecords /\ HostName[dns[i]] = dns[i].host
<1>1. dns \in Seq(DnsRecords)
  BY DEF RecordInv
<1>2. DOMAIN dns = 1..Len(dns) /\ Len(dns) \in Nat
      /\ \A i \in DOMAIN dns : dns[i] \in DnsRecords
  BY <1>1, LenProperties, ElementOfSeq
<1> QED BY <1>2 DEF HostName

(* What a step leaves the DNS cache as.                                         *)
DnsKept(d) == d \in Seq(DnsRecords) /\ Len(d) <= DnsSize /\ NamedOnce(d, HostName)

LEMMA DnsSteps ==
  ASSUME RecordInv, NEW host \in Hosts,
         Caches!DnsLookup(host) \/ \E address \in Addresses : Caches!DnsInsert(host, address)
  PROVE  DnsKept(dns') /\ UNCHANGED <<lsm, inserter, clock>>
<1> DEFINE p == Caches!Place(host)
<1>0. DnsKept(dns) /\ DnsSize \in Nat \ {0}
  BY ServicesAssumption DEF RecordInv, DnsKept, Caches!CachesAssumption
<1>1. UNCHANGED <<lsm, inserter, clock>>
  BY DEF Caches!DnsLookup, Caches!DnsInsert, Caches!lsmVars
<1>2. Caches!Named(host) # {} => p \in 1..Len(dns) /\ dns[p].host = host
  BY DnsTypes DEF Caches!Place, Caches!Named
<1>3. CASE Caches!DnsLookup(host)
  <2>1. Caches!Named(host) # {} /\ dns' = MovedUp(dns, p)
    BY <1>3 DEF Caches!DnsLookup, MovedUp
  <2> HIDE DEF p
  <2>2. MovedUp(dns, p) \in Seq(DnsRecords) /\ Len(MovedUp(dns, p)) = Len(dns)
        /\ NamedOnce(MovedUp(dns, p), HostName)
    BY <1>0, <1>2, <2>1, MovedUpFacts DEF DnsKept
  <2> QED BY <1>0, <1>1, <2>1, <2>2 DEF DnsKept
<1>4. ASSUME NEW address \in Addresses, Caches!DnsInsert(host, address)
      PROVE  DnsKept(dns')
  <2> DEFINE e == Caches!Fresh(host, address)
             rest == Caches!Room(dns, DnsSize)
  <2>1. e \in DnsRecords /\ e.host = host /\ HostName[e] = host
    <3>1. clock + Lifetime \in Caches!Expiry
      <4>1. PICK now \in 0..MaxClock : now = clock
        BY DEF RecordInv
      <4> QED BY <4>1, ExpiryOf
    <3> QED BY <3>1 DEF Caches!Fresh, DnsRecords, HostName
  <2>2. CASE Caches!Named(host) # {} /\ dns' = [dns EXCEPT ![p] = e]
    <3>1. Changes(dns', dns, p, e)
      BY <2>2 DEF Changes
    <3>2. HostName[e] = HostName[dns[p]] /\ p \in 1..Len(dns)
      BY <1>2, <2>1, <2>2, DnsTypes
    <3> HIDE DEF e, p
    <3>3. dns' \in Seq(DnsRecords) /\ Len(dns') = Len(dns) /\ NamedOnce(dns', HostName)
      BY <1>0, <2>1, <3>1, <3>2, RenewedNamedOnce DEF DnsKept
    <3> QED BY <1>0, <3>3 DEF DnsKept
  <2>3. /\ rest \in Seq(DnsRecords) /\ Len(rest) < DnsSize /\ NamedOnce(rest, HostName)
        /\ \A i \in DOMAIN rest : i \in DOMAIN dns /\ rest[i] = dns[i]
        /\ Len(rest) \in Nat
    BY <1>0, RoomFacts, RoomNamedOnce, LenProperties DEF DnsKept
  <2>4. CASE dns' = rest
    <3> HIDE DEF rest
    <3>1. Len(rest) <= DnsSize
      BY <1>0, <2>3
    <3> QED BY <2>3, <2>4, <3>1 DEF DnsKept
  <2>5. CASE Caches!Named(host) = {} /\ dns' = <<e>> \o rest
    <3> HIDE DEF rest
    <3>1. \A i \in DOMAIN dns : dns[i].host # host
      BY <2>5 DEF Caches!Named
    <3>2. \A i \in DOMAIN rest : HostName[rest[i]] # HostName[e]
      BY <2>1, <2>3, <3>1, DnsTypes
    <3> HIDE DEF e
    <3>3. <<e>> \o rest \in Seq(DnsRecords) /\ Len(<<e>> \o rest) = Len(rest) + 1
          /\ NamedOnce(<<e>> \o rest, HostName)
      BY <2>1, <2>3, <3>2, PutFirst, PutFirstNamedOnce
    <3>4. Len(rest) + 1 <= DnsSize
      BY <1>0, <2>3
    <3> QED BY <2>5, <3>3, <3>4 DEF DnsKept
  <2> QED BY <1>4, <2>2, <2>4, <2>5 DEF Caches!DnsInsert
<1> QED BY <1>1, <1>3, <1>4

LEMMA RecordsStep == RecordInv /\ [Caches!Records]_(Caches!recordVars) => RecordInv'
<1> SUFFICES ASSUME RecordInv, [Caches!Records]_(Caches!recordVars) PROVE RecordInv'
  OBVIOUS
<1>0. DnsSize \in Nat \ {0} /\ MaxClock \in Nat
  BY ServicesAssumption DEF Caches!CachesAssumption
<1>1. CASE UNCHANGED Caches!recordVars
  BY <1>1 DEF Caches!recordVars, Caches!lsmVars, RecordInv
<1>2. ASSUME NEW i \in Inserters, NEW file \in Files, NEW decision \in Decisions,
             Caches!Stamp(i, file, decision)
      PROVE  RecordInv'
  <2> DEFINE e == [file |-> file, decision |-> decision, expires |-> clock + Lifetime]
  <2>1. e \in Insertions
    <3>1. PICK now \in 0..MaxClock : now = clock
      BY DEF RecordInv
    <3>2. clock + Lifetime \in Caches!Expiry
      BY <3>1, ExpiryOf
    <3> QED BY <3>2 DEF Insertions
  <2>2. inserter' = [inserter EXCEPT ![i] = e] /\ UNCHANGED <<lsm, dns, clock>>
    BY <1>2 DEF Caches!Stamp
  <2> HIDE DEF e
  <2>3. inserter' \in [Inserters -> Insertions]
    BY <2>1, <2>2 DEF RecordInv
  <2> QED BY <2>2, <2>3 DEF RecordInv
<1>3. ASSUME NEW i \in Inserters, Caches!LinkDecision(i) PROVE RecordInv'
  <2>1. inserter' = [inserter EXCEPT ![i] = Caches!NoEntry] /\ UNCHANGED <<dns, clock>>
    BY <1>3 DEF Caches!LinkDecision
  <2>2. inserter' \in [Inserters -> Insertions]
    BY <2>1, NoEntryTyped DEF RecordInv
  <2>3. inserter[i] \in Decided
    BY <1>3 DEF Caches!LinkDecision, RecordInv, Insertions, Decided
  <2>4. lsm' = <<inserter[i]>> \o lsm
    BY <1>3 DEF Caches!LinkDecision
  <2>5. lsm' \in Seq(Decided)
    <3>1. PICK e \in Decided : e = inserter[i]
      BY <2>3
    <3> QED BY <2>4, <3>1, PutFirst DEF RecordInv
  <2> QED BY <2>1, <2>2, <2>5 DEF RecordInv
<1>4. ASSUME NEW host \in Hosts,
             Caches!DnsLookup(host) \/ \E address \in Addresses : Caches!DnsInsert(host, address)
      PROVE  RecordInv'
  <2>1. DnsKept(dns') /\ UNCHANGED <<lsm, inserter, clock>>
    BY <1>4, DnsSteps
  <2> QED BY <2>1 DEF RecordInv, DnsKept
<1>5. CASE Caches!DnsFlush
  <2>1. dns' = <<>> /\ UNCHANGED <<lsm, inserter, clock>>
    BY <1>5 DEF Caches!DnsFlush, Caches!lsmVars
  <2>2. <<>> \in Seq(DnsRecords) /\ Len(<<>>) = 0 /\ NamedOnce(<<>>, HostName)
    BY EmptySeq DEF NamedOnce
  <2>3. 0 <= DnsSize
    BY <1>0
  <2> QED BY <2>1, <2>2, <2>3 DEF RecordInv
<1>6. CASE Caches!Pass
  <2>1. clock < MaxClock /\ clock' = clock + 1 /\ UNCHANGED <<lsm, inserter, dns>>
    BY <1>6 DEF Caches!Pass, Caches!lsmVars
  <2>2. clock' \in 0..MaxClock
    BY <1>0, <2>1 DEF RecordInv
  <2> QED BY <2>1, <2>2 DEF RecordInv
<1> QED BY <1>1, <1>2, <1>3, <1>4, <1>5, <1>6 DEF Caches!Records

(* The page history and the DNS cache never hold two records of one page or     *)
(* host, nor more records than they are made for.                               *)
THEOREM CachesTheorem == Spec => [](Caches!TypeOK /\ Caches!OneRecordPerKey)
<1>1. PageInv /\ RecordInv => Caches!TypeOK /\ Caches!OneRecordPerKey
  <2> SUFFICES ASSUME PageInv, RecordInv PROVE Caches!TypeOK /\ Caches!OneRecordPerKey
    OBVIOUS
  <2>1. \A i, j \in DOMAIN dns : dns[i].host = dns[j].host => i = j
    BY DnsTypes DEF RecordInv, NamedOnce
  <2> QED BY <2>1 DEF PageInv, RecordInv, Decided, DnsRecords, Insertions, Caches!TypeOK,
                      Caches!OneRecordPerKey, Caches!Hot
<1> QED BY <1>1, PagesStart, PagesStep, RecordsStart, RecordsStep, PartsStart, EngineSteps,
           PTL DEF Spec

---------------------------------------------------------------------------
(* PageTracker: the exchange sort *)

Listing == [frame : Frames, score : 0..FullScore]

(* s lists the pages of out, each once, in whatever order.                      *)
Rearranged(s, n, out) ==
  /\ s \in [1..n -> Listing]
  /\ \A i, j \in 1..n : s[i].frame = s[j].frame => i = j
  /\ \A i \in 1..n : \E j \in 1..n : s[i] = out[j]
  /\ \A i \in 1..n : \E j \in 1..n : out[i] = s[j]

(* The first k pages of s are not behind a page with a higher score.            *)
Leading(s, n, k) == \A a \in 1..k, b \in 1..n : a < b => s[a].score >= s[b].score

(* w is s with the pages at i and j exchanged, or s.                            *)
LEMMA ExchangedCases ==
  ASSUME NEW n \in Nat, NEW s \in [1..n -> Listing], NEW i \in 1..n, NEW j \in 1..n
  PROVE  LET w == Tracker!Exchanged(s, i, j)
         IN  /\ w \in [1..n -> Listing]
             /\ IF s[j].score > s[i].score
                THEN \A x \in 1..n : w[x] = IF x = j THEN s[i] ELSE IF x = i THEN s[j] ELSE s[x]
                ELSE w = s
  BY DEF Tracker!Exchanged, Tracker!Swapped

LEMMA ExchangedRearranges ==
  ASSUME NEW n \in Nat, NEW s, NEW out, Rearranged(s, n, out), NEW i \in 1..n, NEW j \in 1..n
  PROVE  Rearranged(Tracker!Exchanged(s, i, j), n, out)
<1> DEFINE w == Tracker!Exchanged(s, i, j)
           from(x) == IF x = j THEN i ELSE IF x = i THEN j ELSE x
<1>1. s \in [1..n -> Listing]
  BY DEF Rearranged
<1>2. w \in [1..n -> Listing] /\ (w = s \/ \A x \in 1..n : w[x] = s[from(x)])
  BY <1>1, ExchangedCases
<1> HIDE DEF w
<1>3. CASE w = s
  BY <1>3 DEF w
<1>4. CASE \A x \in 1..n : w[x] = s[from(x)]
  <2>1. \A x \in 1..n : from(x) \in 1..n /\ from(from(x)) = x
    OBVIOUS
  <2> HIDE DEF from
  <2>2. ASSUME NEW x \in 1..n, NEW y \in 1..n, w[x].frame = w[y].frame PROVE x = y
    <3>1. from(x) = from(y)
      BY <1>4, <2>1, <2>2 DEF Rearranged
    <3> QED BY <2>1, <3>1
  <2>3. ASSUME NEW x \in 1..n PROVE \E y \in 1..n : w[x] = out[y]
    <3>1. PICK y \in 1..n : s[from(x)] = out[y]
      BY <2>1 DEF Rearranged
    <3> QED BY <1>4, <3>1
  <2>4. ASSUME NEW x \in 1..n PROVE \E y \in 1..n : out[x] = w[y]
    <3>1. PICK y \in 1..n : out[x] = s[y]
      BY DEF Rearranged
    <3>2. w[from(y)] = s[y]
      BY <1>4, <2>1
    <3> QED BY <2>1, <3>1, <3>2
  <2> QED BY <1>2, <2>2, <2>3, <2>4 DEF Rearranged, w
<1> QED BY <1>2, <1>3, <1>4

(* One step of a round puts the higher of two scores first, and leaves what     *)
(* stands before them.                                                          *)
LEMMA ExchangedLeads ==
  ASSUME NEW n \in Nat, NEW s \in [1..n -> Listing], NEW i \in 1..n, NEW j \in 1..n, i < j,
         Leading(s, n, i - 1), \A b \in i + 1..j - 1 : s[i].score >= s[b].score
  PROVE  LET w == Tracker!Exchanged(s, i, j)
         IN  Leading(w, n, i - 1) /\ \A b \in i + 1..j : w[i].score >= w[b].score
<1> DEFINE w == Tracker!Exchanged(s, i, j)
           sc == [x \in 1..n |-> s[x].score]
           wc == [x \in 1..n |-> w[x].score]
<1>0. \A x \in 1..n : s[x].score \in 0..FullScore
  BY DEF Listing
<1>1. sc \in [1..n -> Int]
  <2>1. FullScore \in Nat
    BY ServicesAssumption DEF Tracker!TrackerAssumption
  <2> QED BY <1>0, <2>1
<1>2. IF sc[j] > sc[i]
      THEN \A x \in 1..n : wc[x] = IF x = j THEN sc[i] ELSE IF x = i THEN sc[j] ELSE sc[x]
      ELSE wc = sc
  <2>1. IF s[j].score > s[i].score
        THEN \A x \in 1..n : w[x] = IF x = j THEN s[i] ELSE IF x = i THEN s[j] ELSE s[x]
        ELSE w = s
    BY ExchangedCases
  <2> HIDE DEF w
  <2>2. CASE s[j].score > s[i].score
    BY <2>1, <2>2
  <2>3. CASE ~(s[j].score > s[i].score)
    BY <2>1, <2>3
  <2> QED BY <2>2, <2>3
<1>3. /\ \A a \in 1..i - 1, b \in 1..n : a < b => sc[a] >= sc[b]
      /\ \A b \in i + 1..j - 1 : sc[i] >= sc[b]
  BY DEF Leading
<1> HIDE DEF w, sc
<1>4. DOMAIN wc = 1..n
  OBVIOUS
<1> HIDE DEF wc
<1>5. /\ \A a \in 1..i - 1, b \in 1..n : a < b => wc[a] >= wc[b]
      /\ \A b \in i + 1..j : wc[i] >= wc[b]
  <2>1. CASE sc[j] > sc[i]
    <3>1. \A x \in 1..n : wc[x] = IF x = j THEN sc[i] ELSE IF x = i THEN sc[j] ELSE sc[x]
      BY <1>2, <2>1
    <3>2. ASSUME NEW a \in 1..i - 1, NEW b \in 1..n, a < b PROVE wc[a] >= wc[b]
      <4>1. wc[a] = sc[a] /\ a < i /\ a < j
        BY <3>1
      <4> QED BY <1>3, <3>1, <3>2, <4>1
    <3>3. ASSUME NEW b \in i + 1..j PROVE wc[i] >= wc[b]
      <4>1. wc[i] = sc[j]
        BY <3>1
      <4>2. CASE b = j
        BY <1>1, <2>1, <3>1, <4>1, <4>2
      <4>3. CASE b # j
        <5>1. b \in i + 1..j - 1 /\ b \in 1..n /\ wc[b] = sc[b]
          BY <3>1, <4>3
        <5>2. sc[i] >= sc[b]
          BY <1>3, <5>1
        <5> QED BY <1>1, <2>1, <4>1, <5>1, <5>2
      <4> QED BY <4>2, <4>3
    <3> QED BY <3>2, <3>3
  <2>2. CASE ~(sc[j] > sc[i])
    <3>1. wc = sc
      BY <1>2, <2>2
    <3>2. ASSUME NEW b \in i + 1..j PROVE sc[i] >= sc[b]
      <4>1. b = j \/ b \in i + 1..j - 1
        OBVIOUS
      <4> QED BY <1>1, <1>3, <2>2, <4>1
    <3> QED BY <1>3, <3>1, <3>2
  <2> QED BY <2>1, <2>2
<1>6. \A x \in 1..n : wc[x] = w[x].score
  BY DEF wc
<1>7. \A b \in i + 1..j : b \in 1..n
  OBVIOUS
<1> QED BY <1>5, <1>6, <1>7 DEF Leading, w

(* A page at the full score stays in front of another one at the full score.    *)
InOrder(s, n, u, v) == \A x, y \in 1..n : s[x] = u /\ s[y] = v => x < y
Full == {e \in Listing : e.score = FullScore}
FullOrder(s, n, out) == \A u, v \in Full : InOrder(out, n, u, v) => InOrder(s, n, u, v)

LEMMA ExchangedOrder ==
  ASSUME NEW n \in Nat, NEW s \in [1..n -> Listing], NEW i \in 1..n, NEW j \in 1..n, i < j,
         \A b \in i + 1..j - 1 : s[i].score >= s[b].score
  PROVE  FullOrder(Tracker!Exchanged(s, i, j), n, s)
<1> DEFINE w == Tracker!Exchanged(s, i, j)
<1>1. IF s[j].score > s[i].score
      THEN \A x \in 1..n : w[x] = IF x = j THEN s[i] ELSE IF x = i THEN s[j] ELSE s[x]
      ELSE w = s
  BY ExchangedCases
<1> HIDE DEF w
<1> SUFFICES ASSUME NEW u \in Full, NEW v \in Full, InOrder(s, n, u, v), NEW x \in 1..n,
                    NEW y \in 1..n, w[x] = u, w[y] = v
             PROVE  x < y
  BY DEF FullOrder, InOrder, w
<1>2. CASE ~(s[j].score > s[i].score)
  BY <1>1, <1>2 DEF InOrder
<1>3. CASE s[j].score > s[i].score
  <2>1. \A z \in 1..n : w[z] = IF z = j THEN s[i] ELSE IF z = i THEN s[j] ELSE s[z]
    BY <1>1, <1>3
  <2>2. FullScore \in Nat /\ s[i].score \in 0..FullScore /\ s[j].score \in 0..FullScore
    BY ServicesAssumption DEF Tracker!TrackerAssumption, Listing
  <2>3. u.score = FullScore /\ v.score = FullScore
    BY DEF Full
  <2>4. s[i].score < FullScore /\ s[i] # u /\ s[i] # v
    BY <1>3, <2>2, <2>3
  <2>5. ASSUME NEW z \in 1..n, i < z, z < j PROVE s[z] # u /\ s[z] # v
    <3>1. z \in i + 1..j - 1
      BY <2>5
    <3>2. s[i].score >= s[z].score
      BY <3>1
    <3> QED BY <2>2, <2>3, <2>4, <3>2
  <2>6. x # j /\ y # j
    BY <2>1, <2>4
  <2>7. CASE x = i
    <3>1. s[j] = u /\ y # i
      BY <2>1, <2>6, <2>7 DEF InOrder
    <3>2. s[y] = v /\ j < y
      BY <2>1, <2>6, <3>1 DEF InOrder
    <3> QED BY <2>7, <3>2
  <2>8. CASE x # i
    <3>1. s[x] = u
      BY <2>1, <2>6, <2>8
    <3>2. CASE y = i
      <4>1. s[j] = v /\ x < j
        BY <2>1, <2>6, <3>1, <3>2 DEF InOrder
      <4>2. ~(i < x)
        BY <2>5, <3>1, <4>1
      <4> QED BY <2>8, <3>2, <4>2
    <3>3. CASE y # i
      BY <2>1, <2>6, <3>1, <3>3 DEF InOrder
    <3> QED BY <3>2, <3>3
  <2> QED BY <2>7, <2>8
<1> QED BY <1>2, <1>3

(* The function by which FoldLeft does a round.                                 *)
Rest(n, i) == [k \in 1..n - i |-> i + k]
RoundOf(out, n, i) ==
  CHOOSE g : g = [s \in SUBSET DOMAIN Rest(n, i) |->
    IF s = {} THEN out
    ELSE Tracker!Exchanged(g[s \ {Greatest(s)}], i, Rest(n, i)[Greatest(s)])]

(* A round is a run of exchanges: r[k] is the list after k of them.             *)
RoundRun(r, n, i, out) ==
  /\ r[0] = out
  /\ \A k \in 1..n - i : r[k] = Tracker!Exchanged(r[k - 1], i, i + k)

LEMMA RoundRuns ==
  ASSUME NEW n \in Nat, NEW out \in [1..n -> Listing], NEW i \in 1..n
  PROVE  \E r : RoundRun(r, n, i, out) /\ Tracker!Round(out, i) = r[n - i]
<1> DEFINE S == 1..n - i
           G == [1..n -> Listing]
           c == [s \in SUBSET S |-> Greatest(s)]
           h == [k \in S |-> [x \in G |-> Tracker!Exchanged(x, i, i + k)]]
           Unfolds(g) == g = [s \in SUBSET DOMAIN Rest(n, i) |->
             IF s = {} THEN out
             ELSE Tracker!Exchanged(g[s \ {Greatest(s)}], i, Rest(n, i)[Greatest(s)])]
           iter == RoundOf(out, n, i)
<1>0. n - i \in Nat
  OBVIOUS
<1>1. Picks(c, S)
  BY <1>0, GreatestExists DEF Picks
<1>2. h \in [S -> [G -> G]]
  <2>1. ASSUME NEW k \in S, NEW x \in G PROVE Tracker!Exchanged(x, i, i + k) \in G
    <3>1. i + k \in 1..n
      OBVIOUS
    <3> QED BY <3>1, ExchangedCases
  <2> HIDE DEF G, S
  <2> QED BY <2>1
<1>3. IsFiniteSet(S)
  <2>1. 1 \in Int /\ n - i \in Int
    OBVIOUS
  <2> QED BY <2>1, FS_Interval
<1>4. PICK g : IsFold(g, S, G, out, h, c)
  <2> HIDE DEF c, h, S, G
  <2>1. out \in G
    BY DEF G
  <2> QED BY <1>1, <1>2, <1>3, <2>1, FoldExists
<1>5. DOMAIN Rest(n, i) = S /\ \A s \in SUBSET S : s # {} => Greatest(s) \in S
      /\ \A k \in S : Rest(n, i)[k] = i + k
  BY <1>0, GreatestExists DEF Rest
<1>6. Unfolds(g)
  <2>1. ASSUME NEW s \in SUBSET S, s # {}
        PROVE  g[s] = Tracker!Exchanged(g[s \ {Greatest(s)}], i, Rest(n, i)[Greatest(s)])
    <3>1. c[s] \in S /\ g[s \ {c[s]}] \in G /\ g[s] = h[c[s]][g[s \ {c[s]}]]
      <4> HIDE DEF c, h, S, G
      <4> QED BY <1>1, <1>4, <2>1 DEF IsFold, Picks
    <3>2. c[s] = Greatest(s)
      OBVIOUS
    <3> HIDE DEF c, S, G
    <3>3. g[s] = Tracker!Exchanged(g[s \ {c[s]}], i, i + c[s])
      BY <3>1
    <3> QED BY <1>5, <3>1, <3>2, <3>3
  <2>2. g \in [SUBSET S -> G] /\ g[{}] = out
    BY <1>4 DEF IsFold
  <2> HIDE DEF c, h, S, G
  <2> QED BY <1>5, <2>1, <2>2
<1>7. Unfolds(iter)
  <2>1. iter = CHOOSE k : Unfolds(k)
    BY DEF RoundOf
  <2> HIDE DEF Unfolds, iter
  <2> QED BY <1>6, <2>1
<1>8. Tracker!Round(out, i) = iter[DOMAIN Rest(n, i)]
  <2>1. Len(out) = n
    OBVIOUS
  <2> QED BY <2>1 DEF RoundOf, Rest, Tracker!Round, Tracker!FoldLeft, Tracker!MapThenFoldSet,
             Tracker!Max, Greatest
<1> HIDE DEF iter, G, h, c
<1>u. \A s \in SUBSET S : iter[s] = IF s = {} THEN out
        ELSE Tracker!Exchanged(iter[s \ {Greatest(s)}], i, i + Greatest(s))
  <2> HIDE DEF S
  <2> QED BY <1>5, <1>7
<1> HIDE DEF Unfolds
<1> DEFINE r == [k \in 0..n - i |-> iter[1..k]]
<1>9. r[0] = out
  <2>1. r[0] = iter[{}]
    BY <1>0
  <2> QED BY <1>u, <2>1
<1>10. ASSUME NEW k \in 1..n - i PROVE r[k] = Tracker!Exchanged(r[k - 1], i, i + k)
  <2>1. Greatest(1..k) = k /\ (1..k) \ {k} = 1..(k - 1) /\ 1..k \in SUBSET S /\ 1..k # {}
    <3>1. PICK m \in Nat : m = n - i
      BY <1>0
    <3>2. k \in 1..m
      BY <3>1
    <3>3. Greatest(1..k) = k /\ (1..k) \ {k} = 1..(k - 1)
      BY <3>1, <3>2, GreatestOfInterval
    <3>4. 1..k \subseteq 1..m /\ k \in 1..k
      BY <3>1, <3>2
    <3> QED BY <3>1, <3>3, <3>4
  <2>2. r[k] = iter[1..k] /\ r[k - 1] = iter[1..(k - 1)]
    BY <1>0
  <2>3. iter[1..k] = Tracker!Exchanged(iter[1..(k - 1)], i, i + k)
    BY <1>u, <2>1
  <2> QED BY <2>2, <2>3
<1>11. r[n - i] = iter[DOMAIN Rest(n, i)]
  BY <1>0, <1>5
<1> QED BY <1>8, <1>9, <1>10, <1>11 DEF RoundRun

LEMMA RoundLeads ==
  ASSUME NEW n \in Nat, NEW s, NEW out, Rearranged(s, n, out), NEW i \in 1..n,
         Leading(s, n, i - 1), FullOrder(s, n, out)
  PROVE  /\ Rearranged(Tracker!Round(s, i), n, out) /\ Leading(Tracker!Round(s, i), n, i)
         /\ FullOrder(Tracker!Round(s, i), n, out)
<1>1. s \in [1..n -> Listing]
  BY DEF Rearranged
<1>2. PICK r : RoundRun(r, n, i, s) /\ Tracker!Round(s, i) = r[n - i]
  BY <1>1, RoundRuns
<1> DEFINE Good(k) == /\ Rearranged(r[k], n, out) /\ Leading(r[k], n, i - 1)
                      /\ \A b \in i + 1..i + k : r[k][i].score >= r[k][b].score
                      /\ FullOrder(r[k], n, out)
           T == {k \in Nat : k <= n - i => Good(k)}
<1>3. 0 \in T
  <2>1. r[0] = s
    BY <1>2 DEF RoundRun
  <2> QED BY <2>1
<1>4. ASSUME NEW k \in Nat, k \in T PROVE k + 1 \in T
  <2> SUFFICES ASSUME k + 1 <= n - i PROVE Good(k + 1)
    OBVIOUS
  <2> DEFINE t == r[k]
             j == i + (k + 1)
  <2>1. Rearranged(t, n, out) /\ Leading(t, n, i - 1)
        /\ FullOrder(t, n, out)
        /\ \A b \in i + 1..i + k : t[i].score >= t[b].score
    BY <1>4
  <2>2. j \in 1..n /\ i < j /\ j - 1 = i + k
    OBVIOUS
  <2>3. r[k + 1] = Tracker!Exchanged(t, i, j)
    <3>1. k + 1 \in 1..n - i /\ k + 1 - 1 = k
      OBVIOUS
    <3> QED BY <1>2, <3>1 DEF RoundRun
  <2>4. t \in [1..n -> Listing]
    BY <2>1 DEF Rearranged
  <2> HIDE DEF t, j
  <2>5. Rearranged(r[k + 1], n, out)
    BY <2>1, <2>2, <2>3, ExchangedRearranges
  <2>6. Leading(r[k + 1], n, i - 1) /\ \A b \in i + 1..j : r[k + 1][i].score >= r[k + 1][b].score
    BY <2>1, <2>2, <2>3, <2>4, ExchangedLeads
  <2>7. FullOrder(r[k + 1], n, t)
    BY <2>1, <2>2, <2>3, <2>4, ExchangedOrder
  <2>8. FullOrder(r[k + 1], n, out)
    BY <2>1, <2>7 DEF FullOrder
  <2> QED BY <2>5, <2>6, <2>8 DEF j
<1>5. Good(n - i)
  <2> HIDE DEF T
  <2>1. n - i \in Nat /\ n - i <= n - i
    OBVIOUS
  <2>2. n - i \in T
    BY <1>3, <1>4, <2>1, NatInductionOnSet
  <2> QED BY <2>1, <2>2 DEF T
<1>6. Leading(r[n - i], n, i)
  <2> SUFFICES ASSUME NEW a \in 1..i, NEW b \in 1..n, a < b
               PROVE  r[n - i][a].score >= r[n - i][b].score
    BY DEF Leading
  <2>1. CASE a = i
    <3>1. b \in i + 1..i + (n - i)
      BY <2>1
    <3> QED BY <1>5, <2>1, <3>1
  <2>2. CASE a # i
    <3>1. a \in 1..i - 1
      BY <2>2
    <3> QED BY <1>5, <3>1 DEF Leading
  <2> QED BY <2>1, <2>2
<1> QED BY <1>2, <1>5, <1>6

(* The function by which FoldLeft does the rounds.                              *)
Turns(n) == [i \in 1..n - 1 |-> i]
SortOf(out, n) ==
  CHOOSE g : g = [s \in SUBSET DOMAIN Turns(n) |->
    IF s = {} THEN out ELSE Tracker!Round(g[s \ {Greatest(s)}], Turns(n)[Greatest(s)])]

LEMMA RoundTyped ==
  ASSUME NEW n \in Nat, NEW out \in [1..n -> Listing], NEW i \in 1..n
  PROVE  Tracker!Round(out, i) \in [1..n -> Listing]
<1>1. PICK r : RoundRun(r, n, i, out) /\ Tracker!Round(out, i) = r[n - i]
  BY RoundRuns
<1> DEFINE T == {k \in Nat : k <= n - i => r[k] \in [1..n -> Listing]}
<1>2. 0 \in T
  BY <1>1 DEF RoundRun
<1>3. ASSUME NEW k \in Nat, k \in T PROVE k + 1 \in T
  <2> SUFFICES ASSUME k + 1 <= n - i PROVE r[k + 1] \in [1..n -> Listing]
    OBVIOUS
  <2>1. r[k] \in [1..n -> Listing]
    BY <1>3
  <2>2. k + 1 \in 1..n - i /\ k + 1 - 1 = k /\ i + (k + 1) \in 1..n
    OBVIOUS
  <2>3. r[k + 1] = Tracker!Exchanged(r[k], i, i + (k + 1))
    BY <1>1, <2>2 DEF RoundRun
  <2>4. PICK j \in 1..n : j = i + (k + 1)
    BY <2>2
  <2>5. Tracker!Exchanged(r[k], i, j) \in [1..n -> Listing]
    BY <2>1, ExchangedCases
  <2> QED BY <2>3, <2>4, <2>5
<1> HIDE DEF T
<1>4. n - i \in Nat /\ n - i <= n - i
  OBVIOUS
<1>5. n - i \in T
  BY <1>2, <1>3, <1>4, NatInductionOnSet
<1> QED BY <1>1, <1>4, <1>5 DEF T

SortRun(r, n, out) == r[0] = out /\ \A k \in 1..n - 1 : r[k] = Tracker!Round(r[k - 1], k)

LEMMA SortRuns ==
  ASSUME NEW n \in Nat, n > 0, NEW out \in [1..n -> Listing]
  PROVE  \E r : SortRun(r, n, out) /\ Tracker!Sorted(out) = r[n - 1]
<1> DEFINE S == 1..n - 1
           G == [1..n -> Listing]
           c == [s \in SUBSET S |-> Greatest(s)]
           h == [k \in S |-> [x \in G |-> Tracker!Round(x, k)]]
           Unfolds(g) == g = [s \in SUBSET DOMAIN Turns(n) |->
             IF s = {} THEN out
             ELSE Tracker!Round(g[s \ {Greatest(s)}], Turns(n)[Greatest(s)])]
           iter == SortOf(out, n)
<1>0. n - 1 \in Nat
  OBVIOUS
<1>1. Picks(c, S)
  BY <1>0, GreatestExists DEF Picks
<1>2. h \in [S -> [G -> G]]
  <2>1. ASSUME NEW k \in S, NEW x \in G PROVE Tracker!Round(x, k) \in G
    <3>1. k \in 1..n
      OBVIOUS
    <3> QED BY <3>1, RoundTyped
  <2> HIDE DEF G, S
  <2> QED BY <2>1
<1>3. IsFiniteSet(S)
  <2>1. 1 \in Int /\ n - 1 \in Int
    OBVIOUS
  <2> QED BY <2>1, FS_Interval
<1>4. PICK g : IsFold(g, S, G, out, h, c)
  <2> HIDE DEF c, h, S, G
  <2>1. out \in G
    BY DEF G
  <2> QED BY <1>1, <1>2, <1>3, <2>1, FoldExists
<1>5. DOMAIN Turns(n) = S /\ \A s \in SUBSET S : s # {} => Greatest(s) \in S
      /\ \A k \in S : Turns(n)[k] = k
  BY <1>0, GreatestExists DEF Turns
<1>6. Unfolds(g)
  <2>1. ASSUME NEW s \in SUBSET S, s # {}
        PROVE  g[s] = Tracker!Round(g[s \ {Greatest(s)}], Turns(n)[Greatest(s)])
    <3>1. c[s] \in S /\ g[s \ {c[s]}] \in G /\ g[s] = h[c[s]][g[s \ {c[s]}]]
      <4> HIDE DEF c, h, S, G
      <4> QED BY <1>1, <1>4, <2>1 DEF IsFold, Picks
    <3>2. c[s] = Greatest(s)
      OBVIOUS
    <3> HIDE DEF c, S, G
    <3>3. g[s] = Tracker!Round(g[s \ {c[s]}], c[s])
      BY <3>1
    <3> QED BY <1>5, <3>1, <3>2, <3>3
  <2>2. g \in [SUBSET S -> G] /\ g[{}] = out
    BY <1>4 DEF IsFold
  <2> HIDE DEF c, h, S, G
  <2> QED BY <1>5, <2>1, <2>2
<1>7. Unfolds(iter)
  <2>1. iter = CHOOSE k : Unfolds(k)
    BY DEF SortOf
  <2> HIDE DEF Unfolds, iter
  <2> QED BY <1>6, <2>1
<1>8. Tracker!Sorted(out) = iter[DOMAIN Turns(n)]
  <2>1. Len(out) = n
    OBVIOUS
  <2> QED BY <2>1 DEF SortOf, Turns, Tracker!Sorted, Tracker!FoldLeft, Tracker!MapThenFoldSet,
             Tracker!Max, Greatest
<1> HIDE DEF iter, G, h, c
<1>u. \A s \in SUBSET S : iter[s] = IF s = {} THEN out
        ELSE Tracker!Round(iter[s \ {Greatest(s)}], Greatest(s))
  <2> HIDE DEF S
  <2> QED BY <1>5, <1>7
<1> HIDE DEF Unfolds
<1> DEFINE r == [k \in 0..n - 1 |-> iter[1..k]]
<1>9. r[0] = out
  <2>1. r[0] = iter[{}]
    BY <1>0
  <2> QED BY <1>u, <2>1
<1>10. ASSUME NEW k \in 1..n - 1 PROVE r[k] = Tracker!Round(r[k - 1], k)
  <2>1. Greatest(1..k) = k /\ (1..k) \ {k} = 1..(k - 1) /\ 1..k \in SUBSET S /\ 1..k # {}
    <3>1. PICK m \in Nat : m = n - 1
      BY <1>0
    <3>2. k \in 1..m /\ k \in Nat
      BY <3>1
    <3>3. Greatest(1..k) = k /\ (1..k) \ {k} = 1..(k - 1)
      BY <3>2, GreatestOfInterval
    <3>4. 1..k \subseteq 1..m /\ k \in 1..k
      BY <3>2
    <3> QED BY <3>1, <3>3, <3>4
  <2>2. r[k] = iter[1..k] /\ r[k - 1] = iter[1..(k - 1)]
    BY <1>0
  <2>3. iter[1..k] = Tracker!Round(iter[1..(k - 1)], k)
    BY <1>u, <2>1
  <2> QED BY <2>2, <2>3
<1>11. r[n - 1] = iter[DOMAIN Turns(n)]
  BY <1>0, <1>5
<1> QED BY <1>8, <1>9, <1>10, <1>11 DEF SortRun

(* The exchange sort rearranges the pages by descending score, those at the     *)
(* full score in the order in which it finds them.                              *)
LEMMA SortedDescends ==
  ASSUME NEW n \in Nat, n > 0, NEW out, Rearranged(out, n, out)
  PROVE  /\ Rearranged(Tracker!Sorted(out), n, out) /\ Leading(Tracker!Sorted(out), n, n)
         /\ FullOrder(Tracker!Sorted(out), n, out)
<1>1. out \in [1..n -> Listing]
  BY DEF Rearranged
<1>2. PICK r : SortRun(r, n, out) /\ Tracker!Sorted(out) = r[n - 1]
  BY <1>1, SortRuns
<1> DEFINE Good(k) == /\ Rearranged(r[k], n, out) /\ Leading(r[k], n, k)
                      /\ FullOrder(r[k], n, out)
           T == {k \in Nat : k <= n - 1 => Good(k)}
<1>3. 0 \in T
  <2>1. r[0] = out /\ Leading(out, n, 0) /\ FullOrder(out, n, out)
    BY <1>2 DEF SortRun, Leading, FullOrder
  <2> QED BY <2>1
<1>4. ASSUME NEW k \in Nat, k \in T PROVE k + 1 \in T
  <2> SUFFICES ASSUME k + 1 <= n - 1
               PROVE  Good(k + 1)
    OBVIOUS
  <2>1. Rearranged(r[k], n, out) /\ Leading(r[k], n, k) /\ FullOrder(r[k], n, out)
    BY <1>4
  <2>2. k + 1 \in 1..n /\ k + 1 \in 1..n - 1 /\ k + 1 - 1 = k
    OBVIOUS
  <2>3. r[k + 1] = Tracker!Round(r[k], k + 1)
    BY <1>2, <2>2 DEF SortRun
  <2> QED BY <2>1, <2>2, <2>3, RoundLeads
<1> HIDE DEF T
<1>5. n - 1 \in Nat /\ n - 1 <= n - 1
  OBVIOUS
<1>6. n - 1 \in T
  BY <1>3, <1>4, <1>5, NatInductionOnSet
<1>7. Good(n - 1)
  BY <1>5, <1>6 DEF T
<1>8. Leading(r[n - 1], n, n)
  <2> SUFFICES ASSUME NEW a \in 1..n, NEW b \in 1..n, a < b
               PROVE  r[n - 1][a].score >= r[n - 1][b].score
    BY DEF Leading
  <2>1. a \in 1..n - 1
    OBVIOUS
  <2> QED BY <1>7, <2>1 DEF Leading
<1> QED BY <1>2, <1>7, <1>8

(* There is nothing to sort in an empty list.                                   *)
LEMMA NoneSorted == Tracker!Sorted(<<>>) = <<>>
<1> DEFINE Unfolds(g) == g = [s \in SUBSET DOMAIN Turns(0) |->
             IF s = {} THEN <<>>
             ELSE Tracker!Round(g[s \ {Greatest(s)}], Turns(0)[Greatest(s)])]
           iter == SortOf(<<>>, 0)
<1>1. DOMAIN Turns(0) = {}
  BY DEF Turns
<1>2. \E g : Unfolds(g)
  <2>1. Unfolds([s \in SUBSET {} |-> <<>>])
    BY <1>1
  <2> QED BY <2>1
<1>3. iter = CHOOSE k : Unfolds(k)
  BY DEF SortOf
<1>4. Unfolds(iter)
  <2> HIDE DEF Unfolds, iter
  <2> QED BY <1>2, <1>3
<1>5. Tracker!Sorted(<<>>) = iter[DOMAIN Turns(0)]
  <2>1. Len(<<>>) = 0
    OBVIOUS
  <2> QED BY <2>1 DEF SortOf, Turns, Tracker!Sorted, Tracker!FoldLeft, Tracker!MapThenFoldSet,
             Tracker!Max, Greatest
<1> HIDE DEF iter
<1> QED BY <1>1, <1>4, <1>5

---------------------------------------------------------------------------
(* PageTracker: the ring and the scan *)

TrackerInv ==
  /\ accesses \in [0..AccessHistory - 1 -> [frame : Frames \cup {0}, write : BOOLEAN]]
  /\ head \in 0..AccessHistory - 1 /\ tracking \in BOOLEAN

LEMMA TrackerConstants ==
  AccessHistory \in Nat \ {0} /\ FullScore \in Nat \ {0} /\ MaxOut \in Nat \ {0}
  /\ \A f \in Frames : f \in Nat /\ f # 0
  BY ServicesAssumption DEF Tracker!TrackerAssumption

LEMMA Wraps ==
  ASSUME NEW n \in Nat \ {0}, NEW x \in 0..2 * n - 1
  PROVE  x % n = IF x < n THEN x ELSE x - n
<1>1. CASE x < n
  BY <1>1
<1>2. CASE ~(x < n)
  BY <1>2
<1> QED BY <1>1, <1>2

(* The slot the property finds is the one the code counts back to.              *)
LEMMA SlotIsNewest ==
  ASSUME TrackerInv, NEW i \in 0..AccessHistory - 1
  PROVE  /\ accesses[Tracker!Slot(i)] = Tracker!Newest(i)
         /\ Tracker!Newest(i) \in [frame : Frames \cup {0}, write : BOOLEAN]
<1> DEFINE n == AccessHistory
           k == (head - 1 - i + n) % n
<1>0. n \in Nat \ {0} /\ head \in 0..n - 1
  BY TrackerConstants DEF TrackerInv
<1> HIDE DEF n, k
<1>1. PICK h \in 0..n - 1 : h = head
  BY <1>0
<1>i. i \in 0..n - 1
  BY DEF n
<1>2. h - 1 - i + n \in 0..2 * n - 1
  BY <1>0, <1>i
<1>3. k = IF h - 1 - i + n < n THEN h - 1 - i + n ELSE h - 1 - i + n - n
  <2>1. PICK x \in 0..2 * n - 1 : x = h - 1 - i + n
    BY <1>2
  <2>2. x % n = IF x < n THEN x ELSE x - n
    BY <1>0, Wraps
  <2>3. k = x % n
    BY <1>1, <2>1 DEF k
  <2> QED BY <1>0, <1>i, <2>1, <2>2, <2>3
<1>4. k \in 0..n - 1
  BY <1>0, <1>2, <1>3
<1>5. \A j \in 0..n - 1 : (j + i + 1) % n = IF j + i + 1 < n THEN j + i + 1 ELSE j + i + 1 - n
  <2> SUFFICES ASSUME NEW j \in 0..n - 1
               PROVE  (j + i + 1) % n = IF j + i + 1 < n THEN j + i + 1 ELSE j + i + 1 - n
    OBVIOUS
  <2>1. j + i + 1 \in 0..2 * n - 1
    BY <1>0, <1>i
  <2>2. PICK x \in 0..2 * n - 1 : x = j + i + 1
    BY <2>1
  <2>3. x % n = IF x < n THEN x ELSE x - n
    BY <1>0, Wraps
  <2> QED BY <1>0, <1>i, <2>2, <2>3
<1>6. (k + i + 1) % n = h
  BY <1>0, <1>i, <1>3, <1>4, <1>5
<1>7. \A j \in 0..n - 1 : (j + i + 1) % n = h => j = k
  BY <1>0, <1>i, <1>3, <1>4, <1>5
<1>8. Tracker!Slot(i) = k
  BY <1>1, <1>4, <1>6, <1>7 DEF Tracker!Slot, n
<1>9. accesses[k] = Tracker!Newest(i)
  BY DEF Tracker!Newest, k, n
<1> QED BY <1>4, <1>8, <1>9 DEF TrackerInv, n

(* What an access adds; later accesses add more.                                *)
LEMMA Gains ==
  ASSUME NEW i \in 0..AccessHistory
  PROVE  /\ Tracker!Gain(i) \in Nat
         /\ i < AccessHistory => Tracker!Gain(i + 1) < Tracker!Gain(i)
  BY TrackerConstants DEF Tracker!Gain

LEMMA CappedTyped ==
  ASSUME NEW v \in Nat
  PROVE  Tracker!Capped(v) \in 0..FullScore /\ Tracker!Capped(v) <= v
  BY TrackerConstants DEF Tracker!Capped

LEMMA FirstTyped ==
  ASSUME TrackerInv, NEW i \in 0..AccessHistory - 1
  PROVE  /\ Tracker!First(i) \in 0..FullScore
         /\ Tracker!First(i) <= Tracker!Capped(Tracker!Gain(i))
         /\ ~Tracker!Newest(i).write => Tracker!First(i) = Tracker!Capped(Tracker!Gain(i))
<1>1. i \in 0..AccessHistory
  BY TrackerConstants
<1>2. PICK c \in 0..FullScore : c = Tracker!Capped(Tracker!Gain(i))
  BY <1>1, Gains, CappedTyped
<1>3. (c * 7) \div 10 \in 0..FullScore /\ (c * 7) \div 10 <= c
  BY TrackerConstants
<1>4. c <= c
  BY TrackerConstants
<1>5. CASE Tracker!Newest(i).write
  BY <1>2, <1>3, <1>5 DEF Tracker!First
<1>6. CASE ~Tracker!Newest(i).write
  <2>1. Tracker!First(i) = c
    BY <1>2, <1>6 DEF Tracker!First
  <2> QED BY <1>2, <1>4, <2>1
<1> QED BY <1>5, <1>6

Lists(max) == {s \in Seq(Listing) : Len(s) <= max}
Listed(s, f) == \E x \in DOMAIN s : s[x].frame = f

(* The two ways in which an access changes a list.                              *)
Raised(s, t, f, gain) ==
  /\ t \in Seq(Listing) /\ Len(t) = Len(s)
  /\ \A x \in 1..Len(s) :
       /\ t[x].frame = s[x].frame
       /\ t[x].score = IF s[x].frame = f THEN Tracker!Capped(s[x].score + gain) ELSE s[x].score

LEMMA RaisedScores ==
  ASSUME NEW s \in Seq(Listing), NEW f, NEW gain \in Nat, NEW t,
         t = [k \in DOMAIN s |->
                IF s[k].frame = f THEN [s[k] EXCEPT !.score = Tracker!Capped(@ + gain)]
                ELSE s[k]]
  PROVE  Raised(s, t, f, gain)
<1>0. /\ Len(s) \in Nat /\ DOMAIN s = 1..Len(s)
      /\ \A x \in 1..Len(s) : s[x] \in Listing
  BY LenProperties, ElementOfSeq
<1>1. ASSUME NEW x \in 1..Len(s)
      PROVE  /\ t[x] \in Listing /\ t[x].frame = s[x].frame
             /\ t[x].score = IF s[x].frame = f THEN Tracker!Capped(s[x].score + gain)
                             ELSE s[x].score
  <2>1. s[x].frame \in Frames /\ s[x].score \in 0..FullScore
        /\ s[x] = [frame |-> s[x].frame, score |-> s[x].score]
    BY <1>0 DEF Listing
  <2>2. s[x].score + gain \in Nat
    BY <2>1, TrackerConstants
  <2>3. Tracker!Capped(s[x].score + gain) \in 0..FullScore
    BY <2>2, CappedTyped
  <2>4. CASE s[x].frame = f
    <3>1. t[x] = [frame |-> s[x].frame, score |-> Tracker!Capped(s[x].score + gain)]
      BY <1>0, <2>1, <2>4
    <3> QED BY <2>1, <2>3, <2>4, <3>1 DEF Listing
  <2>5. CASE s[x].frame # f
    <3>1. t[x] = s[x]
      BY <1>0, <2>5
    <3> QED BY <1>0, <2>5, <3>1
  <2> QED BY <2>4, <2>5
<1>2. t \in [1..Len(s) -> Listing]
  BY <1>0, <1>1
<1>3. t \in Seq(Listing)
  BY <1>0, <1>2, FunctionIsSeq
<1>4. Len(t) = Len(s)
  BY <1>0, <1>2, <1>3, LenProperties
<1> QED BY <1>1, <1>3, <1>4 DEF Raised

LEMMA ScoredCases ==
  ASSUME TrackerInv, NEW max, NEW s \in Lists(max), NEW i \in 0..AccessHistory - 1
  PROVE  LET t == Tracker!Scored(s, i, max)
             f == Tracker!Newest(i).frame
         IN  \/ f = 0 /\ t = s
             \/ f \in Frames /\ Listed(s, f) /\ Raised(s, t, f, Tracker!Gain(i))
             \/ f \in Frames /\ ~Listed(s, f) /\ Len(s) < max
                /\ t = Append(s, [frame |-> f, score |-> Tracker!First(i)])
             \/ f \in Frames /\ ~Listed(s, f) /\ ~(Len(s) < max) /\ t = s
<1> DEFINE t == Tracker!Scored(s, i, max)
           f == Tracker!Newest(i).frame
           found == {k \in DOMAIN s : s[k].frame = f}
<1>1. f \in Frames \cup {0}
  BY SlotIsNewest
<1>2. found # {} <=> Listed(s, f)
  BY DEF Listed
<1>3. CASE f = 0
  BY <1>3 DEF Tracker!Scored
<1>4. CASE f # 0 /\ Listed(s, f)
  <2>1. t = [k \in DOMAIN s |->
               IF k \in found THEN [s[k] EXCEPT !.score = Tracker!Capped(@ + Tracker!Gain(i))]
               ELSE s[k]]
    BY <1>2, <1>4 DEF Tracker!Scored
  <2>2. t = [k \in DOMAIN s |->
               IF s[k].frame = f THEN [s[k] EXCEPT !.score = Tracker!Capped(@ + Tracker!Gain(i))]
               ELSE s[k]]
    BY <2>1
  <2>3. Tracker!Gain(i) \in Nat
    <3>1. i \in 0..AccessHistory
      BY TrackerConstants
    <3> QED BY <3>1, Gains
  <2> HIDE DEF t, f, found
  <2>4. Raised(s, t, f, Tracker!Gain(i))
    BY <2>2, <2>3, RaisedScores DEF Lists
  <2> QED BY <1>1, <1>4, <2>4 DEF t, f
<1>5. CASE f # 0 /\ ~Listed(s, f) /\ Len(s) < max
  <2>1. t = Append(s, [frame |-> f, score |-> Tracker!First(i)])
    BY <1>2, <1>5 DEF Tracker!Scored
  <2> QED BY <1>1, <1>5, <2>1
<1>6. CASE f # 0 /\ ~Listed(s, f) /\ ~(Len(s) < max)
  <2>1. t = s
    BY <1>2, <1>6 DEF Tracker!Scored
  <2> QED BY <1>1, <1>6, <2>1
<1> QED BY <1>3, <1>4, <1>5, <1>6

LEMMA ScoredTyped ==
  ASSUME TrackerInv, NEW max \in Nat, NEW s \in Lists(max), NEW i \in 0..AccessHistory - 1
  PROVE  Tracker!Scored(s, i, max) \in Lists(max)
<1> DEFINE t == Tracker!Scored(s, i, max)
           f == Tracker!Newest(i).frame
           e == [frame |-> f, score |-> Tracker!First(i)]
<1>1. s \in Seq(Listing) /\ Len(s) <= max
  BY DEF Lists
<1>2. \/ t = s \/ Raised(s, t, f, Tracker!Gain(i))
      \/ f \in Frames /\ Len(s) < max /\ t = Append(s, e)
  BY ScoredCases
<1>3. f \in Frames => e \in Listing
  BY FirstTyped DEF Listing
<1> HIDE DEF t, e, f
<1>4. CASE t = s
  BY <1>4 DEF t
<1>5. CASE Raised(s, t, f, Tracker!Gain(i))
  BY <1>1, <1>5 DEF Raised, Lists, t
<1>6. CASE f \in Frames /\ Len(s) < max /\ t = Append(s, e)
  <2>1. t \in Seq(Listing) /\ Len(t) = Len(s) + 1
    BY <1>1, <1>3, <1>6, AppendProperties
  <2>2. Len(s) \in Nat
    BY <1>1, LenProperties
  <2>3. Len(s) + 1 <= max
    BY <1>6, <2>2
  <2> QED BY <2>1, <2>3 DEF Lists, t
<1> QED BY <1>2, <1>4, <1>5, <1>6

(* The function by which FoldLeft scans the accesses, from the newest on.       *)
ScanOrder == [i \in 1..AccessHistory |-> i - 1]
ScanOf(max) ==
  CHOOSE g : g = [s \in SUBSET DOMAIN ScanOrder |->
    IF s = {} THEN <<>>
    ELSE Tracker!Scored(g[s \ {Greatest(s)}], ScanOrder[Greatest(s)], max)]

(* The scan is a run: r[k] is the list after the last k accesses.               *)
ScanRun(r, max) ==
  /\ r[0] = <<>> /\ \A k \in 0..AccessHistory : r[k] \in Lists(max)
  /\ \A k \in 1..AccessHistory : r[k] = Tracker!Scored(r[k - 1], k - 1, max)

LEMMA ScanRuns ==
  ASSUME TrackerInv, NEW max \in Nat
  PROVE  \E r : ScanRun(r, max) /\ Tracker!Scan(max) = r[AccessHistory]
<1> DEFINE n == AccessHistory
           S == 1..n
           G == Lists(max)
           c == [s \in SUBSET S |-> Greatest(s)]
           h == [k \in S |-> [x \in G |-> Tracker!Scored(x, k - 1, max)]]
           Unfolds(g) == g = [s \in SUBSET DOMAIN ScanOrder |->
             IF s = {} THEN <<>>
             ELSE Tracker!Scored(g[s \ {Greatest(s)}], ScanOrder[Greatest(s)], max)]
           iter == ScanOf(max)
<1>0. n \in Nat
  BY TrackerConstants
<1>1. Picks(c, S)
  BY <1>0, GreatestExists DEF Picks
<1>s. ASSUME NEW k \in S, NEW x \in G PROVE Tracker!Scored(x, k - 1, max) \in G
  <2>1. k - 1 \in 0..AccessHistory - 1
    BY <1>0
  <2> QED BY <2>1, ScoredTyped
<1>2. h \in [S -> [G -> G]]
  <2> HIDE DEF G, S
  <2> QED BY <1>s
<1>3. IsFiniteSet(S)
  <2>1. 1 \in Int /\ n \in Int
    BY <1>0
  <2> QED BY <2>1, FS_Interval
<1>b. <<>> \in G
  <2>1. <<>> \in Seq(Listing) /\ Len(<<>>) = 0
    BY EmptySeq
  <2> QED BY <2>1 DEF Lists
<1>4. PICK g : IsFold(g, S, G, <<>>, h, c)
  <2> HIDE DEF c, h, S, G
  <2> QED BY <1>1, <1>2, <1>3, <1>b, FoldExists
<1>5. DOMAIN ScanOrder = S /\ \A s \in SUBSET S : s # {} => Greatest(s) \in S
      /\ \A k \in S : ScanOrder[k] = k - 1
  BY <1>0, GreatestExists DEF ScanOrder
<1>6. Unfolds(g)
  <2>1. ASSUME NEW s \in SUBSET S, s # {}
        PROVE  g[s] = Tracker!Scored(g[s \ {Greatest(s)}], ScanOrder[Greatest(s)], max)
    <3>1. c[s] \in S /\ g[s \ {c[s]}] \in G /\ g[s] = h[c[s]][g[s \ {c[s]}]]
      <4> HIDE DEF c, h, S, G
      <4> QED BY <1>1, <1>4, <2>1 DEF IsFold, Picks
    <3>2. c[s] = Greatest(s)
      OBVIOUS
    <3> HIDE DEF c, S, G
    <3>3. g[s] = Tracker!Scored(g[s \ {c[s]}], c[s] - 1, max)
      BY <3>1
    <3> QED BY <1>5, <3>1, <3>2, <3>3
  <2>2. g \in [SUBSET S -> G] /\ g[{}] = <<>>
    BY <1>4 DEF IsFold
  <2> HIDE DEF c, h, S, G
  <2> QED BY <1>5, <2>1, <2>2
<1>7. Unfolds(iter)
  <2>1. iter = CHOOSE k : Unfolds(k)
    BY DEF ScanOf
  <2> HIDE DEF Unfolds, iter
  <2> QED BY <1>6, <2>1
<1>8. Tracker!Scan(max) = iter[DOMAIN ScanOrder]
  BY DEF ScanOf, ScanOrder, Tracker!Scan, Tracker!FoldLeft, Tracker!MapThenFoldSet,
         Tracker!Max, Greatest
<1> HIDE DEF iter, G, h, c
<1>u. \A s \in SUBSET S : iter[s] = IF s = {} THEN <<>>
        ELSE Tracker!Scored(iter[s \ {Greatest(s)}], Greatest(s) - 1, max)
  <2> HIDE DEF S
  <2> QED BY <1>5, <1>7
<1> HIDE DEF Unfolds
<1> DEFINE r == [k \in 0..n |-> iter[1..k]]
<1>9. r[0] = <<>>
  <2>1. r[0] = iter[{}]
    BY <1>0
  <2> QED BY <1>u, <2>1
<1>10. ASSUME NEW k \in 1..n PROVE r[k] = Tracker!Scored(r[k - 1], k - 1, max)
  <2>1. Greatest(1..k) = k /\ (1..k) \ {k} = 1..(k - 1)
    BY <1>0, GreatestOfInterval
  <2>2. 1..k \in SUBSET S /\ 1..k # {}
    <3>1. 1..k \subseteq 1..n /\ k \in 1..k
      BY <1>0
    <3> QED BY <3>1
  <2>3. r[k] = iter[1..k] /\ r[k - 1] = iter[1..(k - 1)]
    BY <1>0
  <2>4. iter[1..k] = Tracker!Scored(iter[1..(k - 1)], k - 1, max)
    BY <1>u, <2>1, <2>2
  <2> QED BY <2>3, <2>4
<1>11. r[n] = iter[DOMAIN ScanOrder]
  BY <1>0, <1>5
<1> HIDE DEF r
<1> DEFINE T == {k \in Nat : k <= n => r[k] \in G}
<1>12. 0 \in T
  BY <1>9, <1>b
<1>13. ASSUME NEW k \in Nat, k \in T PROVE k + 1 \in T
  <2> SUFFICES ASSUME k + 1 <= n PROVE r[k + 1] \in G
    OBVIOUS
  <2>1. r[k] \in G
    BY <1>0, <1>13
  <2>2. k + 1 \in 1..n /\ k + 1 - 1 = k
    BY <1>0
  <2>3. PICK j \in 1..n : j = k + 1
    BY <2>2
  <2>4. r[j] = Tracker!Scored(r[k], j - 1, max) /\ r[j] = r[k + 1]
    BY <1>10, <2>2, <2>3
  <2>5. Tracker!Scored(r[k], j - 1, max) \in G
    BY <1>s, <2>1
  <2> QED BY <2>4, <2>5
<1> HIDE DEF T
<1>14. Nat \subseteq T
  BY <1>12, <1>13, NatInductionOnSet
<1>15. \A k \in 0..AccessHistory : r[k] \in Lists(max)
  BY <1>0, <1>14 DEF T, G
<1> QED BY <1>8, <1>9, <1>10, <1>11, <1>15 DEF ScanRun, n

(* The score a list gives a frame, and 0 for one that is not on it.             *)
ScoreOf(s, f) == IF Listed(s, f) THEN s[CHOOSE x \in DOMAIN s : s[x].frame = f].score ELSE 0
Distinct(s) == \A x, y \in DOMAIN s : s[x].frame = s[y].frame => x = y

LEMMA ScoreOfListed ==
  ASSUME NEW s \in Seq(Listing), Distinct(s), NEW x \in DOMAIN s
  PROVE  Listed(s, s[x].frame) /\ ScoreOf(s, s[x].frame) = s[x].score
<1> DEFINE f == s[x].frame
           y == CHOOSE z \in DOMAIN s : s[z].frame = f
<1>1. y \in DOMAIN s /\ s[y].frame = f
  OBVIOUS
<1>2. y = x
  <2> HIDE DEF y
  <2> QED BY <1>1 DEF Distinct
<1>3. Listed(s, f)
  BY DEF Listed
<1> QED BY <1>2, <1>3 DEF ScoreOf

LEMMA ScoreTyped ==
  ASSUME NEW s \in Seq(Listing), NEW f
  PROVE  ScoreOf(s, f) \in 0..FullScore /\ (~Listed(s, f) => ScoreOf(s, f) = 0)
<1>1. CASE Listed(s, f)
  <2> DEFINE x == CHOOSE z \in DOMAIN s : s[z].frame = f
  <2>1. x \in DOMAIN s
    BY <1>1 DEF Listed
  <2>2. s[x] \in Listing
    BY <2>1, LenProperties, ElementOfSeq
  <2> HIDE DEF x
  <2>3. s[x].score \in 0..FullScore
    BY <2>2 DEF Listing
  <2> QED BY <1>1, <2>3 DEF ScoreOf, x
<1>2. CASE ~Listed(s, f)
  BY <1>2, TrackerConstants DEF ScoreOf
<1> QED BY <1>1, <1>2

(* What one access does to the score of a frame.                                *)
Effect(s, t, f, gain, first, g, max) ==
  /\ f # g => (Listed(t, g) <=> Listed(s, g)) /\ ScoreOf(t, g) = ScoreOf(s, g)
  /\ f = g /\ Listed(s, g) =>
       Listed(t, g) /\ ScoreOf(t, g) = Tracker!Capped(ScoreOf(s, g) + gain)
  /\ f = g /\ ~Listed(s, g) /\ Len(s) < max => Listed(t, g) /\ ScoreOf(t, g) = first
  /\ f = g /\ ~Listed(s, g) /\ ~(Len(s) < max) => ~Listed(t, g)
  /\ Len(s) <= Len(t)

LEMMA RaisedEffect ==
  ASSUME NEW s \in Seq(Listing), Distinct(s), NEW t, NEW f, NEW gain \in Nat, NEW first,
         NEW max, Raised(s, t, f, gain), Listed(s, f), NEW g
  PROVE  Distinct(t) /\ Effect(s, t, f, gain, first, g, max)
<1>0. /\ t \in Seq(Listing) /\ DOMAIN t = DOMAIN s /\ Len(t) = Len(s) /\ Len(s) \in Nat
      /\ \A x \in DOMAIN s :
           /\ t[x].frame = s[x].frame
           /\ t[x].score = IF s[x].frame = f THEN Tracker!Capped(s[x].score + gain)
                           ELSE s[x].score
  BY LenProperties DEF Raised
<1>1. Distinct(t)
  BY <1>0 DEF Distinct
<1>2. Listed(t, g) <=> Listed(s, g)
  BY <1>0 DEF Listed
<1>3. Len(s) <= Len(t)
  BY <1>0
<1>4. CASE Listed(s, g)
  <2>1. PICK x \in DOMAIN s : s[x].frame = g
    BY <1>4 DEF Listed
  <2>2. ScoreOf(s, g) = s[x].score
    BY <2>1, ScoreOfListed
  <2>3. ScoreOf(t, g) = t[x].score
    BY <1>0, <1>1, <2>1, ScoreOfListed
  <2>4. f # g => ScoreOf(t, g) = ScoreOf(s, g)
    BY <1>0, <2>1, <2>2, <2>3
  <2>5. f = g => ScoreOf(t, g) = Tracker!Capped(ScoreOf(s, g) + gain)
    BY <1>0, <2>1, <2>2, <2>3
  <2> QED BY <1>1, <1>2, <1>3, <1>4, <2>4, <2>5 DEF Effect
<1>5. CASE ~Listed(s, g)
  <2>1. f # g
    BY <1>5
  <2>2. ScoreOf(t, g) = 0 /\ ScoreOf(s, g) = 0
    BY <1>2, <1>5 DEF ScoreOf
  <2> QED BY <1>1, <1>2, <1>3, <1>5, <2>1, <2>2 DEF Effect
<1> QED BY <1>4, <1>5

LEMMA AppendEffect ==
  ASSUME NEW s \in Seq(Listing), Distinct(s), NEW e \in Listing, ~Listed(s, e.frame),
         NEW max, Len(s) < max, NEW gain, NEW g
  PROVE  /\ Distinct(Append(s, e))
         /\ Effect(s, Append(s, e), e.frame, gain, e.score, g, max)
<1> DEFINE t == Append(s, e)
<1>0. /\ t \in Seq(Listing) /\ Len(t) = Len(s) + 1 /\ Len(s) \in Nat
      /\ \A x \in 1..Len(s) : t[x] = s[x]
      /\ t[Len(s) + 1] = e
  BY AppendProperties, LenProperties
<1> HIDE DEF t
<1>1. DOMAIN t = 1..Len(s) + 1 /\ DOMAIN s = 1..Len(s)
  BY <1>0, LenProperties
<1> DEFINE end == Len(s) + 1
<1>2. DOMAIN t = DOMAIN s \cup {end} /\ end \notin DOMAIN s
  BY <1>0, <1>1
<1>3. t[end] = e /\ \A x \in DOMAIN s : t[x] = s[x]
  BY <1>0, <1>1
<1>4. Len(s) <= Len(t)
  BY <1>0
<1> HIDE DEF end
<1>5. Distinct(t)
  BY <1>2, <1>3 DEF Distinct, Listed
<1>6. CASE g = e.frame
  <2>1. end \in DOMAIN t /\ t[end].frame = g /\ t[end].score = e.score
    BY <1>2, <1>3, <1>6
  <2>2. Listed(t, g) /\ ScoreOf(t, g) = e.score
    BY <1>0, <1>5, <2>1, ScoreOfListed
  <2> QED BY <1>4, <1>5, <1>6, <2>2 DEF Effect, t
<1>7. CASE g # e.frame
  <2>1. Listed(t, g) <=> Listed(s, g)
    BY <1>2, <1>3, <1>7 DEF Listed
  <2>2. ScoreOf(t, g) = ScoreOf(s, g)
    <3>1. CASE Listed(s, g)
      <4>1. PICK x \in DOMAIN s : s[x].frame = g
        BY <3>1 DEF Listed
      <4>2. ScoreOf(s, g) = s[x].score
        BY <4>1, ScoreOfListed
      <4>3. x \in DOMAIN t /\ t[x] = s[x]
        BY <1>2, <1>3
      <4>4. ScoreOf(t, g) = t[x].score
        BY <1>0, <1>5, <4>1, <4>3, ScoreOfListed
      <4> QED BY <4>2, <4>3, <4>4
    <3>2. CASE ~Listed(s, g)
      BY <2>1, <3>2 DEF ScoreOf
    <3> QED BY <3>1, <3>2
  <2> QED BY <1>4, <1>5, <1>7, <2>1, <2>2 DEF Effect, t
<1> QED BY <1>6, <1>7

LEMMA ScoredEffect ==
  ASSUME TrackerInv, NEW max \in Nat, NEW s \in Lists(max), Distinct(s),
         NEW i \in 0..AccessHistory - 1, NEW g, g # 0
  PROVE  /\ Distinct(Tracker!Scored(s, i, max))
         /\ Effect(s, Tracker!Scored(s, i, max), Tracker!Newest(i).frame, Tracker!Gain(i),
                   Tracker!First(i), g, max)
<1> DEFINE t == Tracker!Scored(s, i, max)
           f == Tracker!Newest(i).frame
           e == [frame |-> f, score |-> Tracker!First(i)]
<1>0. s \in Seq(Listing) /\ Len(s) \in Nat /\ g # 0
  BY LenProperties, TrackerConstants DEF Lists
<1>1. \/ f = 0 /\ t = s
      \/ f \in Frames /\ Listed(s, f) /\ Raised(s, t, f, Tracker!Gain(i))
      \/ f \in Frames /\ ~Listed(s, f) /\ Len(s) < max /\ t = Append(s, e)
      \/ f \in Frames /\ ~Listed(s, f) /\ ~(Len(s) < max) /\ t = s
  BY ScoredCases
<1>2. Tracker!Gain(i) \in Nat
  <2>1. i \in 0..AccessHistory
    BY TrackerConstants
  <2> QED BY <2>1, Gains
<1>3. f \in Frames => e \in Listing /\ e.frame = f /\ e.score = Tracker!First(i)
  BY FirstTyped DEF Listing
<1>4. Len(s) <= Len(s)
  BY <1>0
<1> HIDE DEF t, f, e
<1>5. CASE f = 0 /\ t = s
  BY <1>0, <1>4, <1>5 DEF Effect, t, f
<1>6. CASE f \in Frames /\ Listed(s, f) /\ Raised(s, t, f, Tracker!Gain(i))
  BY <1>0, <1>2, <1>6, RaisedEffect DEF t, f
<1>7. CASE f \in Frames /\ ~Listed(s, f) /\ Len(s) < max /\ t = Append(s, e)
  <2>1. Distinct(Append(s, e)) /\ Effect(s, Append(s, e), e.frame, Tracker!Gain(i), e.score, g, max)
    BY <1>0, <1>3, <1>7, AppendEffect
  <2> QED BY <1>3, <1>7, <2>1 DEF t, f
<1>8. CASE f \in Frames /\ ~Listed(s, f) /\ ~(Len(s) < max) /\ t = s
  BY <1>0, <1>4, <1>8 DEF Effect, t, f
<1> QED BY <1>1, <1>5, <1>6, <1>7, <1>8

LEMMA RunDistinct ==
  ASSUME TrackerInv, NEW max \in Nat, NEW r, ScanRun(r, max)
  PROVE  \A k \in 0..AccessHistory : Distinct(r[k])
<1> DEFINE T == {k \in Nat : k <= AccessHistory => Distinct(r[k])}
<1>0. AccessHistory \in Nat
  BY TrackerConstants
<1>1. 0 \in T
  BY DEF ScanRun, Distinct
<1>2. ASSUME NEW k \in Nat, k \in T PROVE k + 1 \in T
  <2> SUFFICES ASSUME k + 1 <= AccessHistory PROVE Distinct(r[k + 1])
    OBVIOUS
  <2>1. /\ k \in 0..AccessHistory /\ k \in 0..AccessHistory - 1 /\ k + 1 \in 1..AccessHistory
        /\ k + 1 - 1 = k
    BY <1>0
  <2>2. r[k + 1] = Tracker!Scored(r[k], k, max) /\ r[k] \in Lists(max)
    BY <2>1 DEF ScanRun
  <2>3. Distinct(r[k])
    BY <1>0, <1>2, <2>1
  <2>4. 1 # 0
    OBVIOUS
  <2>5. Distinct(Tracker!Scored(r[k], k, max))
    BY <2>1, <2>2, <2>3, <2>4, ScoredEffect
  <2> QED BY <2>2, <2>5
<1> HIDE DEF T
<1>3. Nat \subseteq T
  BY <1>1, <1>2, NatInductionOnSet
<1> QED BY <1>0, <1>3 DEF T

---------------------------------------------------------------------------
(* PageTracker: who is ahead of whom *)

Used(f, n) == {i \in 0..n - 1 : accesses[Tracker!Slot(i)].frame = f}

LEMMA UsesCount ==
  ASSUME TrackerInv, NEW f, NEW n \in 0..AccessHistory - 1
  PROVE  /\ Tracker!Uses(f, n) \in Nat /\ Tracker!Uses(f, 0) = 0
         /\ Tracker!Newest(n).frame = f => Tracker!Uses(f, n + 1) = Tracker!Uses(f, n) + 1
         /\ Tracker!Newest(n).frame # f => Tracker!Uses(f, n + 1) = Tracker!Uses(f, n)
<1>0. AccessHistory \in Nat /\ n \in Nat /\ n + 1 - 1 = n
  BY TrackerConstants
<1>1. \A k : Tracker!Uses(f, k) = Cardinality(Used(f, k))
  BY DEF Tracker!Uses, Used, Cardinality, Tracker!Cardinality
<1>2. IsFiniteSet(Used(f, n))
  <2>1. IsFiniteSet(0..n - 1)
    <3>1. 0 \in Int /\ n - 1 \in Int
      BY <1>0
    <3> QED BY <3>1, FS_Interval
  <2>2. Used(f, n) \subseteq 0..n - 1
    BY DEF Used
  <2> QED BY <2>1, <2>2, FS_Subset
<1>3. Cardinality(Used(f, n)) \in Nat
  BY <1>2, FS_CardinalityType
<1>4. Used(f, 0) = {}
  BY DEF Used
<1>5. Cardinality(Used(f, 0)) = 0
  BY <1>4, FS_EmptySet
<1>6. accesses[Tracker!Slot(n)] = Tracker!Newest(n)
  BY SlotIsNewest
<1>7. 0..n + 1 - 1 = (0..n - 1) \cup {n} /\ n \notin 0..n - 1
  BY <1>0
<1>8. CASE Tracker!Newest(n).frame = f
  <2>1. Used(f, n + 1) = Used(f, n) \cup {n} /\ n \notin Used(f, n)
    BY <1>6, <1>7, <1>8 DEF Used
  <2>2. Cardinality(Used(f, n) \cup {n}) = Cardinality(Used(f, n)) + 1
    BY <1>2, <2>1, FS_AddElement
  <2> QED BY <1>1, <1>3, <1>5, <1>8, <2>1, <2>2
<1>9. CASE Tracker!Newest(n).frame # f
  <2>1. Used(f, n + 1) = Used(f, n)
    BY <1>6, <1>7, <1>9 DEF Used
  <2> QED BY <1>1, <1>3, <1>5, <1>9, <2>1
<1> QED BY <1>8, <1>9

LEMMA Products ==
  ASSUME NEW d \in Nat, NEW g \in Nat, NEW h \in Nat, h <= g
  PROVE  d * g \in Nat /\ d * h \in Nat /\ d * h <= d * g /\ (d + 1) * h = d * h + h
<1>1. d * g \in Nat /\ d * h \in Nat /\ (d + 1) * h = d * h + h
  OBVIOUS
<1>2. PICK e \in Nat : g = h + e
  <2>1. g - h \in Nat /\ g = h + (g - h)
    OBVIOUS
  <2> QED BY <2>1
<1>3. d * g = d * h + d * e /\ d * e \in Nat
  BY <1>2
<1> QED BY <1>1, <1>3

(* sp is higher than sq with d times the gain g, or at the full score.          *)
Ahead(sp, sq, d, g) == sp >= Tracker!Capped(sq + d * g + 1)

LEMMA AheadPulls ==
  ASSUME NEW sp \in 0..FullScore, NEW sq \in 0..FullScore, NEW d \in Nat, NEW g \in Nat,
         NEW h \in Nat, h <= g, Ahead(sp, sq, d, g)
  PROVE  /\ Ahead(sp, sq, d, h) /\ Ahead(Tracker!Capped(sp + g), sq, d + 1, h)
         /\ d > 0 => \A new \in 0..FullScore :
              new <= Tracker!Capped(sq + g) => Ahead(sp, new, d - 1, h)
<1>0. FullScore \in Nat
  BY TrackerConstants
<1>1. PICK a \in Nat : a = d * g
  BY Products
<1>2. PICK b \in Nat : b = d * h
  BY Products
<1>3. b <= a /\ (d + 1) * h = b + h
  BY <1>1, <1>2, Products
<1>4. sp >= IF sq + a + 1 > FullScore THEN FullScore ELSE sq + a + 1
  BY <1>1 DEF Ahead, Tracker!Capped
<1>5. sp >= IF sq + b + 1 > FullScore THEN FullScore ELSE sq + b + 1
  BY <1>0, <1>3, <1>4
<1>6. (IF sp + g > FullScore THEN FullScore ELSE sp + g)
        >= IF sq + (b + h) + 1 > FullScore THEN FullScore ELSE sq + (b + h) + 1
  BY <1>0, <1>3, <1>4
<1>7. ASSUME d > 0, NEW new \in 0..FullScore, new <= Tracker!Capped(sq + g)
      PROVE  Ahead(sp, new, d - 1, h)
  <2>1. PICK c \in Nat : c = (d - 1) * h
    BY <1>7
  <2>2. PICK e \in Nat : e = (d - 1) * g
    BY <1>7
  <2>3. c <= e /\ a = e + g
    <3>1. d - 1 \in Nat /\ d = (d - 1) + 1
      BY <1>7
    <3>2. c <= e
      BY <2>1, <2>2, <3>1, Products
    <3>3. ((d - 1) + 1) * g = (d - 1) * g + g
      <4>1. g <= g
        OBVIOUS
      <4> QED BY <3>1, <4>1, Products
    <3> QED BY <1>1, <2>2, <3>1, <3>2, <3>3
  <2>4. new <= IF sq + g > FullScore THEN FullScore ELSE sq + g
    BY <1>7 DEF Tracker!Capped
  <2>5. sp >= IF new + c + 1 > FullScore THEN FullScore ELSE new + c + 1
    BY <1>0, <1>4, <2>3, <2>4
  <2> QED BY <2>1, <2>5 DEF Ahead, Tracker!Capped
<1> QED BY <1>2, <1>3, <1>5, <1>6, <1>7 DEF Ahead, Tracker!Capped

(* After the last k accesses, p stands better than q: it is listed if q is, and *)
(* its score is higher by more than its further uses are worth, or full.        *)
Standing(s, p, q, k, max) ==
  /\ Tracker!Uses(p, k) >= Tracker!Uses(q, k)
  /\ Listed(s, q) => Listed(s, p)
  /\ ~Listed(s, p) => Tracker!Uses(p, k) = 0 \/ Len(s) = max
  /\ ~Listed(s, q) => Tracker!Uses(q, k) = 0 \/ Len(s) = max
  /\ Listed(s, p) /\ (Listed(s, q) \/ Tracker!Uses(q, k) = 0) =>
       Ahead(ScoreOf(s, p), ScoreOf(s, q), Tracker!Uses(p, k) - Tracker!Uses(q, k),
             Tracker!Gain(k))

LEMMA StandingStep ==
  ASSUME TrackerInv, NEW max \in Nat, NEW s \in Lists(max), Distinct(s),
         NEW k \in 0..AccessHistory - 1, NEW p \in Frames, NEW q \in Frames, p # q,
         Tracker!Hotter(p, q), ~Tracker!LastUseWrites(p), Standing(s, p, q, k, max)
  PROVE  Standing(Tracker!Scored(s, k, max), p, q, k + 1, max)
<1> DEFINE t == Tracker!Scored(s, k, max)
           f == Tracker!Newest(k).frame
           first == Tracker!First(k)
<1>c. AccessHistory \in Nat /\ FullScore \in Nat /\ k \in Nat /\ k + 1 \in 1..AccessHistory
      /\ k \in 0..AccessHistory /\ k + 1 - 1 = k /\ k < AccessHistory
      /\ p # 0 /\ q # 0
  BY TrackerConstants
<1>l. Len(s) \in Nat /\ Len(s) <= max /\ s \in Seq(Listing)
  BY LenProperties DEF Lists
<1>t. Len(t) \in Nat /\ Len(t) <= max /\ t \in Seq(Listing)
  <2>1. t \in Lists(max)
    BY ScoredTyped
  <2> QED BY <2>1, LenProperties DEF Lists
<1>p. Effect(s, t, f, Tracker!Gain(k), first, p, max)
  BY <1>c, ScoredEffect
<1>q. Effect(s, t, f, Tracker!Gain(k), first, q, max)
  BY <1>c, ScoredEffect
<1>f. /\ first \in 0..FullScore /\ first <= Tracker!Capped(Tracker!Gain(k))
      /\ ~Tracker!Newest(k).write => first = Tracker!Capped(Tracker!Gain(k))
  BY FirstTyped
<1>n. accesses[Tracker!Slot(k)] = Tracker!Newest(k)
  BY SlotIsNewest
<1> HIDE DEF t, first, f
<1>g. PICK g \in Nat : g = Tracker!Gain(k)
  BY <1>c, Gains
<1>h. PICK h \in Nat : h = Tracker!Gain(k + 1) /\ h < g /\ h <= g
  <2>1. k + 1 \in 0..AccessHistory
    BY <1>c
  <2> QED BY <1>c, <1>g, <2>1, Gains
<1>up. PICK up \in Nat : up = Tracker!Uses(p, k)
  BY UsesCount
<1>uq. PICK uq \in Nat : uq = Tracker!Uses(q, k)
  BY UsesCount
<1>sp. PICK sp \in 0..FullScore : sp = ScoreOf(s, p)
  BY <1>l, ScoreTyped
<1>sq. PICK sq \in 0..FullScore : sq = ScoreOf(s, q) /\ (~Listed(s, q) => sq = 0)
  BY <1>l, ScoreTyped
<1>z. ~Listed(t, q) => ScoreOf(t, q) = 0
  BY <1>t, ScoreTyped
<1>1. /\ up >= uq
      /\ Listed(s, q) => Listed(s, p)
      /\ ~Listed(s, p) => up = 0 \/ Len(s) = max
      /\ ~Listed(s, q) => uq = 0 \/ Len(s) = max
      /\ Listed(s, p) /\ (Listed(s, q) \/ uq = 0) => Ahead(sp, sq, up - uq, g)
  BY <1>g, <1>up, <1>uq, <1>sp, <1>sq DEF Standing
<1>2. PICK d \in Nat : d = up - uq
  <2>1. up - uq \in Nat
    BY <1>1
  <2> QED BY <2>1
<1>3. Len(s) = max => Len(t) = max
  BY <1>l, <1>t, <1>p DEF Effect
<1>u. /\ f = p => Tracker!Uses(p, k + 1) = up + 1
      /\ f # p => Tracker!Uses(p, k + 1) = up
      /\ f = q => Tracker!Uses(q, k + 1) = uq + 1
      /\ f # q => Tracker!Uses(q, k + 1) = uq
  BY <1>up, <1>uq, UsesCount DEF f
<1>4. CASE f = p
  <2>1. Tracker!Uses(p, k + 1) = up + 1 /\ Tracker!Uses(q, k + 1) = uq
    BY <1>4, <1>u
  <2>2. (Listed(t, q) <=> Listed(s, q)) /\ ScoreOf(t, q) = sq
    BY <1>4, <1>q, <1>sq DEF Effect
  <2>3. up + 1 >= uq /\ up + 1 - uq = d + 1
    BY <1>1, <1>2
  <2>4. ~Listed(t, q) => uq = 0 \/ Len(t) = max
    BY <1>1, <1>3, <2>2
  <2>5. CASE Listed(s, p)
    <3>1. Listed(t, p) /\ ScoreOf(t, p) = Tracker!Capped(sp + g)
      BY <1>4, <1>g, <1>p, <1>sp, <2>5 DEF Effect
    <3>2. ASSUME Listed(s, q) \/ uq = 0 PROVE Ahead(Tracker!Capped(sp + g), sq, d + 1, h)
      BY <1>1, <1>2, <1>h, <2>5, <3>2, AheadPulls
    <3> QED BY <1>h, <2>1, <2>2, <2>3, <2>4, <3>1, <3>2 DEF Standing, t
  <2>6. CASE ~Listed(s, p) /\ Len(s) < max
    <3>1. up = 0 /\ uq = 0 /\ ~Listed(s, q)
      BY <1>1, <1>l, <2>6
    <3>2. ~Tracker!Newest(k).write
      <4>1. PICK n \in 1..AccessHistory : n = k + 1 /\ n - 1 = k
        BY <1>c
      <4>2. /\ accesses[Tracker!Slot(n - 1)].frame = p /\ Tracker!Uses(p, n - 1) = 0
            /\ accesses[Tracker!Slot(n - 1)] = Tracker!Newest(k)
        BY <1>4, <1>n, <1>up, <3>1, <4>1 DEF f
      <4>3. ~accesses[Tracker!Slot(n - 1)].write
        BY <4>2, Zenon DEF Tracker!LastUseWrites
      <4> QED BY <4>2, <4>3
    <3>3. Listed(t, p) /\ ScoreOf(t, p) = Tracker!Capped(g)
      BY <1>4, <1>f, <1>g, <1>p, <2>6, <3>2 DEF Effect
    <3>4. sq = 0 /\ d + 1 = 1
      BY <1>2, <1>sq, <3>1
    <3>5. Ahead(Tracker!Capped(g), 0, 1, h)
      BY <1>c, <1>h DEF Ahead, Tracker!Capped
    <3>6. Ahead(ScoreOf(t, p), ScoreOf(t, q), up + 1 - uq, h)
      BY <2>2, <2>3, <3>3, <3>4, <3>5
    <3> QED BY <1>h, <2>1, <2>2, <2>3, <2>4, <3>3, <3>6 DEF Standing, t
  <2>7. CASE ~Listed(s, p) /\ ~(Len(s) < max)
    <3>1. Len(t) = max /\ ~Listed(t, p) /\ ~Listed(t, q)
      BY <1>1, <1>3, <1>4, <1>l, <1>p, <2>2, <2>7 DEF Effect
    <3> QED BY <2>1, <2>3, <3>1 DEF Standing, t
  <2> QED BY <2>5, <2>6, <2>7
<1>5. CASE f = q
  <2>1. Tracker!Uses(p, k + 1) = up /\ Tracker!Uses(q, k + 1) = uq + 1
    BY <1>5, <1>u
  <2>2. (Listed(t, p) <=> Listed(s, p)) /\ ScoreOf(t, p) = sp
    BY <1>5, <1>p, <1>sp DEF Effect
  <2>3. up >= uq + 1
    <3>1. Tracker!Uses(p, k) >= Tracker!Uses(q, k + 1)
      BY <1>5, <1>c, <1>n DEF Tracker!Hotter, f
    <3> QED BY <1>up, <2>1, <3>1
  <2>4. d > 0 /\ d - 1 = up - (uq + 1) /\ up # 0 /\ uq + 1 # 0
    BY <1>2, <2>3
  <2>5. ~Listed(t, p) => Len(t) = max
    BY <1>1, <1>3, <2>2, <2>4
  <2>6. CASE Listed(s, q)
    <3>1. Listed(t, q) /\ ScoreOf(t, q) = Tracker!Capped(sq + g)
      BY <1>5, <1>g, <1>q, <1>sq, <2>6 DEF Effect
    <3>2. PICK new \in 0..FullScore : new = Tracker!Capped(sq + g)
      BY <1>c, CappedTyped
    <3>3. new <= new
      BY <1>c
    <3>4. Ahead(sp, new, d - 1, h)
      BY <1>1, <1>2, <1>h, <2>4, <2>6, <3>2, <3>3, AheadPulls
    <3> QED BY <1>1, <1>h, <2>1, <2>2, <2>3, <2>4, <2>5, <2>6, <3>1, <3>2, <3>4
            DEF Standing, t
  <2>7. CASE ~Listed(s, q) /\ Len(s) < max
    <3>1. uq = 0 /\ Listed(s, p)
      BY <1>1, <1>l, <2>4, <2>7
    <3>2. Listed(t, q) /\ ScoreOf(t, q) = first
      BY <1>5, <1>q, <2>7 DEF Effect
    <3>3. first <= Tracker!Capped(sq + g) /\ first \in 0..FullScore
      <4>1. sq = 0 /\ sq + g = g
        BY <1>sq, <2>7
      <4> QED BY <1>f, <1>g, <4>1
    <3>4. Ahead(sp, sq, d, g)
      BY <1>1, <1>2, <3>1
    <3>5. Ahead(sp, first, d - 1, h)
      BY <1>h, <2>4, <3>3, <3>4, AheadPulls
    <3> QED BY <1>h, <2>1, <2>2, <2>3, <2>4, <3>1, <3>2, <3>5 DEF Standing, t
  <2>8. CASE ~Listed(s, q) /\ ~(Len(s) < max)
    <3>1. Len(t) = max /\ ~Listed(t, q)
      BY <1>3, <1>5, <1>l, <1>q, <2>8 DEF Effect
    <3> QED BY <2>1, <2>3, <2>4, <3>1 DEF Standing, t
  <2> QED BY <2>6, <2>7, <2>8
<1>6. CASE f # p /\ f # q
  <2>1. Tracker!Uses(p, k + 1) = up /\ Tracker!Uses(q, k + 1) = uq
    BY <1>6, <1>u
  <2>2. /\ (Listed(t, p) <=> Listed(s, p)) /\ ScoreOf(t, p) = sp
        /\ (Listed(t, q) <=> Listed(s, q)) /\ ScoreOf(t, q) = sq
    BY <1>6, <1>p, <1>q, <1>sp, <1>sq DEF Effect
  <2>3. ASSUME Listed(s, p), Listed(s, q) \/ uq = 0 PROVE Ahead(sp, sq, up - uq, h)
    BY <1>1, <1>2, <1>h, <2>3, AheadPulls
  <2> QED BY <1>1, <1>3, <1>h, <2>1, <2>2, <2>3 DEF Standing, t
<1> QED BY <1>4, <1>5, <1>6

(* p comes before q.                                                            *)
InFront(s, p, q) == \A x, y \in DOMAIN s : s[x].frame = p /\ s[y].frame = q => x < y

LEMMA InFrontStep ==
  ASSUME TrackerInv, NEW max \in Nat, NEW s \in Lists(max), NEW k \in 0..AccessHistory - 1,
         NEW p, NEW q, p # q, Listed(s, q) => Listed(s, p), InFront(s, p, q)
  PROVE  InFront(Tracker!Scored(s, k, max), p, q)
<1> DEFINE t == Tracker!Scored(s, k, max)
           f == Tracker!Newest(k).frame
           e == [frame |-> f, score |-> Tracker!First(k)]
<1>0. s \in Seq(Listing) /\ Len(s) \in Nat /\ DOMAIN s = 1..Len(s)
  BY LenProperties DEF Lists
<1>1. \/ t = s
      \/ Raised(s, t, f, Tracker!Gain(k))
      \/ f \in Frames /\ ~Listed(s, f) /\ t = Append(s, e)
  BY ScoredCases
<1>2. f \in Frames => e \in Listing /\ e.frame = f
  BY FirstTyped DEF Listing
<1> HIDE DEF t, f, e
<1>3. CASE t = s
  BY <1>3 DEF t
<1>4. CASE Raised(s, t, f, Tracker!Gain(k))
  <2>1. DOMAIN t = DOMAIN s /\ \A x \in DOMAIN s : t[x].frame = s[x].frame
    BY <1>0, <1>4, LenProperties DEF Raised
  <2> QED BY <2>1 DEF InFront, t
<1>5. CASE f \in Frames /\ ~Listed(s, f) /\ t = Append(s, e)
  <2>1. /\ t \in Seq(Listing) /\ Len(t) = Len(s) + 1
        /\ \A x \in 1..Len(s) : t[x] = s[x]
        /\ t[Len(s) + 1] = e
    BY <1>0, <1>2, <1>5, AppendProperties
  <2>2. DOMAIN t = 1..Len(s) + 1
    BY <2>1, LenProperties
  <2> SUFFICES ASSUME NEW x \in 1..Len(s) + 1, NEW y \in 1..Len(s) + 1,
                      t[x].frame = p, t[y].frame = q
               PROVE  x < y
    BY <2>2 DEF InFront, t
  <2>3. CASE y \in 1..Len(s)
    <3>1. Listed(s, q) /\ Listed(s, p)
      BY <1>0, <2>1, <2>3 DEF Listed
    <3>2. x # Len(s) + 1
      BY <1>2, <1>5, <2>1, <3>1
    <3>3. x \in 1..Len(s)
      BY <1>0, <3>2
    <3> QED BY <1>0, <2>1, <2>3, <3>3 DEF InFront
  <2>4. CASE y \notin 1..Len(s)
    <3>1. y = Len(s) + 1
      BY <1>0, <2>4
    <3>2. x # y
      OBVIOUS
    <3> QED BY <1>0, <3>1, <3>2
  <2> QED BY <2>3, <2>4
<1> QED BY <1>1, <1>3, <1>4, <1>5

---------------------------------------------------------------------------
(* PageTracker: what is predicted *)

LEMMA ListedWasUsed ==
  ASSUME TrackerInv, NEW max \in Nat, NEW r, ScanRun(r, max), NEW g \in Frames,
         Listed(r[AccessHistory], g)
  PROVE  \E n \in 1..AccessHistory : accesses[Tracker!Slot(n - 1)].frame = g
<1> DEFINE T == {k \in Nat : k <= AccessHistory /\ Listed(r[k], g) =>
                   \E n \in 1..AccessHistory : accesses[Tracker!Slot(n - 1)].frame = g}
<1>0. AccessHistory \in Nat /\ g # 0
  BY TrackerConstants
<1>1. 0 \in T
  BY DEF ScanRun, Listed
<1>2. ASSUME NEW k \in Nat, k \in T PROVE k + 1 \in T
  <2> SUFFICES ASSUME k + 1 <= AccessHistory, Listed(r[k + 1], g)
               PROVE  \E n \in 1..AccessHistory : accesses[Tracker!Slot(n - 1)].frame = g
    OBVIOUS
  <2>1. /\ k \in 0..AccessHistory /\ k \in 0..AccessHistory - 1 /\ k + 1 \in 1..AccessHistory
        /\ k + 1 - 1 = k /\ k <= AccessHistory
    BY <1>0
  <2>2. r[k + 1] = Tracker!Scored(r[k], k, max) /\ r[k] \in Lists(max)
    BY <2>1 DEF ScanRun
  <2>3. Distinct(r[k])
    BY <2>1, RunDistinct
  <2>4. Effect(r[k], r[k + 1], Tracker!Newest(k).frame, Tracker!Gain(k), Tracker!First(k), g, max)
    BY <1>0, <2>1, <2>2, <2>3, ScoredEffect
  <2>5. CASE Tracker!Newest(k).frame = g
    <3>1. PICK n \in 1..AccessHistory : n - 1 = k
      BY <2>1
    <3>2. accesses[Tracker!Slot(n - 1)] = Tracker!Newest(k)
      BY <2>1, <3>1, SlotIsNewest
    <3> QED BY <2>5, <3>2
  <2>6. CASE Tracker!Newest(k).frame # g
    BY <1>2, <2>1, <2>4, <2>6 DEF Effect
  <2> QED BY <2>5, <2>6
<1> HIDE DEF T
<1>3. AccessHistory \in T
  BY <1>0, <1>1, <1>2, NatInductionOnSet
<1> QED BY <1>0, <1>3 DEF T

(* A used frame is not hotter than itself.                                      *)
LEMMA NotHotterThanItself ==
  ASSUME TrackerInv, NEW p, Tracker!Hotter(p, p), NEW n \in 1..AccessHistory,
         accesses[Tracker!Slot(n - 1)].frame = p
  PROVE  FALSE
<1>0. AccessHistory \in Nat
  BY TrackerConstants
<1>1. PICK k \in 0..AccessHistory - 1 : k = n - 1 /\ n = k + 1
  BY <1>0
<1>2. Tracker!Newest(k).frame = p
  BY <1>1, SlotIsNewest
<1>3. PICK u \in Nat : u = Tracker!Uses(p, k)
  BY UsesCount
<1>4. Tracker!Uses(p, k + 1) = u + 1
  BY <1>2, <1>3, UsesCount
<1>5. Tracker!Uses(p, k) >= Tracker!Uses(p, k + 1)
  BY <1>1 DEF Tracker!Hotter
<1> QED BY <1>3, <1>4, <1>5

LEMMA StandingEnds ==
  ASSUME TrackerInv, NEW max \in Nat, NEW r, ScanRun(r, max), NEW p \in Frames,
         NEW q \in Frames, p # q, Tracker!Hotter(p, q), ~Tracker!LastUseWrites(p)
  PROVE  Standing(r[AccessHistory], p, q, AccessHistory, max) /\ InFront(r[AccessHistory], p, q)
<1> DEFINE T == {k \in Nat : k <= AccessHistory =>
                   Standing(r[k], p, q, k, max) /\ InFront(r[k], p, q)}
<1>0. AccessHistory \in Nat \ {0} /\ 0 \in 0..AccessHistory - 1
  BY TrackerConstants
<1>1. 0 \in T
  <2>1. r[0] = <<>>
    BY DEF ScanRun
  <2>2. Tracker!Uses(p, 0) = 0 /\ Tracker!Uses(q, 0) = 0
    BY <1>0, UsesCount
  <2>3. ~Listed(r[0], p) /\ ~Listed(r[0], q)
    BY <2>1 DEF Listed
  <2>4. InFront(r[0], p, q)
    BY <2>1 DEF InFront
  <2> QED BY <2>2, <2>3, <2>4 DEF Standing
<1>2. ASSUME NEW k \in Nat, k \in T PROVE k + 1 \in T
  <2> SUFFICES ASSUME k + 1 <= AccessHistory
               PROVE  Standing(r[k + 1], p, q, k + 1, max) /\ InFront(r[k + 1], p, q)
    OBVIOUS
  <2>1. /\ k \in 0..AccessHistory /\ k \in 0..AccessHistory - 1 /\ k + 1 \in 1..AccessHistory
        /\ k + 1 - 1 = k /\ k <= AccessHistory
    BY <1>0
  <2>2. r[k + 1] = Tracker!Scored(r[k], k, max) /\ r[k] \in Lists(max)
    BY <2>1 DEF ScanRun
  <2>3. Distinct(r[k])
    BY <2>1, RunDistinct
  <2>4. Standing(r[k], p, q, k, max) /\ InFront(r[k], p, q)
    BY <1>2, <2>1
  <2>5. Listed(r[k], q) => Listed(r[k], p)
    BY <2>4 DEF Standing
  <2>6. InFront(r[k + 1], p, q)
    BY <2>1, <2>2, <2>4, <2>5, InFrontStep
  <2> QED BY <2>1, <2>2, <2>3, <2>4, <2>6, StandingStep
<1> HIDE DEF T
<1>3. AccessHistory \in T
  BY <1>0, <1>1, <1>2, NatInductionOnSet
<1> QED BY <1>0, <1>3 DEF T

(* The prediction rearranges what the scan lists by descending score.           *)
LEMMA PredictedFacts ==
  ASSUME TrackerInv, NEW max \in Nat
  PROVE  LET out == Tracker!Predicted(max)
             scan == Tracker!Scan(max)
         IN  \E n \in Nat :
               /\ n <= max /\ Len(out) = n /\ DOMAIN out = 1..n
               /\ scan \in Seq(Listing) /\ DOMAIN scan = 1..n /\ Distinct(scan)
               /\ Rearranged(out, n, scan) /\ Leading(out, n, n) /\ FullOrder(out, n, scan)
<1> DEFINE out == Tracker!Predicted(max)
           scan == Tracker!Scan(max)
<1>0. AccessHistory \in Nat /\ AccessHistory \in 0..AccessHistory
  BY TrackerConstants
<1>1. PICK r : ScanRun(r, max) /\ scan = r[AccessHistory]
  BY ScanRuns
<1>2. scan \in Seq(Listing) /\ Len(scan) <= max /\ Distinct(scan)
  BY <1>0, <1>1, RunDistinct DEF ScanRun, Lists
<1>3. out = Tracker!Sorted(scan)
  BY DEF Tracker!Predicted
<1> HIDE DEF out, scan
<1>4. PICK n \in Nat : n = Len(scan) /\ DOMAIN scan = 1..n /\ scan \in [1..n -> Listing]
  BY <1>2, LenProperties
<1>5. Rearranged(scan, n, scan)
  BY <1>2, <1>4 DEF Rearranged, Distinct
<1>6. Rearranged(out, n, scan) /\ Leading(out, n, n) /\ FullOrder(out, n, scan)
  <2>1. CASE n = 0
    <3>1. scan = <<>>
      BY <1>2, <1>4, <2>1, EmptySeq
    <3>2. out = scan
      BY <1>3, <3>1, NoneSorted
    <3>3. Leading(out, n, n) /\ FullOrder(out, n, scan)
      BY <2>1 DEF Leading, FullOrder, InOrder
    <3> QED BY <1>5, <3>2, <3>3
  <2>2. CASE n > 0
    BY <1>3, <1>5, <2>2, SortedDescends
  <2> QED BY <2>1, <2>2
<1>7. out \in [1..n -> Listing]
  BY <1>6 DEF Rearranged
<1>8. out \in Seq(Listing) /\ DOMAIN out = 1..n
  BY <1>7, FunctionIsSeq
<1>9. Len(out) = n
  BY <1>7, <1>8, LenProperties
<1> QED BY <1>2, <1>4, <1>6, <1>8, <1>9 DEF out, scan

(* The place and the score of a listed frame in the prediction.                 *)
LEMMA ListedPlace ==
  ASSUME NEW n \in Nat, NEW scan \in Seq(Listing), DOMAIN scan = 1..n, Distinct(scan),
         NEW out, DOMAIN out = 1..n, Rearranged(out, n, scan), NEW g, Listed(scan, g)
  PROVE  LET at == CHOOSE i \in DOMAIN out : out[i].frame = g
         IN  /\ at \in 1..n /\ out[at].frame = g /\ out[at].score = ScoreOf(scan, g)
             /\ g \in {out[i].frame : i \in DOMAIN out}
<1> DEFINE at == CHOOSE i \in DOMAIN out : out[i].frame = g
<1>1. PICK x \in 1..n : scan[x].frame = g
  BY DEF Listed
<1>2. ScoreOf(scan, g) = scan[x].score
  BY <1>1, ScoreOfListed
<1>3. PICK y \in 1..n : scan[x] = out[y]
  BY DEF Rearranged
<1>4. at \in 1..n /\ out[at].frame = g
  BY <1>1, <1>3
<1> HIDE DEF at
<1>5. at = y
  BY <1>1, <1>3, <1>4 DEF Rearranged
<1> QED BY <1>1, <1>2, <1>3, <1>4, <1>5 DEF at

LEMMA AdviceOrder ==
  ASSUME NEW n \in Nat, NEW i \in 1..n, NEW j \in 1..n, i < j
  PROVE  ~(Tracker!Advice(n, i) = "swap_out" /\ Tracker!Advice(n, j) = "swap_in")
<1>1. n \div 3 <= (2 * n) \div 3 /\ n \div 3 \in Nat /\ (2 * n) \div 3 \in Nat
  OBVIOUS
<1>2. PICK a \in Nat : a = n \div 3
  BY <1>1
<1>3. PICK b \in Nat : b = (2 * n) \div 3
  BY <1>1
<1>4. a <= b
  BY <1>1, <1>2, <1>3
<1>5. CASE i - 1 > b
  <2>1. ~(j - 1 < a)
    BY <1>4, <1>5
  <2>2. Tracker!Advice(n, j) # "swap_in"
    BY <1>2, <1>3, <2>1 DEF Tracker!Advice
  <2> QED BY <2>2
<1>6. CASE ~(i - 1 > b)
  <2>1. Tracker!Advice(n, i) # "swap_out"
    BY <1>2, <1>3, <1>6 DEF Tracker!Advice
  <2> QED BY <2>1
<1> QED BY <1>5, <1>6

LEMMA HotterStands ==
  ASSUME TrackerInv, NEW max \in Nat, NEW p \in Frames, NEW q \in Frames,
         Tracker!Hotter(p, q), ~Tracker!LastUseWrites(p), Listed(Tracker!Scan(max), q)
  PROVE  /\ p # q /\ Listed(Tracker!Scan(max), p) /\ InFront(Tracker!Scan(max), p, q)
         /\ \/ ScoreOf(Tracker!Scan(max), p) > ScoreOf(Tracker!Scan(max), q)
            \/ ScoreOf(Tracker!Scan(max), p) = FullScore
<1> DEFINE scan == Tracker!Scan(max)
<1>0. AccessHistory \in Nat \ {0} /\ AccessHistory - 1 \in 0..AccessHistory - 1
      /\ AccessHistory - 1 + 1 = AccessHistory /\ AccessHistory \in 0..AccessHistory
      /\ FullScore \in Nat
  BY TrackerConstants
<1>1. PICK r : ScanRun(r, max) /\ scan = r[AccessHistory]
  BY ScanRuns
<1> HIDE DEF scan
<1>q. Listed(r[AccessHistory], q)
  BY <1>1 DEF scan
<1>2. p # q
  <2>1. PICK n \in 1..AccessHistory : accesses[Tracker!Slot(n - 1)].frame = q
    BY <1>1, <1>q, ListedWasUsed
  <2> QED BY <2>1, NotHotterThanItself
<1>3. Standing(r[AccessHistory], p, q, AccessHistory, max) /\ InFront(r[AccessHistory], p, q)
  BY <1>1, <1>2, StandingEnds
<1> DEFINE d == Tracker!Uses(p, AccessHistory) - Tracker!Uses(q, AccessHistory)
<1>4. /\ Listed(r[AccessHistory], p)
      /\ Ahead(ScoreOf(scan, p), ScoreOf(scan, q), d, Tracker!Gain(AccessHistory))
      /\ Tracker!Uses(p, AccessHistory) >= Tracker!Uses(q, AccessHistory)
  BY <1>1, <1>3, <1>q DEF Standing
<1>5. d \in Nat
  <2>1. \A f : Tracker!Uses(f, AccessHistory) \in Nat
    <3> SUFFICES ASSUME NEW f PROVE Tracker!Uses(f, AccessHistory) \in Nat
      OBVIOUS
    <3>1. PICK k \in 0..AccessHistory - 1 : k + 1 = AccessHistory
      BY <1>0
    <3>2. PICK u \in Nat : u = Tracker!Uses(f, k)
      BY UsesCount
    <3>3. Tracker!Uses(f, k + 1) = u + 1 \/ Tracker!Uses(f, k + 1) = u
      BY <3>2, UsesCount
    <3> QED BY <3>1, <3>2, <3>3
  <2>2. PICK a \in Nat : a = Tracker!Uses(p, AccessHistory)
    BY <2>1
  <2>3. PICK b \in Nat : b = Tracker!Uses(q, AccessHistory)
    BY <2>1
  <2> QED BY <1>4, <2>2, <2>3
<1>6. PICK g \in Nat : g = Tracker!Gain(AccessHistory)
  BY <1>0, Gains
<1> HIDE DEF d
<1>7. PICK v \in Nat : v = d * g
  <2>1. g <= g
    OBVIOUS
  <2> QED BY <1>5, <2>1, Products
<1>8. scan \in Seq(Listing)
  BY <1>0, <1>1 DEF ScanRun, Lists
<1>9. PICK sp \in 0..FullScore : sp = ScoreOf(scan, p)
  BY <1>8, ScoreTyped
<1>10. PICK sq \in 0..FullScore : sq = ScoreOf(scan, q)
  BY <1>8, ScoreTyped
<1>11. sp >= IF sq + v + 1 > FullScore THEN FullScore ELSE sq + v + 1
  BY <1>4, <1>6, <1>7, <1>9, <1>10 DEF Ahead, Tracker!Capped
<1>12. sp > sq \/ sp = FullScore
  BY <1>0, <1>11
<1> QED BY <1>1, <1>2, <1>3, <1>4, <1>9, <1>10, <1>12 DEF scan

LEMMA HotterIsAhead == TrackerInv => Tracker!HotterInFront
<1> SUFFICES ASSUME TrackerInv, NEW max \in 1..MaxOut
    PROVE  LET out == Tracker!Predicted(max)
               at(p) == CHOOSE i \in DOMAIN out : out[i].frame = p
               listed == {out[i].frame : i \in DOMAIN out}
           IN  \A q \in listed, p \in Frames :
                 Tracker!Hotter(p, q) /\ ~Tracker!LastUseWrites(p) =>
                   /\ p \in listed /\ at(p) < at(q)
                   /\ ~(/\ Tracker!Advice(Len(out), at(p)) = "swap_out"
                        /\ Tracker!Advice(Len(out), at(q)) = "swap_in")
  BY DEF Tracker!HotterInFront
<1> DEFINE out == Tracker!Predicted(max)
           scan == Tracker!Scan(max)
           at(p) == CHOOSE i \in DOMAIN out : out[i].frame = p
           listed == {out[i].frame : i \in DOMAIN out}
<1>0. max \in Nat
  BY TrackerConstants
<1>1. PICK n \in Nat :
        /\ n <= max /\ Len(out) = n /\ DOMAIN out = 1..n
        /\ scan \in Seq(Listing) /\ DOMAIN scan = 1..n /\ Distinct(scan)
        /\ Rearranged(out, n, scan) /\ Leading(out, n, n) /\ FullOrder(out, n, scan)
  BY <1>0, PredictedFacts
<1> SUFFICES ASSUME NEW q \in listed, NEW p \in Frames, Tracker!Hotter(p, q),
                    ~Tracker!LastUseWrites(p)
    PROVE  /\ p \in listed /\ at(p) < at(q)
           /\ ~(/\ Tracker!Advice(Len(out), at(p)) = "swap_out"
                /\ Tracker!Advice(Len(out), at(q)) = "swap_in")
  OBVIOUS
<1>2. q \in Frames /\ Listed(scan, q)
  <2>1. PICK i \in 1..n : q = out[i].frame
    BY <1>1
  <2>2. PICK j \in 1..n : out[i] = scan[j]
    BY <1>1 DEF Rearranged
  <2>3. out[i] \in Listing
    BY <1>1 DEF Rearranged
  <2> QED BY <1>1, <2>1, <2>2, <2>3 DEF Listing, Listed
<1>3. /\ p # q /\ Listed(scan, p) /\ InFront(scan, p, q)
      /\ ScoreOf(scan, p) > ScoreOf(scan, q) \/ ScoreOf(scan, p) = FullScore
  BY <1>0, <1>2, HotterStands
<1> HIDE DEF out, scan
<1>4. at(p) \in 1..n /\ out[at(p)].frame = p /\ out[at(p)].score = ScoreOf(scan, p)
      /\ p \in listed
  BY <1>1, <1>3, ListedPlace
<1>5. at(q) \in 1..n /\ out[at(q)].frame = q /\ out[at(q)].score = ScoreOf(scan, q)
  BY <1>1, <1>2, ListedPlace
<1> HIDE DEF at, listed
<1>6. PICK x \in 1..n : x = at(p)
  BY <1>4
<1>7. PICK y \in 1..n : y = at(q)
  BY <1>5
<1>8. /\ out[x] \in Listing /\ out[x].score \in 0..FullScore
      /\ out[y] \in Listing /\ out[y].score \in 0..FullScore
  <2>1. out[x] \in Listing /\ out[y] \in Listing
    BY <1>1 DEF Rearranged
  <2> QED BY <2>1 DEF Listing
<1>9. out[x].score > out[y].score \/ out[x].score = FullScore
  BY <1>3, <1>4, <1>5, <1>6, <1>7
<1>10. x # y
  BY <1>3, <1>4, <1>5, <1>6, <1>7
<1>11. FullScore \in Nat
  BY TrackerConstants
<1>12. y < x => out[y].score >= out[x].score
  BY <1>1 DEF Leading
<1>13. x < y
  <2>1. CASE out[x].score > out[y].score
    BY <1>8, <1>10, <1>11, <1>12, <2>1
  <2>2. CASE out[x].score = FullScore /\ out[y].score # FullScore
    BY <1>8, <1>10, <1>11, <1>12, <2>2
  <2>3. CASE out[x].score = FullScore /\ out[y].score = FullScore
    <3>1. out[x] \in Full /\ out[y] \in Full
      BY <1>8, <2>3 DEF Full
    <3>2. InOrder(scan, n, out[x], out[y])
      BY <1>1, <1>3, <1>4, <1>5, <1>6, <1>7 DEF InFront, InOrder
    <3>3. InOrder(out, n, out[x], out[y])
      BY <1>1, <3>1, <3>2 DEF FullOrder
    <3> QED BY <3>3 DEF InOrder
  <2> QED BY <1>9, <2>1, <2>2, <2>3
<1>14. ~(Tracker!Advice(n, x) = "swap_out" /\ Tracker!Advice(n, y) = "swap_in")
  BY <1>13, AdviceOrder
<1> QED BY <1>1, <1>4, <1>6, <1>7, <1>13, <1>14

TrackerBound == predictions \in 0..MaxOut

LEMMA TrackerStart == Tracker!Init => TrackerInv /\ TrackerBound
<1> SUFFICES ASSUME Tracker!Init PROVE TrackerInv /\ TrackerBound
  OBVIOUS
<1>1. /\ accesses = [i \in 0..AccessHistory - 1 |-> [frame |-> 0, write |-> FALSE]]
      /\ head = 0 /\ tracking = TRUE /\ predictions = 0
  BY DEF Tracker!Init
<1>2. 0 \in 0..AccessHistory - 1 /\ 0 \in 0..MaxOut
  BY TrackerConstants
<1> QED BY <1>1, <1>2 DEF TrackerInv, TrackerBound

LEMMA TrackerStep ==
  TrackerInv /\ TrackerBound /\ [Tracker!Next]_(Tracker!trackerVars)
    => TrackerInv' /\ TrackerBound'
<1> SUFFICES ASSUME TrackerInv, TrackerBound,
                    [Tracker!Next]_(Tracker!trackerVars)
             PROVE  TrackerInv' /\ TrackerBound'
  OBVIOUS
<1>0. AccessHistory \in Nat \ {0} /\ MaxOut \in Nat
  BY TrackerConstants
<1>1. CASE UNCHANGED Tracker!trackerVars
  BY <1>1 DEF Tracker!trackerVars, TrackerInv, TrackerBound
<1>2. ASSUME NEW frame \in Frames, NEW write \in BOOLEAN, Tracker!Record(frame, write)
      PROVE  TrackerInv' /\ TrackerBound'
  <2> DEFINE e == [frame |-> frame, write |-> write]
  <2>1. /\ accesses' = [accesses EXCEPT ![head] = e]
        /\ head' = (head + 1) % AccessHistory /\ UNCHANGED <<tracking, predictions>>
    BY <1>2 DEF Tracker!Record
  <2>2. e \in [frame : Frames \cup {0}, write : BOOLEAN]
    OBVIOUS
  <2> HIDE DEF e
  <2>3. accesses' \in [0..AccessHistory - 1 -> [frame : Frames \cup {0}, write : BOOLEAN]]
    BY <2>1, <2>2 DEF TrackerInv
  <2>4. head' \in 0..AccessHistory - 1
    <3>1. PICK h \in 0..AccessHistory - 1 : h = head
      BY DEF TrackerInv
    <3>2. (h + 1) % AccessHistory \in 0..AccessHistory - 1
      BY <1>0
    <3> QED BY <2>1, <3>1, <3>2
  <2> QED BY <2>1, <2>3, <2>4 DEF TrackerInv, TrackerBound
<1>3. ASSUME NEW max \in 1..MaxOut, Tracker!Predict(max)
      PROVE  TrackerInv' /\ TrackerBound'
  <2>1. predictions' = Len(Tracker!Predicted(max)) /\ UNCHANGED <<accesses, head, tracking>>
    BY <1>3 DEF Tracker!Predict
  <2>2. max \in Nat
    BY <1>0
  <2>3. PICK n \in Nat : n <= max /\ Len(Tracker!Predicted(max)) = n
    BY <2>2, PredictedFacts
  <2>4. n \in 0..MaxOut
    BY <1>0, <2>3
  <2> QED BY <2>1, <2>3, <2>4 DEF TrackerInv, TrackerBound
<1>4. CASE Tracker!Switch
  BY <1>4 DEF Tracker!Switch, TrackerInv, TrackerBound
<1> QED BY <1>1, <1>2, <1>3, <1>4 DEF Tracker!Next

LEMMA TrackerKept == Spec => [](TrackerInv /\ TrackerBound)
  BY TrackerStart, TrackerStep, PartsFollowTheirSpecs, PTL DEF Tracker!Spec

(* The types of PageTracker: a prediction is no longer than was asked for.      *)
THEOREM TrackerTypes == Spec => []Tracker!TypeOK
<1>1. TrackerInv /\ TrackerBound => Tracker!TypeOK
  BY DEF TrackerInv, TrackerBound, Tracker!TypeOK
<1> QED BY <1>1, TrackerKept, PTL

(* Property HotterInFront of PageTracker, part of AdviceSound, for a ring, a    *)
(* list and a full score of any size: the score of a page that was used more    *)
(* recently than another throughout, and not last for writing, stays higher     *)
(* than the other's or at the cap, where the sort keeps the order in which the  *)
(* scan met the pages; so it is in front.                                       *)
THEOREM HotterTheorem == Spec => []Tracker!HotterInFront
  BY TrackerKept, HotterIsAhead, PTL

---------------------------------------------------------------------------
(* The parts together *)

(* Property AdviceSound: the load figures exceed the queued tasks by exactly    *)
(* the dequeues that found zero, denials under a threshold no name reaches have *)
(* a history of six executions, and a page used more recently than another, and *)
(* not last for writing, is ranked in front of it.                              *)
THEOREM AdviceTheorem == Spec => []AdviceSound
<1>1. Sched!LoadAccounted /\ Filters!DenialNeedsHistory /\ Tracker!HotterInFront
        => AdviceSound
  BY DEF AdviceSound
<1> QED BY <1>1, LoadTheorem, DenialTheorem, HotterTheorem, PTL

LEMMA FocusKept == Spec => [](focus \in Parts)
<1>1. Init => focus \in Parts
  BY DEF Init
<1>2. focus \in Parts /\ [Next]_vars => (focus \in Parts)'
  BY DEF Next, vars
<1> QED BY <1>1, <1>2, PTL DEF Spec

(* Property TypesOK: every part keeps its type, and the page history and the    *)
(* DNS cache one record of each page and host.                                  *)
THEOREM TypesTheorem == Spec => []TypesOK
<1>1. /\ focus \in Parts
      /\ Syscall!TypeOK /\ Alerts!TypeOK /\ Degrade!TypeOK
      /\ Caches!TypeOK /\ Caches!OneRecordPerKey
      /\ Sched!TypeOK /\ Filters!TypeOK /\ Kernel2!TypeOK /\ Client!TypeOK
      /\ Router!TypeOK /\ Web!TypeOK /\ Watch!TypeOK /\ Tracker!TypeOK
      => TypesOK
  BY DEF TypesOK
<1> QED BY <1>1, FocusKept, SyscallTypes, AlertTypes, DegradationTypes, CachesTheorem,
           SchedTypes, FilterTypes, KernelTypes, ClientTypes, RouterTypeCorrect,
           WebTypeCorrect, WatchTypes, TrackerTypes, PTL
=============================================================================
