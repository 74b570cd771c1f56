----------------------------- MODULE SumProofs -----------------------------
(***************************************************************************)
(* Facts about SumFunction, the sum of a function with a finite domain.    *)
(*                                                                         *)
(* The community modules define it by a fold, which CHOOSEs the function   *)
(* of partial sums over the subsets of the domain.  Induction is needed    *)
(* twice: to show that there is such a function, and to compare the sums   *)
(* of two functions.  Instead of the library's induction rules, which take *)
(* the goal as an operator, the two rules below take the set of all        *)
(* subsets, or numbers, of which the goal is true.                         *)
(***************************************************************************)
EXTENDS Functions, FiniteSets, FiniteSetTheorems, TLAPS

\* Induction over the subsets of a finite set, removing an element at a time.
LEMMA FiniteSetsBySize ==
    ASSUME NEW S, IsFiniteSet(S),
           NEW Good \in SUBSET (SUBSET S),
           {} \in Good,
           \A s \in SUBSET S : s # {} /\ (\A x \in s : s \ {x} \in Good) => s \in Good
    PROVE  Good = SUBSET S
  <1>1. SUFFICES ASSUME (SUBSET S) \ Good # {} PROVE FALSE
    OBVIOUS
  <1> DEFINE Bad == (SUBSET S) \ Good
  <1>2. IsWellFoundedOn(StrictSubsetOrdering(S), SUBSET S)
    BY FS_StrictSubsetOrderingWellFounded, FS_FiniteSubsetsOfFinite
  <1>3. PICK s \in Bad : \A t \in Bad : <<t, s>> \notin StrictSubsetOrdering(S)
    <2>1. Bad \subseteq SUBSET S /\ Bad # {}
      BY <1>1
    <2> HIDE DEF Bad
    <2> QED BY <1>2, <2>1, WFMin
  <1>4. s # {} /\ s \in SUBSET S
    OBVIOUS
  <1>5. ASSUME NEW x \in s PROVE s \ {x} \in Good
    <2>1. s \ {x} \in SUBSET S
      OBVIOUS
    <2>2. <<s \ {x}, s>> \in StrictSubsetOrdering(S)
      BY <2>1 DEF StrictSubsetOrdering
    <2> QED BY <1>3, <2>1, <2>2
  <1> QED BY <1>4, <1>5

\* Induction over the natural numbers.
LEMMA NaturalsByOne ==
    ASSUME NEW Good \in SUBSET Nat, 0 \in Good, \A n \in Good : n + 1 \in Good
    PROVE  Good = Nat
  <1>1. SUFFICES ASSUME Nat \ Good # {} PROVE FALSE
    OBVIOUS
  <1> DEFINE Bad == Nat \ Good
  <1>2. PICK n \in Bad : \A m \in Bad : <<m, n>> \notin OpToRel(<, Nat)
    <2>1. Bad \subseteq Nat /\ Bad # {}
      BY <1>1
    <2> HIDE DEF Bad
    <2> QED BY <2>1, NatLessThanWellFounded, WFMin
  <1>3. n \in Nat /\ n # 0
    OBVIOUS
  <1>4. n - 1 \in Nat /\ n - 1 < n
    BY <1>3
  <1>5. <<n - 1, n>> \in OpToRel(<, Nat)
    BY <1>3, <1>4 DEF OpToRel
  <1>6. n - 1 \in Good
    BY <1>2, <1>4, <1>5
  <1>7. (n - 1) + 1 \in Good
    BY <1>6
  <1> QED BY <1>3, <1>7

-----------------------------------------------------------------------------
(* The fold *)

\* The fold adds the value of one element to the sum of the others.
Pick(s) == CHOOSE x \in s : TRUE

SumStep(f, iter, s) ==
    IF s = {} THEN 0 ELSE f[Pick(s)] + iter[s \ {Pick(s)}]

PartialSums(f, S) == CHOOSE iter : iter = [s \in SUBSET S |-> SumStep(f, iter, s)]

\* The fold is the last of the partial sums.
LEMMA SumIsPartialSums ==
    ASSUME NEW f, NEW S
    PROVE  SumFunctionOnSet(f, S) = PartialSums(f, S)[S]
  BY DEF SumFunctionOnSet, FoldFunctionOnSet, MapThenFoldSet, PartialSums, SumStep, Pick

\* There is a function of partial sums, so the one that is chosen is one.
LEMMA PartialSumsExist ==
    ASSUME NEW S, IsFiniteSet(S), NEW f \in [S -> Nat]
    PROVE  /\ PartialSums(f, S) \in [SUBSET S -> Nat]
           /\ \A s \in SUBSET S : PartialSums(f, S)[s] = SumStep(f, PartialSums(f, S), s)
  <1> DEFINE Solves(g, n) == \A s \in SUBSET S :
                  Cardinality(s) <= n => g[s] = SumStep(f, g, s)
             Good == {n \in Nat : \E g \in [SUBSET S -> Nat] : Solves(g, n)}
  <1>sizes. ASSUME NEW s \in SUBSET S
        PROVE  /\ IsFiniteSet(s) /\ Cardinality(s) \in Nat
               /\ Cardinality(S) \in Nat /\ Cardinality(s) <= Cardinality(S)
    BY FS_Subset, FS_CardinalityType
  <1>empty. \A s \in SUBSET S : Cardinality(s) = 0 => s = {}
    BY <1>sizes, FS_EmptySet
  <1>smaller. \A s \in SUBSET S : s # {} =>
            /\ Pick(s) \in S /\ s \ {Pick(s)} \in SUBSET S
            /\ Cardinality(s \ {Pick(s)}) = Cardinality(s) - 1
    <2> SUFFICES ASSUME NEW s \in SUBSET S, s # {}
                 PROVE  /\ Pick(s) \in S /\ s \ {Pick(s)} \in SUBSET S
                        /\ Cardinality(s \ {Pick(s)}) = Cardinality(s) - 1
      OBVIOUS
    <2>1. Pick(s) \in s
      BY DEF Pick
    <2>2. Pick(s) \in S /\ s \ {Pick(s)} \in SUBSET S
      BY <2>1
    <2>3. Cardinality(s \ {Pick(s)}) = Cardinality(s) - 1
      BY <2>1, <1>sizes, FS_RemoveElement
    <2> QED BY <2>2, <2>3
  <1>1. 0 \in Good
    <2> DEFINE g == [s \in SUBSET S |-> 0]
    <2>1. g \in [SUBSET S -> Nat]
      OBVIOUS
    <2>2. Solves(g, 0)
      <3> SUFFICES ASSUME NEW s \in SUBSET S, Cardinality(s) <= 0
                   PROVE  g[s] = SumStep(f, g, s)
        OBVIOUS
      <3>1. Cardinality(s) = 0
        BY <1>sizes
      <3>2. s = {}
        BY <1>empty, <3>1
      <3> QED BY <3>2 DEF SumStep
    <2> QED BY <2>1, <2>2
  <1>2. ASSUME NEW n \in Good PROVE n + 1 \in Good
    <2>1. PICK g \in [SUBSET S -> Nat] : Solves(g, n)
      OBVIOUS
    <2> DEFINE h == [s \in SUBSET S |-> SumStep(f, g, s)]
    <2>2. h \in [SUBSET S -> Nat]
      <3> SUFFICES ASSUME NEW s \in SUBSET S PROVE SumStep(f, g, s) \in Nat
        OBVIOUS
      <3> QED BY <1>smaller DEF SumStep
    <2>3. Solves(h, n + 1)
      <3> SUFFICES ASSUME NEW s \in SUBSET S, Cardinality(s) <= n + 1
                   PROVE  h[s] = SumStep(f, h, s)
        OBVIOUS
      <3>1. CASE s = {}
        BY <3>1 DEF SumStep
      <3>2. CASE s # {}
        <4> DEFINE x == Pick(s)
        <4>1. x \in S /\ s \ {x} \in SUBSET S /\ Cardinality(s \ {x}) <= n
          BY <1>smaller, <1>sizes, <3>2
        <4>2. g[s \ {x}] = SumStep(f, g, s \ {x})
          BY <2>1, <4>1
        <4>3. h[s \ {x}] = g[s \ {x}]
          BY <4>1, <4>2
        <4> QED BY <3>2, <4>3 DEF SumStep
      <3> QED BY <3>1, <3>2
    <2> HIDE DEF h
    <2> QED BY <2>2, <2>3
  <1>3. Good = Nat
    <2> HIDE DEF Good
    <2>1. Good \in SUBSET Nat
      BY DEF Good
    <2> QED BY <1>1, <1>2, <2>1, NaturalsByOne
  <1>4. PICK g \in [SUBSET S -> Nat] : Solves(g, Cardinality(S))
    BY <1>3, FS_CardinalityType
  <1>5. g = [s \in SUBSET S |-> SumStep(f, g, s)]
    <2>1. ASSUME NEW s \in SUBSET S PROVE g[s] = SumStep(f, g, s)
      <3>1. Cardinality(s) <= Cardinality(S)
        BY <1>sizes
      <3> QED BY <1>4, <3>1
    <2> QED BY <2>1
  <1>6. PartialSums(f, S) = [s \in SUBSET S |-> SumStep(f, PartialSums(f, S), s)]
    BY <1>5 DEF PartialSums
  <1>7. \A s \in SUBSET S : PartialSums(f, S)[s] \in Nat
    <2> DEFINE p == PartialSums(f, S)
               Typed == {s \in SUBSET S : p[s] \in Nat}
    <2>1. {} \in Typed
      BY <1>6 DEF SumStep
    <2>2. ASSUME NEW s \in SUBSET S, s # {}, \A x \in s : s \ {x} \in Typed
          PROVE  s \in Typed
      <3> DEFINE x == Pick(s)
      <3>1. x \in s /\ f[x] \in Nat /\ p[s \ {x}] \in Nat
        BY <2>2 DEF Pick
      <3>2. p[s] = f[x] + p[s \ {x}]
        BY <1>6, <2>2 DEF SumStep
      <3> QED BY <3>1, <3>2
    <2>3. Typed = SUBSET S
      <3>1. Typed \in SUBSET (SUBSET S)
        OBVIOUS
      <3> HIDE DEF Typed
      <3> QED BY <2>1, <2>2, <3>1, FiniteSetsBySize
    <2> QED BY <2>3
  <1> QED BY <1>6, <1>7

\* Partial sums as a property without the fold, for the provers.
TakesOne(p, f, s) ==
    /\ Pick(s) \in s
    /\ f[Pick(s)] \in Nat /\ p[s] \in Nat /\ p[s \ {Pick(s)}] \in Nat
    /\ p[s] = f[Pick(s)] + p[s \ {Pick(s)}]

\* The partial sum of a set is that of one element less, and its value.
LEMMA PartialSumsStep ==
    ASSUME NEW S, IsFiniteSet(S), NEW f \in [S -> Nat],
           NEW s \in SUBSET S, s # {}
    PROVE  TakesOne(PartialSums(f, S), f, s)
  <1>1. Pick(s) \in s
    BY DEF Pick
  <1>2. s \ {Pick(s)} \in SUBSET S /\ f[Pick(s)] \in Nat
    BY <1>1
  <1>3. PartialSums(f, S)[s] = f[Pick(s)] + PartialSums(f, S)[s \ {Pick(s)}]
    BY PartialSumsExist DEF SumStep
  <1>4. /\ PartialSums(f, S)[s] \in Nat
        /\ PartialSums(f, S)[s \ {Pick(s)}] \in Nat
    <2>1. PartialSums(f, S) \in [SUBSET S -> Nat]
      BY PartialSumsExist
    <2> QED BY <1>2, <2>1
  <1> QED BY <1>1, <1>2, <1>3, <1>4 DEF TakesOne

\* The partial sum of no elements is zero.
LEMMA PartialSumOfNothing ==
    ASSUME NEW S, IsFiniteSet(S), NEW f \in [S -> Nat]
    PROVE  PartialSums(f, S)[{}] = 0
  <1>1. PartialSums(f, S)[{}] = SumStep(f, PartialSums(f, S), {})
    BY PartialSumsExist
  <1> QED BY <1>1 DEF SumStep

\* The sum of a function is the partial sum over its domain.
LEMMA SumIsLastPartialSum ==
    ASSUME NEW S, NEW f \in [S -> Nat]
    PROVE  SumFunction(f) = PartialSums(f, S)[S]
  <1>1. DOMAIN f = S
    OBVIOUS
  <1> QED BY <1>1, SumIsPartialSums DEF SumFunction

-----------------------------------------------------------------------------
(* What sums are used for *)

\* A sum of natural numbers is one.
LEMMA SumType ==
    ASSUME NEW S, IsFiniteSet(S), NEW f \in [S -> Nat]
    PROVE  SumFunction(f) \in Nat
  <1>1. PartialSums(f, S) \in [SUBSET S -> Nat]
    BY PartialSumsExist
  <1> QED BY <1>1, SumIsLastPartialSum

\* When one value changes the sum changes by as much.
LEMMA SumChange ==
    ASSUME NEW S, IsFiniteSet(S), NEW f \in [S -> Nat], NEW g \in [S -> Nat],
           NEW r \in S, \A x \in S \ {r} : g[x] = f[x]
    PROVE  SumFunction(g) + f[r] = SumFunction(f) + g[r]
  <1> DEFINE p == PartialSums(f, S)
             q == PartialSums(g, S)
             Good == {s \in SUBSET S : /\ r \in s => q[s] + f[r] = p[s] + g[r]
                                       /\ r \notin s => q[s] = p[s]}
  <1>1. {} \in Good
    BY PartialSumOfNothing
  <1>2. ASSUME NEW s \in SUBSET S, s # {}, \A x \in s : s \ {x} \in Good
        PROVE  s \in Good
    <2> DEFINE x == Pick(s)
               t == s \ {x}
    <2>split. TakesOne(p, f, s) /\ TakesOne(q, g, s)
      BY <1>2, PartialSumsStep
    <2>1. /\ x \in s /\ t \in SUBSET S
          /\ p[s] = f[x] + p[t] /\ p[s] \in Nat /\ p[t] \in Nat /\ f[x] \in Nat
      <3> HIDE DEF p
      <3> QED BY <2>split DEF TakesOne
    <2>2. q[s] = g[x] + q[t] /\ q[s] \in Nat /\ q[t] \in Nat /\ g[x] \in Nat
      <3> HIDE DEF q
      <3> QED BY <2>split DEF TakesOne
    <2>3. t \in Good
      BY <1>2, <2>1
    <2>4. f[r] \in Nat /\ g[r] \in Nat
      OBVIOUS
    <2>5. x \in S /\ (r \in t <=> r \in s /\ r # x)
      BY <2>1
    <2>6. r \in t => q[t] + f[r] = p[t] + g[r]
      BY <2>3
    <2>7. r \notin t => q[t] = p[t]
      BY <2>3
    <2> HIDE DEF p, q, x, t
    <2>8. CASE x = r
      <3>1. q[t] = p[t]
        BY <2>5, <2>7, <2>8
      <3>2. q[s] + f[r] = p[s] + g[r]
        BY <2>1, <2>2, <2>8, <3>1
      <3> QED BY <2>1, <2>8, <3>2
    <2>9. CASE x # r
      <3>1. g[x] = f[x]
        BY <2>5, <2>9
      <3>2. r \in s => q[s] + f[r] = p[s] + g[r]
        BY <2>1, <2>2, <2>4, <2>5, <2>6, <2>9, <3>1
      <3>3. r \notin s => q[s] = p[s]
        BY <2>1, <2>2, <2>5, <2>7, <3>1
      <3> QED BY <3>2, <3>3
    <2> QED BY <2>8, <2>9
  <1>3. Good = SUBSET S
    <2>1. Good \in SUBSET (SUBSET S)
      OBVIOUS
    <2> HIDE DEF Good
    <2> QED BY <1>1, <1>2, <2>1, FiniteSetsBySize
  <1>4. q[S] + f[r] = p[S] + g[r]
    BY <1>3
  <1> QED BY <1>4, SumIsLastPartialSum

\* A sum of zeroes is zero.
LEMMA SumOfZeroes ==
    ASSUME NEW S, IsFiniteSet(S), NEW f \in [S -> Nat], \A x \in S : f[x] = 0
    PROVE  SumFunction(f) = 0
  <1> DEFINE p == PartialSums(f, S)
             Good == {s \in SUBSET S : p[s] = 0}
  <1>1. {} \in Good
    BY PartialSumOfNothing
  <1>2. ASSUME NEW s \in SUBSET S, s # {}, \A x \in s : s \ {x} \in Good
        PROVE  s \in Good
    <2> DEFINE x == Pick(s)
    <2>1. x \in s /\ p[s] = f[x] + p[s \ {x}]
      <3>1. TakesOne(p, f, s)
        BY <1>2, PartialSumsStep
      <3> HIDE DEF p
      <3> QED BY <3>1 DEF TakesOne
    <2> QED BY <1>2, <2>1
  <1>3. Good = SUBSET S
    <2>1. Good \in SUBSET (SUBSET S)
      OBVIOUS
    <2> HIDE DEF Good
    <2> QED BY <1>1, <1>2, <2>1, FiniteSetsBySize
  <1> QED BY <1>3, SumIsLastPartialSum

\* No value is above the sum.
LEMMA SumCoversEach ==
    ASSUME NEW S, IsFiniteSet(S), NEW f \in [S -> Nat], NEW r \in S
    PROVE  f[r] <= SumFunction(f)
  <1> DEFINE g == [f EXCEPT ![r] = 0]
  <1>1. g \in [S -> Nat] /\ g[r] = 0 /\ \A x \in S \ {r} : g[x] = f[x]
    OBVIOUS
  <1> HIDE DEF g
  <1>2. SumFunction(g) + f[r] = SumFunction(f) + 0
    BY <1>1, SumChange
  <1>3. SumFunction(g) \in Nat /\ SumFunction(f) \in Nat /\ f[r] \in Nat
    BY <1>1, SumType
  <1> QED BY <1>2, <1>3
=============================================================================
