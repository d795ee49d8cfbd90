--------------------------- MODULE DataInduction ----------------------------
(***************************************************************************)
(* Induction over data, for the proof modules: the least element of a set  *)
(* of naturals, what Min and Max of the community modules pick, sums over  *)
(* finite sets and sequences, folds over sequences, and the rows of a      *)
(* table that a query selects.  The induction theorems of the library take *)
(* the hypothesis as an operator, which the provers cannot instantiate;    *)
(* here it is a set, and the least counterexample is an element of it.     *)
(***************************************************************************)
EXTENDS Integers, Sequences, FiniteSetsExt, Functions, FiniteSetTheorems,
        SequenceTheorems, TLAPS

(* The naturals are well ordered: the strict subsets of an interval are.   *)
LEMMA LeastNatural ==
    ASSUME NEW S \in SUBSET Nat, S # {}
    PROVE  \E x \in S : \A y \in S : x <= y
  <1>1. PICK n \in S : TRUE
    OBVIOUS
  <1> DEFINE Below == {0..m : m \in {k \in S : k <= n}}
  <1>2. IsFiniteSet(0..n)
    BY FS_Interval
  <1>3. Below \subseteq SUBSET (0..n) /\ Below # {}
    BY <1>1
  <1>4. IsWellFoundedOn(StrictSubsetOrdering(0..n), SUBSET (0..n))
    BY <1>2, FS_StrictSubsetOrderingWellFounded, FS_FiniteSubsetsOfFinite
  <1>5. PICK B \in Below : \A C \in Below : <<C, B>> \notin StrictSubsetOrdering(0..n)
    <2> HIDE DEF Below
    <2> QED BY ONLY <1>3, <1>4, WFMin
  <1>6. PICK m \in S : m <= n /\ B = 0..m
    BY <1>5
  <1>7. ASSUME NEW y \in S, y < m
        PROVE  FALSE
    <2>1. 0..y \in Below
      BY <1>6, <1>7
    <2>2. <<0..y, B>> \in StrictSubsetOrdering(0..n)
      BY <1>6, <1>7 DEF StrictSubsetOrdering
    <2> QED BY <2>1, <2>2, <1>5
  <1> QED BY <1>6, <1>7

(* Min picks the least element of a set of naturals.                       *)
LEMMA MinIsLeast ==
    ASSUME NEW S \in SUBSET Nat, S # {}
    PROVE  Min(S) \in S /\ \A y \in S : Min(S) <= y
  BY LeastNatural DEF Min

(* Max picks the greatest element of a bounded set of naturals.            *)
LEMMA MaxIsGreatest ==
    ASSUME NEW S \in SUBSET Nat, S # {}, NEW n \in Nat, \A x \in S : x <= n
    PROVE  Max(S) \in S /\ \A y \in S : y <= Max(S)
  <1> DEFINE Bounds == {b \in Nat : \A x \in S : x <= b}
  <1>1. PICK b \in Bounds : \A c \in Bounds : b <= c
    <2>1. Bounds \in SUBSET Nat /\ n \in Bounds
      OBVIOUS
    <2> HIDE DEF Bounds
    <2> QED BY <2>1, LeastNatural
  <1>2. b \in S
    <2> SUFFICES ASSUME b \notin S PROVE FALSE
      OBVIOUS
    <2>0. PICK x \in S : TRUE
      OBVIOUS
    <2>1. x <= b /\ x # b
      BY <1>1
    <2>3. \A y \in S : y <= b - 1
      BY <1>1
    <2>2. b - 1 \in Bounds
      BY <2>1, <2>3, <1>1
    <2> QED BY <2>2, <1>1
  <1>3. \A y \in S : b >= y
    BY <1>1
  <1> QED BY <1>2, <1>3 DEF Max

(* A set of subsets of a finite set that holds of each one whose strict      *)
(* subsets it holds of holds of all.                                        *)
LEMMA SubsetInduction ==
    ASSUME NEW D, IsFiniteSet(D), NEW Good,
           \A s \in SUBSET D : (\A t \in SUBSET s : t # s => t \in Good) => s \in Good
    PROVE  SUBSET D \subseteq Good
  <1> DEFINE Bad == {s \in SUBSET D : s \notin Good}
  <1> SUFFICES ASSUME Bad # {} PROVE FALSE
    OBVIOUS
  <1>1. IsWellFoundedOn(StrictSubsetOrdering(D), SUBSET D)
    <2>1. FiniteSubsetsOf(D) = SUBSET D
      BY ONLY IsFiniteSet(D), FS_FiniteSubsetsOfFinite
    <2> QED BY ONLY <2>1, FS_StrictSubsetOrderingWellFounded
  <1>2. PICK s \in Bad : \A t \in Bad : <<t, s>> \notin StrictSubsetOrdering(D)
    <2>1. Bad \subseteq SUBSET D
      OBVIOUS
    <2> HIDE DEF Bad
    <2> QED BY <1>1, <2>1, WFMin
  <1>3. \A t \in SUBSET s : t # s => t \in Good
    BY <1>2 DEF StrictSubsetOrdering
  <1> QED BY <1>2, <1>3

-----------------------------------------------------------------------------
(* Folds. *)

\* p chooses the element of a set that is taken out next.
Choosing(p, D) == \A s \in SUBSET D : s # {} => p[s] \in s

\* g folds step over the subsets of D from base, in the order p chooses.
Unfolds(g, base, step, p, D, A) ==
    /\ g \in [SUBSET D -> A]
    /\ \A s \in SUBSET D :
          g[s] = IF s = {} THEN base ELSE step[<<p[s], g[s \ {p[s]}]>>]

(* Every fold is defined: it is built up over the subsets of at most n      *)
(* elements.                                                                *)
LEMMA FoldExists ==
    ASSUME NEW D, IsFiniteSet(D), NEW A, NEW base \in A, NEW step \in [D \X A -> A],
           NEW pick, Choosing(pick, D)
    PROVE  \E g : Unfolds(g, base, step, pick, D, A)
  <1> DEFINE Small(n) == {s \in SUBSET D : Cardinality(s) <= n}
             Solves(g, n) ==
                 /\ g \in [Small(n) -> A]
                 /\ \A s \in Small(n) :
                       g[s] = IF s = {} THEN base ELSE step[<<pick[s], g[s \ {pick[s]}]>>]
             Bad == {n \in Nat : ~\E g : Solves(g, n)}
  <1>1. ASSUME NEW s \in SUBSET D
        PROVE  /\ Cardinality(s) \in Nat
               /\ Cardinality(s) <= Cardinality(D)
               /\ Cardinality(s) = 0 => s = {}
               /\ \A x \in s : Cardinality(s \ {x}) = Cardinality(s) - 1
    <2>1. IsFiniteSet(s) /\ Cardinality(s) <= Cardinality(D)
      BY FS_Subset
    <2>2. Cardinality(s) \in Nat /\ (Cardinality(s) = 0 => s = {})
      BY <2>1, FS_CardinalityType, FS_EmptySet
    <2>3. \A x \in s : Cardinality(s \ {x}) = Cardinality(s) - 1
      BY <2>1, FS_RemoveElement
    <2> QED BY <2>1, <2>2, <2>3
  <1>6. \A n \in Nat : \A s : s \in Small(n) <=> s \in SUBSET D /\ Cardinality(s) <= n
    OBVIOUS
  <1>7. Bad \in SUBSET Nat
    OBVIOUS
  <1> HIDE DEF Small
  <1>2. Bad = {}
    <2> SUFFICES ASSUME Bad # {} PROVE FALSE
      OBVIOUS
    <2>1. PICK n \in Bad : \A m \in Bad : n <= m
      <3> HIDE DEF Bad
      <3> QED BY ONLY <1>7, Bad # {}, LeastNatural
    <2>4. n \in Nat
      BY <1>7
    <2>2. CASE n = 0
      <3>1. Small(0) \subseteq {{}}
        <4>1. ASSUME NEW s \in SUBSET D, Cardinality(s) <= 0 PROVE s = {}
          <5>1. Cardinality(s) \in Nat /\ (Cardinality(s) = 0 => s = {})
            BY ONLY <1>1, s \in SUBSET D
          <5> QED BY ONLY <5>1, <4>1
        <4> QED BY <4>1, <1>6
      <3>2. Solves([s \in Small(0) |-> base], 0)
        BY <3>1
      <3> QED BY <2>1, <2>2, <3>2
    <2>3. CASE n # 0
      <3>1. n - 1 \in Nat /\ n - 1 \notin Bad
        <4> HIDE DEF Bad
        <4> QED BY <2>1, <2>3, <2>4
      <3>2. PICK g : Solves(g, n - 1)
        BY <3>1
      <3> DEFINE h == [s \in Small(n) |->
                         IF s = {} THEN base ELSE step[<<pick[s], g[s \ {pick[s]}]>>]]
      <3>3. ASSUME NEW s \in Small(n), s # {}
            PROVE  /\ s \ {pick[s]} \in Small(n - 1) /\ pick[s] \in D
        <4>1. s \in SUBSET D /\ Cardinality(s) <= n /\ pick[s] \in s
          BY <1>6, <2>4, <3>3 DEF Choosing
        <4>2. Cardinality(s) \in Nat /\ Cardinality(s \ {pick[s]}) = Cardinality(s) - 1
          BY ONLY <1>1, <4>1
        <4>3. Cardinality(s \ {pick[s]}) <= n - 1
          BY <2>4, <4>1, <4>2
        <4> QED BY <1>6, <3>1, <4>1, <4>3
      <3>4. h \in [Small(n) -> A]
        <4> SUFFICES ASSUME NEW s \in Small(n), s # {}
                     PROVE  step[<<pick[s], g[s \ {pick[s]}]>>] \in A
          OBVIOUS
        <4>1. pick[s] \in D /\ g[s \ {pick[s]}] \in A
          BY <3>2, <3>3
        <4> QED BY <4>1
      <3>5. \A s \in Small(n - 1) : s \in Small(n) /\ h[s] = g[s]
        <4> SUFFICES ASSUME NEW s \in Small(n - 1) PROVE s \in Small(n) /\ h[s] = g[s]
          OBVIOUS
        <4>1. s \in SUBSET D /\ Cardinality(s) <= n - 1
          BY <1>6, <3>1
        <4>2. s \in Small(n)
          <5>1. Cardinality(s) \in Nat
            BY ONLY <1>1, <4>1
          <5>2. Cardinality(s) <= n
            BY ONLY <5>1, <4>1, <2>4
          <5> QED BY <1>6, <2>4, <4>1, <5>2
        <4> QED BY <3>2, <4>2
      <3>6. Solves(h, n)
        BY <3>3, <3>4, <3>5
      <3> QED BY <2>1, <3>6
    <2> QED BY <2>2, <2>3
  <1>3. Cardinality(D) \in Nat
    BY FS_CardinalityType
  <1>4. PICK g : Solves(g, Cardinality(D))
    BY <1>2, <1>3
  <1>5. Small(Cardinality(D)) = SUBSET D
    <2>1. \A s \in SUBSET D : Cardinality(s) <= Cardinality(D)
      BY ONLY <1>1
    <2> QED BY <2>1, <1>3, <1>6
  <1> QED BY <1>4, <1>5 DEF Unfolds

-----------------------------------------------------------------------------
(* Sums. *)

\* g gives every subset of D the sum of f over it, in whatever order it was added.
Sums(g, f, D) ==
    /\ g \in [SUBSET D -> Int] /\ g[{}] = 0
    /\ \A s \in SUBSET D : s # {} => \E x \in s : g[s] = f[x] + g[s \ {x}]

(* The order does not matter: any element may be taken out first.           *)
LEMMA AnyOrder ==
    ASSUME NEW D, IsFiniteSet(D), NEW f \in [D -> Int], NEW g, Sums(g, f, D)
    PROVE  \A s \in SUBSET D : \A x \in s : g[s] = f[x] + g[s \ {x}]
  <1> DEFINE Good == {s \in SUBSET D : \A x \in s : g[s] = f[x] + g[s \ {x}]}
  <1>1. ASSUME NEW s \in SUBSET D, \A t \in SUBSET s : t # s => t \in Good
        PROVE  s \in Good
    <2> SUFFICES ASSUME NEW x \in s PROVE g[s] = f[x] + g[s \ {x}]
      OBVIOUS
    <2>1. PICK c \in s : g[s] = f[c] + g[s \ {c}]
      BY DEF Sums
    <2>2. CASE c = x
      BY <2>1, <2>2
    <2>3. CASE c # x
      <3> DEFINE rest == s \ {c, x}
      <3>1. /\ (s \ {c}) \ {x} = rest /\ (s \ {x}) \ {c} = rest
            /\ s \ {c} \in Good /\ x \in s \ {c}
            /\ s \ {x} \in Good /\ c \in s \ {x}
        BY <1>1, <2>3
      <3>2. g[s \ {c}] = f[x] + g[rest] /\ g[s \ {x}] = f[c] + g[rest]
        BY <3>1
      <3>3. g[rest] \in Int /\ f[x] \in Int /\ f[c] \in Int
        BY DEF Sums
      <3> QED BY <2>1, <3>2, <3>3
    <2> QED BY <2>2, <2>3
  <1>2. SUBSET D \subseteq Good
    <2> HIDE DEF Good
    <2> QED BY ONLY <1>1, IsFiniteSet(D), SubsetInduction
  <1> QED BY <1>2

(* Two sums of functions that agree on a set agree on it.                   *)
LEMMA SumsAgree ==
    ASSUME NEW D, IsFiniteSet(D), NEW f \in [D -> Int], NEW g, Sums(g, f, D),
           NEW E, IsFiniteSet(E), NEW e \in [E -> Int], NEW h, Sums(h, e, E)
    PROVE  \A s \in (SUBSET D) \cap (SUBSET E) :
               (\A x \in s : f[x] = e[x]) => g[s] = h[s]
  <1> DEFINE Good == {s \in SUBSET D :
                        s \in SUBSET E /\ (\A x \in s : f[x] = e[x]) => g[s] = h[s]}
  <1>1. ASSUME NEW s \in SUBSET D, \A t \in SUBSET s : t # s => t \in Good
        PROVE  s \in Good
    <2> SUFFICES ASSUME s \in SUBSET E, \A x \in s : f[x] = e[x]
                 PROVE  g[s] = h[s]
      OBVIOUS
    <2>1. CASE s = {}
      BY <2>1 DEF Sums
    <2>2. CASE s # {}
      <3>1. PICK x \in s : g[s] = f[x] + g[s \ {x}]
        BY <2>2 DEF Sums
      <3>2. h[s] = e[x] + h[s \ {x}]
        BY AnyOrder
      <3>3. g[s \ {x}] = h[s \ {x}]
        BY <1>1
      <3> QED BY <3>1, <3>2, <3>3
    <2> QED BY <2>1, <2>2
  <1>2. SUBSET D \subseteq Good
    <2> HIDE DEF Good
    <2> QED BY ONLY <1>1, IsFiniteSet(D), SubsetInduction
  <1> QED BY <1>2

-----------------------------------------------------------------------------
(* What SumFunction of the community modules computes. *)

\* The equation of the recursive function it is defined by.
SumEquation(g, f, D) ==
    g = [s \in SUBSET D |->
            IF s = {} THEN 0
            ELSE f[CHOOSE x \in s : TRUE] + g[s \ {CHOOSE x \in s : TRUE}]]

LEMMA SumFunctionSums ==
    ASSUME NEW D, IsFiniteSet(D), NEW f \in [D -> Int]
    PROVE  \E g : Sums(g, f, D) /\ SumFunction(f) = g[D]
  <1> DEFINE pick == [s \in SUBSET D |-> IF s = {} THEN {} ELSE CHOOSE x \in s : TRUE]
             g    == CHOOSE h : SumEquation(h, f, D)
  <1>1. /\ Choosing(pick, D)
        /\ \A s \in SUBSET D : s # {} => pick[s] = CHOOSE x \in s : TRUE
    BY DEF Choosing
  <1> DEFINE step == [xa \in D \X Int |-> f[xa[1]] + xa[2]]
  <1>2. PICK h : Unfolds(h, 0, step, pick, D, Int)
    <2>1. step \in [D \X Int -> Int] /\ 0 \in Int
      OBVIOUS
    <2> HIDE DEF pick, step
    <2> QED BY ONLY <1>1, <2>1, IsFiniteSet(D), FoldExists
  <1> HIDE DEF pick
  <1>3. SumEquation(h, f, D)
    <2>1. \A x \in D : \A a \in Int : step[<<x, a>>] = f[x] + a
      OBVIOUS
    <2> HIDE DEF step
    <2>2. /\ h \in [SUBSET D -> Int]
          /\ \A s \in SUBSET D :
                h[s] = IF s = {} THEN 0 ELSE step[<<pick[s], h[s \ {pick[s]}]>>]
      BY <1>2 DEF Unfolds
    <2>3. ASSUME NEW s \in SUBSET D, s # {}
          PROVE  h[s] = f[pick[s]] + h[s \ {pick[s]}]
      <3>1. pick[s] \in D /\ h[s \ {pick[s]}] \in Int
        BY <1>1, <2>2, <2>3 DEF Choosing
      <3> QED BY <2>1, <2>2, <2>3, <3>1
    <2> QED BY <1>1, <2>2, <2>3 DEF SumEquation
  <1>4. SumEquation(g, f, D)
    BY <1>3
  <1> HIDE DEF g
  <1>5. g = [s \in SUBSET D |->
                IF s = {} THEN 0
                ELSE f[CHOOSE x \in s : TRUE] + g[s \ {CHOOSE x \in s : TRUE}]]
    BY <1>4 DEF SumEquation
  <1> DEFINE Good == {s \in SUBSET D : g[s] \in Int}
  <1>6. ASSUME NEW s \in SUBSET D, \A t \in SUBSET s : t # s => t \in Good
        PROVE  s \in Good
    <2>1. CASE s = {}
      BY <2>1, <1>5
    <2>2. CASE s # {}
      <3>1. PICK x \in s : x = CHOOSE y \in s : TRUE
        BY <2>2
      <3>2. g[s] = f[x] + g[s \ {x}]
        BY <1>5, <2>2, <3>1
      <3>3. g[s \ {x}] \in Int
        BY <1>6
      <3> QED BY <3>2, <3>3
    <2> QED BY <2>1, <2>2
  <1>7. \A s \in SUBSET D : g[s] \in Int
    <2>1. SUBSET D \subseteq Good
      <3> HIDE DEF Good
      <3> QED BY ONLY <1>6, IsFiniteSet(D), SubsetInduction
    <2> QED BY <2>1
  <1>8. Sums(g, f, D)
    <2>1. g \in [SUBSET D -> Int]
      BY <1>5, <1>7
    <2>2. g[{}] = 0
      BY <1>5
    <2>3. ASSUME NEW s \in SUBSET D, s # {}
          PROVE  \E x \in s : g[s] = f[x] + g[s \ {x}]
      <3>1. PICK x \in s : x = CHOOSE y \in s : TRUE
        BY <2>3
      <3> QED BY <1>5, <2>3, <3>1
    <2> QED BY <2>1, <2>2, <2>3 DEF Sums
  <1>9. SumFunction(f) = g[D]
    <2>1. DOMAIN f = D
      OBVIOUS
    <2> QED BY <2>1 DEF SumFunction, SumFunctionOnSet, FoldFunctionOnSet,
                        MapThenFoldSet, g, SumEquation
  <1> QED BY <1>8, <1>9

LEMMA SumType ==
    ASSUME NEW D, IsFiniteSet(D), NEW f \in [D -> Int]
    PROVE  SumFunction(f) \in Int
  <1>1. PICK g : Sums(g, f, D) /\ SumFunction(f) = g[D]
    BY SumFunctionSums
  <1>2. D \in SUBSET D
    OBVIOUS
  <1> QED BY <1>1, <1>2 DEF Sums

(* The sum of zeroes.                                                       *)
LEMMA SumOfZeroes ==
    ASSUME NEW D, IsFiniteSet(D)
    PROVE  SumFunction([x \in D |-> 0]) = 0
  <1> DEFINE f == [x \in D |-> 0]
             zero == [s \in SUBSET D |-> 0]
  <1>1. f \in [D -> Int]
    OBVIOUS
  <1>2. Sums(zero, f, D)
    BY DEF Sums
  <1>3. PICK g : Sums(g, f, D) /\ SumFunction(f) = g[D]
    <2> HIDE DEF f
    <2> QED BY <1>1, SumFunctionSums
  <1>4. g[D] = zero[D]
    <2> HIDE DEF f, zero
    <2> QED BY <1>1, <1>2, <1>3, SumsAgree
  <1> QED BY <1>3, <1>4

(* A sum moves with the one value that changes.                             *)
LEMMA SumMoves ==
    ASSUME NEW D, IsFiniteSet(D), NEW f \in [D -> Int], NEW e \in [D -> Int],
           NEW x \in D, \A y \in D \ {x} : e[y] = f[y]
    PROVE  /\ SumFunction(f) \in Int
           /\ SumFunction(e) = SumFunction(f) - f[x] + e[x]
  <1>1. PICK g : Sums(g, f, D) /\ SumFunction(f) = g[D]
    BY SumFunctionSums
  <1>2. PICK h : Sums(h, e, D) /\ SumFunction(e) = h[D]
    BY SumFunctionSums
  <1>3. g[D] = f[x] + g[D \ {x}] /\ h[D] = e[x] + h[D \ {x}]
    BY <1>1, <1>2, AnyOrder
  <1>4. g[D \ {x}] = h[D \ {x}]
    BY <1>1, <1>2, SumsAgree
  <1>5. g[D \ {x}] \in Int /\ g[D] \in Int
    BY <1>1 DEF Sums
  <1>6. f[x] \in Int /\ e[x] \in Int
    OBVIOUS
  <1> QED BY <1>1, <1>2, <1>3, <1>4, <1>5, <1>6

(* The sum grows by the value of a new element.                             *)
LEMMA SumGrows ==
    ASSUME NEW D, IsFiniteSet(D), NEW E, NEW x \in E, D = E \ {x},
           NEW f \in [D -> Int], NEW e \in [E -> Int],
           \A y \in D : e[y] = f[y]
    PROVE  SumFunction(f) \in Int /\ SumFunction(e) = SumFunction(f) + e[x]
  <1>0. IsFiniteSet(E)
    <2>1. E = D \cup {x}
      OBVIOUS
    <2> QED BY <2>1, FS_AddElement
  <1>1. E \in SUBSET E /\ D \in SUBSET E
    OBVIOUS
  <1>3. PICK g : Sums(g, f, D) /\ SumFunction(f) = g[D]
    BY SumFunctionSums
  <1>4. PICK h : Sums(h, e, E) /\ SumFunction(e) = h[E]
    BY <1>0, <1>1, SumFunctionSums
  <1>5. h[E] = e[x] + h[D]
    BY <1>0, <1>1, <1>4, AnyOrder
  <1>6. g[D] = h[D]
    BY <1>0, <1>1, <1>3, <1>4, SumsAgree
  <1>7. g[D] \in Int /\ e[x] \in Int
    BY <1>1, <1>3 DEF Sums
  <1> QED BY <1>3, <1>4, <1>5, <1>6, <1>7

(* Zeroes do not count.                                                     *)
LEMMA SumOfSupport ==
    ASSUME NEW D, IsFiniteSet(D), NEW E \in SUBSET D,
           NEW f \in [D -> Int], NEW e \in [E -> Int],
           \A y \in E : e[y] = f[y], \A y \in D \ E : f[y] = 0
    PROVE  SumFunction(e) = SumFunction(f)
  <1>0. IsFiniteSet(E)
    BY FS_Subset
  <1>1. PICK g : Sums(g, f, D) /\ SumFunction(f) = g[D]
    BY SumFunctionSums
  <1>2. PICK h : Sums(h, e, E) /\ SumFunction(e) = h[E]
    BY <1>0, SumFunctionSums
  <1> DEFINE Good == {s \in SUBSET D : g[s] = h[s \cap E]}
  <1>3. ASSUME NEW s \in SUBSET D, \A t \in SUBSET s : t # s => t \in Good
        PROVE  s \in Good
    <2>1. CASE s = {}
      BY <2>1, <1>1, <1>2 DEF Sums
    <2>2. CASE s # {}
      <3>1. PICK x \in s : g[s] = f[x] + g[s \ {x}]
        BY <1>1, <2>2 DEF Sums
      <3>2. g[s \ {x}] = h[(s \ {x}) \cap E] /\ g[s \ {x}] \in Int
        BY <1>1, <1>3 DEF Sums
      <3>3. CASE x \in E
        <4>1. (s \ {x}) \cap E = (s \cap E) \ {x} /\ x \in s \cap E /\ s \cap E \in SUBSET E
          BY <3>3
        <4>2. h[s \cap E] = e[x] + h[(s \cap E) \ {x}]
          BY <1>0, <1>2, <4>1, AnyOrder
        <4> QED BY <3>1, <3>2, <3>3, <4>1, <4>2
      <3>4. CASE x \notin E
        <4>1. (s \ {x}) \cap E = s \cap E
          BY <3>4
        <4> QED BY <3>1, <3>2, <3>4, <4>1
      <3> QED BY <3>3, <3>4
    <2> QED BY <2>1, <2>2
  <1>4. SUBSET D \subseteq Good
    <2> HIDE DEF Good
    <2> QED BY ONLY <1>3, IsFiniteSet(D), SubsetInduction
  <1>5. D \cap E = E
    OBVIOUS
  <1> QED BY <1>1, <1>2, <1>4, <1>5

(* The sum over a sequence grows by what is appended.                       *)
LEMMA SumOfAppended ==
    ASSUME NEW n \in Nat, NEW f \in [1..n -> Int], NEW e \in [1..(n + 1) -> Int],
           \A i \in 1..n : e[i] = f[i]
    PROVE  SumFunction(f) \in Int /\ SumFunction(e) = SumFunction(f) + e[n + 1]
  <1>1. IsFiniteSet(1..n)
    BY FS_Interval
  <1>2. n + 1 \in 1..(n + 1) /\ 1..n = (1..(n + 1)) \ {n + 1}
    OBVIOUS
  <1> QED BY <1>1, <1>2, SumGrows

(* What a column of a table adds up to.                                     *)
RowTotal(v, t) == SumFunction([i \in DOMAIN t |-> v[t[i]]])

LEMMA RowTotalOfNone ==
    ASSUME NEW v
    PROVE  RowTotal(v, <<>>) = 0
  <1>1. [i \in DOMAIN <<>> |-> v[<<>>[i]]] = [i \in {} |-> 0]
    OBVIOUS
  <1>2. IsFiniteSet({})
    BY FS_EmptySet
  <1> QED BY <1>1, <1>2, SumOfZeroes DEF RowTotal

LEMMA RowTotalAppended ==
    ASSUME NEW B, NEW v \in [B -> Int], NEW t \in Seq(B), NEW f \in B,
           NEW r, r = Append(t, f)
    PROVE  RowTotal(v, t) \in Int /\ RowTotal(v, r) = RowTotal(v, t) + v[f]
  <1> DEFINE n   == Len(t)
             old == [i \in DOMAIN t |-> v[t[i]]]
             new == [i \in DOMAIN r |-> v[r[i]]]
  <1>1. /\ n \in Nat /\ DOMAIN t = 1..n /\ DOMAIN r = 1..(n + 1)
        /\ r[n + 1] = f /\ \A i \in 1..n : r[i] = t[i] /\ t[i] \in B
    <2>1. /\ r \in Seq(B) /\ Len(r) = n + 1 /\ r[n + 1] = f
          /\ \A i \in 1..n : r[i] = t[i]
      BY AppendProperties
    <2> QED BY <2>1, LenProperties, ElementOfSeq
  <1> HIDE DEF n
  <1>2. old \in [1..n -> Int] /\ new \in [1..(n + 1) -> Int]
    <2>1. \A i \in 1..(n + 1) : i \in 1..n \/ i = n + 1
      BY <1>1
    <2> QED BY <1>1, <2>1
  <1>3. (\A i \in 1..n : new[i] = old[i]) /\ new[n + 1] = v[f]
    BY <1>1
  <1>4. SumFunction(old) \in Int /\ SumFunction(new) = SumFunction(old) + v[f]
    <2> HIDE DEF old, new
    <2> QED BY <1>1, <1>2, <1>3, SumOfAppended
  <1> QED BY <1>4 DEF RowTotal

-----------------------------------------------------------------------------
(* Folds over a sequence, from the first element to the last, which is the  *)
(* one FoldLeft of the community modules takes out next.                    *)

SeqFold(g, base, step, t, A) ==
    /\ g \in [SUBSET (DOMAIN t) -> A]
    /\ \A u \in SUBSET (DOMAIN t) :
          g[u] = IF u = {} THEN base ELSE step[<<g[u \ {Max(u)}], t[Max(u)]>>]

LEMMA LastIsMax ==
    ASSUME NEW n \in Nat, NEW u \in SUBSET (1..n), u # {}
    PROVE  /\ Max(u) \in u
           /\ n \in u => Max(u) = n
  <1>1. u \in SUBSET Nat /\ \A i \in u : i <= n
    OBVIOUS
  <1>2. Max(u) \in u /\ \A i \in u : i <= Max(u)
    BY <1>1, MaxIsGreatest
  <1> DEFINE m == Max(u)
  <1>3. m \in u /\ m \in Nat /\ m <= n /\ (n \in u => n <= m)
    BY <1>1, <1>2
  <1> HIDE DEF m
  <1>4. n \in u => m = n
    BY <1>3
  <1> QED BY <1>3, <1>4 DEF m

LEMMA SeqFoldExists ==
    ASSUME NEW A, NEW B, NEW base \in A, NEW step \in [A \X B -> A], NEW t \in Seq(B)
    PROVE  \E g : SeqFold(g, base, step, t, A)
  <1> DEFINE D    == DOMAIN t
             pick == [u \in SUBSET D |-> IF u = {} THEN {} ELSE Max(u)]
             take == [ia \in D \X A |-> step[<<ia[2], t[ia[1]]>>]]
  <1>1. D = 1..Len(t) /\ Len(t) \in Nat /\ \A i \in D : t[i] \in B
    BY LenProperties, ElementOfSeq
  <1>2. IsFiniteSet(D)
    BY <1>1, FS_Interval
  <1>3. \A u \in SUBSET D : u # {} => Max(u) \in u /\ pick[u] = Max(u)
    BY <1>1, LastIsMax
  <1>4. Choosing(pick, D)
    BY <1>3 DEF Choosing
  <1>5. take \in [D \X A -> A] /\ \A i \in D, a \in A : take[<<i, a>>] = step[<<a, t[i]>>]
    BY <1>1
  <1> HIDE DEF pick, take
  <1>6. PICK g : Unfolds(g, base, take, pick, D, A)
    BY ONLY <1>2, <1>4, <1>5, base \in A, FoldExists
  <1>7. ASSUME NEW u \in SUBSET D, u # {}
        PROVE  g[u] = step[<<g[u \ {Max(u)}], t[Max(u)]>>]
    <2>1. Max(u) \in D /\ g[u \ {Max(u)}] \in A
      BY <1>3, <1>6, <1>7 DEF Unfolds
    <2>2. g[u] = take[<<Max(u), g[u \ {Max(u)}]>>]
      BY <1>3, <1>6, <1>7 DEF Unfolds
    <2> QED BY <1>5, <2>1, <2>2
  <1>8. g \in [SUBSET D -> A] /\ g[{}] = base
    BY <1>6 DEF Unfolds
  <1> QED BY <1>7, <1>8 DEF SeqFold

\* h folds t with f appended as g folds t and then one step.
FoldsOneMore(h, g, step, t, f) ==
    h[DOMAIN Append(t, f)] = step[<<g[DOMAIN t], f>>]

Folding(base, step, A, B) == base \in A /\ step \in [A \X B -> A]

(* What is appended is folded last.                                         *)
LEMMA SeqFoldAppends ==
    ASSUME NEW A, NEW B, NEW base, NEW step, Folding(base, step, A, B),
           NEW t \in Seq(B), NEW f \in B, NEW r, r = Append(t, f),
           NEW g, SeqFold(g, base, step, t, A), NEW h, SeqFold(h, base, step, r, A)
    PROVE  g[DOMAIN t] \in A /\ FoldsOneMore(h, g, step, t, f)
  <1> DEFINE n == Len(t)
  <1>1. /\ n \in Nat /\ DOMAIN t = 1..n /\ DOMAIN r = 1..(n + 1)
        /\ r[n + 1] = f /\ \A i \in 1..n : r[i] = t[i]
    <2>1. /\ r \in Seq(B) /\ Len(r) = n + 1 /\ r[n + 1] = f
          /\ \A i \in 1..n : r[i] = t[i]
      BY AppendProperties
    <2> QED BY <2>1, LenProperties
  <1> HIDE DEF n
  <1> DEFINE Good == {u \in SUBSET (1..n) : h[u] = g[u]}
  <1> DEFINE D == 1..n
  <1>2. ASSUME NEW u \in SUBSET D, \A v \in SUBSET u : v # u => v \in Good
        PROVE  u \in Good
    <2>1. u \in SUBSET (1..(n + 1))
      BY <1>1
    <2>2. CASE u = {}
      BY <1>1, <2>1, <2>2 DEF SeqFold
    <2>3. CASE u # {}
      <3>1. Max(u) \in u
        BY <1>1, <2>3, LastIsMax
      <3>2. h[u \ {Max(u)}] = g[u \ {Max(u)}] /\ r[Max(u)] = t[Max(u)]
        BY <1>1, <1>2, <3>1
      <3>3. g[u] = step[<<g[u \ {Max(u)}], t[Max(u)]>>]
        BY <1>1, <2>3 DEF SeqFold
      <3>4. h[u] = step[<<h[u \ {Max(u)}], r[Max(u)]>>]
        BY <1>1, <2>1, <2>3 DEF SeqFold
      <3> QED BY <3>2, <3>3, <3>4
    <2> QED BY <2>2, <2>3
  <1>3. SUBSET D \subseteq Good
    <2>1. IsFiniteSet(D)
      BY <1>1, FS_Interval
    <2> HIDE DEF Good, D
    <2> QED BY ONLY <1>2, <2>1, SubsetInduction
  <1>4. h[1..n] = g[1..n] /\ g[1..n] \in A
    BY <1>1, <1>3 DEF SeqFold
  <1> DEFINE all == 1..(n + 1)
  <1>5. all # {} /\ Max(all) = n + 1 /\ all \ {n + 1} = 1..n
    <2>1. n + 1 \in Nat /\ all \in SUBSET (1..(n + 1)) /\ n + 1 \in all
      BY <1>1
    <2>2. Max(all) = n + 1
      <3> HIDE DEF all
      <3> QED BY <2>1, LastIsMax
    <2> QED BY <1>1, <2>1, <2>2
  <1>6. h[all] = step[<<h[all \ {Max(all)}], r[Max(all)]>>]
    <2> HIDE DEF all
    <2> QED BY <1>1, <1>5 DEF SeqFold, all
  <1> QED BY <1>1, <1>4, <1>5, <1>6 DEF FoldsOneMore

-----------------------------------------------------------------------------
(* The rows of a table that are in a set, in their order. *)

SelectEquation(g, K, t) ==
    g = [u \in SUBSET (DOMAIN t) |->
            IF u = {} THEN <<>>
            ELSE IF t[Max(u)] \in K THEN Append(g[u \ {Max(u)}], t[Max(u)])
            ELSE g[u \ {Max(u)}]]

InSet(K, t) == (CHOOSE g : SelectEquation(g, K, t))[DOMAIN t]

SelectStep(K, B) ==
    [fr \in Seq(B) \X B |-> IF fr[2] \in K THEN Append(fr[1], fr[2]) ELSE fr[1]]

LEMMA SelectIsAFold ==
    ASSUME NEW B, NEW K
    PROVE  Folding(<<>>, SelectStep(K, B), Seq(B), B)
  <1>1. <<>> \in Seq(B)
    BY EmptySeq
  <1>2. \A found \in Seq(B), row \in B : Append(found, row) \in Seq(B)
    BY AppendProperties
  <1> QED BY <1>1, <1>2 DEF Folding, SelectStep

LEMMA SelectUnfolds ==
    ASSUME NEW B, NEW K, NEW t \in Seq(B)
    PROVE  \E g : /\ SeqFold(g, <<>>, SelectStep(K, B), t, Seq(B))
                  /\ InSet(K, t) = g[DOMAIN t]
  <1> DEFINE D    == DOMAIN t
             A    == Seq(B)
             step == SelectStep(K, B)
             base == <<>>
             g    == CHOOSE h : SelectEquation(h, K, t)
  <1>1. D = 1..Len(t) /\ Len(t) \in Nat /\ \A i \in D : t[i] \in B
    BY LenProperties, ElementOfSeq
  <1>2. \A u \in SUBSET D : u # {} => Max(u) \in u /\ t[Max(u)] \in B
    BY <1>1, LastIsMax
  <1>3. base \in A /\ step \in [A \X B -> A]
    BY SelectIsAFold DEF Folding
  <1>4. \A found \in A, row \in B :
           step[<<found, row>>] = IF row \in K THEN Append(found, row) ELSE found
    BY DEF SelectStep
  <1> HIDE DEF A, step, base
  <1>5. PICK h : SeqFold(h, base, step, t, A)
    BY <1>3, SeqFoldExists
  <1>6. ASSUME NEW u \in SUBSET D, u # {}
        PROVE  h[u] = IF t[Max(u)] \in K THEN Append(h[u \ {Max(u)}], t[Max(u)])
                      ELSE h[u \ {Max(u)}]
    <2>1. h[u \ {Max(u)}] \in A /\ h[u] = step[<<h[u \ {Max(u)}], t[Max(u)]>>]
      BY <1>5, <1>6 DEF SeqFold
    <2> QED BY <1>2, <1>4, <1>6, <2>1
  <1>7. h \in [SUBSET D -> A] /\ h[{}] = base
    BY <1>5 DEF SeqFold
  <1>8. SelectEquation(h, K, t)
    BY <1>6, <1>7 DEF SelectEquation, base
  <1>9. SelectEquation(g, K, t)
    BY <1>8
  <1>10. InSet(K, t) = g[D]
    BY DEF InSet
  <1> HIDE DEF g
  <1>11. /\ DOMAIN g = SUBSET D
         /\ \A u \in SUBSET D :
               g[u] = IF u = {} THEN base
                      ELSE IF t[Max(u)] \in K THEN Append(g[u \ {Max(u)}], t[Max(u)])
                      ELSE g[u \ {Max(u)}]
    BY <1>9 DEF SelectEquation, base
  <1> DEFINE Good == {u \in SUBSET D : g[u] = h[u]}
  <1>12. ASSUME NEW u \in SUBSET D, \A v \in SUBSET u : v # u => v \in Good
         PROVE  u \in Good
    <2>1. CASE u = {}
      BY <1>7, <1>11, <2>1
    <2>2. CASE u # {}
      <3>1. g[u \ {Max(u)}] = h[u \ {Max(u)}]
        BY <1>2, <1>12, <2>2
      <3>2. g[u] = h[u]
        BY <1>6, <1>11, <2>2, <3>1
      <3> QED BY <3>2
    <2> QED BY <2>1, <2>2
  <1>13. \A u \in SUBSET D : g[u] = h[u]
    <2>1. IsFiniteSet(D)
      BY <1>1, FS_Interval
    <2>2. SUBSET D \subseteq Good
      <3> HIDE DEF Good
      <3> QED BY ONLY <1>12, <2>1, SubsetInduction
    <2> QED BY <2>2
  <1> QED BY <1>5, <1>10, <1>13 DEF A, step, base

(* The value of the equation, of an empty table.                            *)
LEMMA InSetOfNone ==
    ASSUME NEW K
    PROVE  InSet(K, <<>>) = <<>>
  <1> DEFINE g == CHOOSE h : SelectEquation(h, K, <<>>)
  <1>1. DOMAIN <<>> = {}
    OBVIOUS
  <1>2. SelectEquation([u \in SUBSET {} |-> <<>>], K, <<>>)
    BY <1>1 DEF SelectEquation
  <1>3. SelectEquation(g, K, <<>>)
    BY <1>2
  <1> HIDE DEF g
  <1>4. g[{}] = <<>>
    BY <1>1, <1>3 DEF SelectEquation
  <1> QED BY <1>1, <1>4 DEF InSet, g

\* r selects what t selects, and row if it is in the set.
SelectsOneMore(K, r, t, row) ==
    InSet(K, r) = IF row \in K THEN Append(InSet(K, t), row) ELSE InSet(K, t)

(* What is appended to a table is selected last.                            *)
LEMMA SelectAppends ==
    ASSUME NEW B, NEW K, NEW t \in Seq(B), NEW row \in B, NEW r, r = Append(t, row)
    PROVE  InSet(K, t) \in Seq(B) /\ SelectsOneMore(K, r, t, row)
  <1> DEFINE A    == Seq(B)
             step == SelectStep(K, B)
             base == <<>>
  <1>1. r \in Seq(B)
    BY AppendProperties
  <1>2. Folding(base, step, A, B)
    BY SelectIsAFold
  <1>3. PICK g : SeqFold(g, base, step, t, A) /\ InSet(K, t) = g[DOMAIN t]
    BY SelectUnfolds
  <1>4. PICK h : SeqFold(h, base, step, r, A) /\ InSet(K, r) = h[DOMAIN r]
    BY <1>1, SelectUnfolds
  <1>5. \A found \in A :
           step[<<found, row>>] = IF row \in K THEN Append(found, row) ELSE found
    BY DEF SelectStep
  <1> HIDE DEF A, step, base
  <1>6. g[DOMAIN t] \in A /\ FoldsOneMore(h, g, step, t, row)
    BY ONLY <1>2, <1>3, <1>4, t \in Seq(B), row \in B, r = Append(t, row), SeqFoldAppends
  <1>7. h[DOMAIN r] = step[<<g[DOMAIN t], row>>]
    BY <1>6 DEF FoldsOneMore
  <1> QED BY <1>3, <1>4, <1>5, <1>6, <1>7 DEF SelectsOneMore, A
=============================================================================
