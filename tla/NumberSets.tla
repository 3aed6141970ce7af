----------------------------- MODULE NumberSets -----------------------------
(***************************************************************************)
(* Facts about numbers the proofs of several components share: the         *)
(* smallest and the largest member of a set, induction on natural numbers  *)
(* for a set, which the provers can use where they cannot instantiate a    *)
(* theorem about an operator, and from it what folds over sequences and    *)
(* sums over finite sets compute.                                          *)
(***************************************************************************)
EXTENDS Integers, FiniteSets, FiniteSetsExt, Folds, Functions, FiniteSetTheorems,
        WellFoundedInduction, NaturalsInduction, TLAPS

\* The smaller and the larger of two numbers, the smallest of three.
LEMMA MinOfPair ==
  ASSUME NEW a \in Int, NEW b \in Int
  PROVE  Min({a, b}) = IF a <= b THEN a ELSE b
BY DEF Min

LEMMA MaxOfPair ==
  ASSUME NEW a \in Int, NEW b \in Int
  PROVE  Max({a, b}) = IF a >= b THEN a ELSE b
BY DEF Max

LEMMA MinOfTriple ==
  ASSUME NEW a \in Int, NEW b \in Int, NEW c \in Int
  PROVE  /\ Min({a, b, c}) \in {a, b, c}
         /\ Min({a, b, c}) <= a /\ Min({a, b, c}) <= b /\ Min({a, b, c}) <= c
BY DEF Min

\* Every set of natural numbers that is not empty has a smallest member, and a
\* largest one if it is bounded.
LEMMA MinOfNaturals ==
  ASSUME NEW S \in SUBSET Nat, S # {}
  PROVE  Min(S) \in S /\ \A y \in S : Min(S) <= y
<1> DEFINE Less == {ss \in Nat \X Nat : ss[1] < ss[2]}
<1>1. IsWellFoundedOn(Less, Nat)
  BY NatLessThanWellFounded DEF OpToRel
<1>2. PICK x \in S : \A y \in S : <<y, x>> \notin Less
  <2> HIDE DEF Less
  <2> QED
    BY <1>1, WFMin
<1>3. ASSUME NEW y \in S, y < x PROVE FALSE
  <2>1. <<y, x>> \in Nat \X Nat /\ <<y, x>>[1] < <<y, x>>[2]
    BY <1>3
  <2> QED
    BY <1>2, <2>1
<1>4. \E z \in S : \A y \in S : z <= y
  <2>1. ASSUME NEW y \in S PROVE x <= y
    BY <1>3
  <2> QED
    BY <2>1
<1> QED
  BY <1>4 DEF Min

LEMMA MaxOfNaturals ==
  ASSUME NEW n \in Nat, NEW S \in SUBSET (0..n), S # {}
  PROVE  Max(S) \in S /\ \A y \in S : Max(S) >= y
<1> DEFINE Mirror == {n - x : x \in S}
<1>1. Mirror \in SUBSET Nat /\ Mirror # {}
  <2>1. \A x \in S : n - x \in Nat
    OBVIOUS
  <2>2. PICK x \in S : TRUE
    OBVIOUS
  <2>3. n - x \in Mirror
    OBVIOUS
  <2> QED
    BY <2>1, <2>3
<1>2. PICK m \in Mirror : \A y \in Mirror : m <= y
  <2> HIDE DEF Mirror
  <2> QED
    BY <1>1, MinOfNaturals
<1>3. PICK x \in S : m = n - x
  OBVIOUS
<1>4. ASSUME NEW y \in S PROVE x >= y
  <2>1. m <= n - y
    BY <1>2
  <2> QED
    BY <1>3, <2>1
<1>5. \E z \in S : \A y \in S : z >= y
  BY <1>4
<1> QED
  BY <1>5 DEF Max

\* What holds of zero and of the successor of each of its numbers holds of all.
LEMMA InductionOnSet ==
  ASSUME NEW S, 0 \in S, \A n \in Nat : n \in S => n + 1 \in S
  PROVE  \A n \in Nat : n \in S
<1> SUFFICES ASSUME NEW k \in Nat, k \notin S PROVE FALSE
  OBVIOUS
<1> DEFINE Rest == {n \in Nat : n \notin S}
<1>1. Rest \in SUBSET Nat /\ Rest # {}
  OBVIOUS
<1>2. PICK m \in Rest : \A y \in Rest : m <= y
  <2> HIDE DEF Rest
  <2> QED
    BY <1>1, MinOfNaturals
<1>3. m # 0 /\ m - 1 \in Nat /\ m - 1 \notin Rest
  BY <1>2
<1>4. (m - 1) + 1 \in S
  BY <1>3
<1> QED
  BY <1>2, <1>4

-----------------------------------------------------------------------------
(* Folds over a sequence, which are functions on the subsets of its indices *)
(* that take the largest index first.                                       *)

LEMMA LargestIndex ==
  ASSUME NEW n \in Nat, NEW s \in SUBSET (1 .. n), s # {}
  PROVE  Max(s) \in s /\ s \ {Max(s)} \in SUBSET (1 .. n)
<1>1. s \in SUBSET (0 .. n)
  OBVIOUS
<1> QED
  BY <1>1, MaxOfNaturals

\* What such a function g computes on the subsets of 1 .. n.
Iterates(n, base, step, g) ==
  \A s \in SUBSET (1 .. n) :
    g[s] = IF s = {} THEN base ELSE step[<<g[s \ {Max(s)}], Max(s)>>]

\* There is one.
LEMMA IterationExists ==
  ASSUME NEW n \in Nat, NEW V, NEW base \in V, NEW step \in [V \X (1 .. n) -> V]
  PROVE  \E g \in [SUBSET (1 .. n) -> V] : Iterates(n, base, step, g)
<1> DEFINE Iteration(m, g) ==
             \A s \in SUBSET (1 .. m) :
               g[s] = IF s = {} THEN base ELSE step[<<g[s \ {Max(s)}], Max(s)>>]
           Iterated(m) == \E g \in [SUBSET (1 .. m) -> V] : Iteration(m, g)
           S == {m \in Nat : m <= n => Iterated(m)}
<1>1. 0 \in S
  <2> DEFINE g == [s \in SUBSET (1 .. 0) |-> base]
  <2>1. SUBSET (1 .. 0) = {{}}
    OBVIOUS
  <2>2. g \in [SUBSET (1 .. 0) -> V] /\ Iteration(0, g)
    BY <2>1
  <2> QED
    BY <2>2
<1>2. ASSUME NEW m \in Nat, m \in S PROVE m + 1 \in S
  <2> SUFFICES ASSUME m + 1 <= n PROVE Iterated(m + 1)
    <3> HIDE DEF Iterated
    <3> QED
      OBVIOUS
  <2>0. Iterated(m)
    <3> HIDE DEF Iterated
    <3> QED
      BY <1>2
  <2>1. PICK g \in [SUBSET (1 .. m) -> V] : Iteration(m, g)
    <3> HIDE DEF Iteration
    <3> QED
      BY <2>0
  <2> DEFINE h == [s \in SUBSET (1 .. m + 1) |->
                     IF m + 1 \in s THEN step[<<g[s \ {m + 1}], m + 1>>] ELSE g[s]]
  <2>2. ASSUME NEW s \in SUBSET (1 .. m + 1), m + 1 \in s
        PROVE  /\ s \ {m + 1} \in SUBSET (1 .. m) /\ Max(s) = m + 1 /\ s # {}
               /\ h[s] = step[<<g[s \ {m + 1}], m + 1>>] /\ h[s] \in V
               /\ h[s \ {m + 1}] = g[s \ {m + 1}]
    <3>1. s \ {m + 1} \in SUBSET (1 .. m) /\ s \ {m + 1} \in SUBSET (1 .. m + 1)
      BY <2>2
    <3>2. Max(s) = m + 1
      <4>1. s \in SUBSET (0 .. m + 1) /\ m + 1 \in Nat
        OBVIOUS
      <4>2. Max(s) \in s /\ \A y \in s : Max(s) >= y
        BY <2>2, <4>1, MaxOfNaturals
      <4>3. m + 1 \in Int /\ Max(s) \in Int /\ Max(s) <= m + 1
        <5>1. Max(s) \in 1 .. m + 1
          BY <4>2
        <5> QED
          BY <5>1
      <4>4. Max(s) >= m + 1
        BY <2>2, <4>2
      <4> QED
        BY <4>3, <4>4
    <3>3. h[s] = step[<<g[s \ {m + 1}], m + 1>>]
      BY <2>2
    <3>4. m + 1 \in 1 .. n /\ g[s \ {m + 1}] \in V
      BY <2>1, <3>1
    <3>5. <<g[s \ {m + 1}], m + 1>> \in V \X (1 .. n)
      BY <3>4
    <3>6. h[s] \in V
      BY <3>3, <3>5
    <3> QED
      BY <2>2, <3>1, <3>2, <3>3, <3>6
  <2>3. ASSUME NEW s \in SUBSET (1 .. m + 1), m + 1 \notin s
        PROVE  /\ s \in SUBSET (1 .. m) /\ h[s] = g[s] /\ h[s] \in V
               /\ s # {} => h[s \ {Max(s)}] = g[s \ {Max(s)}]
    <3>1. s \in SUBSET (1 .. m)
      BY <2>3
    <3> QED
      BY <2>1, <2>3, <3>1, LargestIndex
  <2>4. h \in [SUBSET (1 .. m + 1) -> V]
    BY <2>2, <2>3
  <2>5. Iteration(m + 1, h)
    <3> SUFFICES ASSUME NEW s \in SUBSET (1 .. m + 1)
                 PROVE  h[s] = IF s = {} THEN base ELSE step[<<h[s \ {Max(s)}], Max(s)>>]
      OBVIOUS
    <3> HIDE DEF h
    <3>1. CASE m + 1 \in s
      BY <2>2, <3>1
    <3>2. CASE m + 1 \notin s
      <4>1. g[s] = IF s = {} THEN base ELSE step[<<g[s \ {Max(s)}], Max(s)>>]
        BY <2>1, <2>3, <3>2
      <4> QED
        BY <2>3, <3>2, <4>1
    <3> QED
      BY <3>1, <3>2
  <2> HIDE DEF h
  <2> QED
    BY <2>4, <2>5
<1>3. n \in S
  <2> HIDE DEF S
  <2> QED
    BY <1>1, <1>2, InductionOnSet
<1>4. Iterated(n)
  <2> HIDE DEF Iterated
  <2> QED
    BY <1>3
<1> QED
  BY <1>4 DEF Iterates

\* What each step preserves holds of the result.
LEMMA IterationInduction ==
  ASSUME NEW n \in Nat, NEW g, NEW V, g[{}] \in V,
         \A s \in SUBSET (1 .. n) : s # {} /\ g[s \ {Max(s)}] \in V => g[s] \in V
  PROVE  g[1 .. n] \in V
<1> DEFINE S == {m \in Nat : m <= n => g[1 .. m] \in V}
<1>1. 0 \in S
  <2>1. 1 .. 0 = {}
    OBVIOUS
  <2> QED
    BY <2>1
<1>2. ASSUME NEW m \in Nat, m \in S PROVE m + 1 \in S
  <2> SUFFICES ASSUME m + 1 <= n PROVE g[1 .. m + 1] \in V
    OBVIOUS
  <2>1. 1 .. m + 1 \in SUBSET (1 .. n) /\ 1 .. m + 1 # {}
    BY <1>2
  <2>2. Max(1 .. m + 1) = m + 1
    <3>1. 1 .. m + 1 \in SUBSET (0 .. m + 1) /\ m + 1 \in Nat /\ m + 1 \in 1 .. m + 1
      OBVIOUS
    <3>2. Max(1 .. m + 1) \in 1 .. m + 1 /\ \A y \in 1 .. m + 1 : Max(1 .. m + 1) >= y
      BY <2>1, <3>1, MaxOfNaturals
    <3> QED
      BY <3>1, <3>2
  <2>3. (1 .. m + 1) \ {m + 1} = 1 .. m
    OBVIOUS
  <2>4. g[(1 .. m + 1) \ {Max(1 .. m + 1)}] \in V
    <3>1. g[1 .. m] \in V
      BY <1>2
    <3> QED
      BY <2>2, <2>3, <3>1
  <2> QED
    BY <2>1, <2>4
<1>3. n \in S
  <2> HIDE DEF S
  <2> QED
    BY <1>1, <1>2, InductionOnSet
<1> QED
  BY <1>3

-----------------------------------------------------------------------------
(* Sums over finite sets, which take the members in any order.              *)

Member(s) == CHOOSE x \in s : TRUE

\* T[s] is the sum of w over s, for every subset s of A.
SumsUp(A, w, T) ==
  \A s \in SUBSET A : T[s] = IF s = {} THEN 0 ELSE w[Member(s)] + T[s \ {Member(s)}]

LEMMA MemberFacts ==
  ASSUME NEW A, IsFiniteSet(A), NEW s \in SUBSET A, s # {}
  PROVE  /\ Member(s) \in s /\ s \ {Member(s)} \in SUBSET A
         /\ Cardinality(s) \in Nat \ {0} /\ Cardinality(s \ {Member(s)}) = Cardinality(s) - 1
<1>1. IsFiniteSet(s) /\ Cardinality(s) \in Nat /\ Cardinality(s) # 0
  BY FS_Subset, FS_CardinalityType, FS_EmptySet
<1>2. Member(s) \in s
  BY DEF Member
<1> QED
  BY <1>1, <1>2, FS_RemoveElement

LEMMA SumExists ==
  ASSUME NEW A, IsFiniteSet(A), NEW w \in [A -> Int]
  PROVE  \E T \in [SUBSET A -> Int] : SumsUp(A, w, T)
<1> DEFINE Small(n) == {s \in SUBSET A : Cardinality(s) <= n}
           Sums(n, T) == \A s \in Small(n) :
                           T[s] = IF s = {} THEN 0 ELSE w[Member(s)] + T[s \ {Member(s)}]
           Summed(n) == \E T \in [Small(n) -> Int] : Sums(n, T)
           S == {n \in Nat : Summed(n)}
<1>1. \A s \in SUBSET A : Cardinality(s) \in Nat /\ (Cardinality(s) = 0 <=> s = {})
  BY FS_Subset, FS_CardinalityType, FS_EmptySet
<1>2. 0 \in S
  <2>1. \A s \in Small(0) : s = {}
    BY <1>1
  <2>2. [s \in Small(0) |-> 0] \in [Small(0) -> Int] /\ Sums(0, [s \in Small(0) |-> 0])
    BY <2>1
  <2> QED
    BY <2>2
<1>3. ASSUME NEW n \in Nat, n \in S PROVE n + 1 \in S
  <2>0. Summed(n)
    <3> HIDE DEF Summed
    <3> QED
      BY <1>3
  <2>1. PICK T \in [Small(n) -> Int] : Sums(n, T)
    <3> HIDE DEF Sums, Small
    <3> QED
      BY <2>0
  <2> DEFINE U == [s \in Small(n + 1) |->
                     IF s = {} THEN 0 ELSE w[Member(s)] + T[s \ {Member(s)}]]
  <2>2. \A s \in Small(n) : s \in Small(n + 1) /\ U[s] = T[s]
    <3> SUFFICES ASSUME NEW s \in Small(n) PROVE s \in Small(n + 1) /\ U[s] = T[s]
      OBVIOUS
    <3>1. s \in Small(n + 1)
      BY <1>1
    <3>2. T[s] = IF s = {} THEN 0 ELSE w[Member(s)] + T[s \ {Member(s)}]
      BY <2>1
    <3> QED
      BY <3>1, <3>2
  <2>3. ASSUME NEW s \in Small(n + 1), s # {}
        PROVE  Member(s) \in A /\ s \ {Member(s)} \in Small(n)
    <3>1. s \in SUBSET A /\ Cardinality(s) <= n + 1
      OBVIOUS
    <3>2. /\ Member(s) \in s /\ s \ {Member(s)} \in SUBSET A
          /\ Cardinality(s) \in Nat /\ Cardinality(s \ {Member(s)}) = Cardinality(s) - 1
      BY <2>3, <3>1, MemberFacts
    <3>3. Cardinality(s \ {Member(s)}) <= n
      BY <3>1, <3>2
    <3> QED
      BY <3>1, <3>2, <3>3
  <2>4. U \in [Small(n + 1) -> Int]
    <3> SUFFICES ASSUME NEW s \in Small(n + 1)
                 PROVE  (IF s = {} THEN 0 ELSE w[Member(s)] + T[s \ {Member(s)}]) \in Int
      OBVIOUS
    <3>1. CASE s # {}
      <4>1. w[Member(s)] \in Int /\ T[s \ {Member(s)}] \in Int
        <5> HIDE DEF Small
        <5> QED
          BY <2>1, <2>3, <3>1
      <4> QED
        BY <4>1
    <3> QED
      BY <3>1
  <2>5. Sums(n + 1, U)
    <3> SUFFICES ASSUME NEW s \in Small(n + 1)
                 PROVE  U[s] = IF s = {} THEN 0 ELSE w[Member(s)] + U[s \ {Member(s)}]
      OBVIOUS
    <3>1. U[s] = IF s = {} THEN 0 ELSE w[Member(s)] + T[s \ {Member(s)}]
      OBVIOUS
    <3> HIDE DEF U
    <3> QED
      BY <2>2, <2>3, <3>1
  <2>6. Summed(n + 1)
    <3> HIDE DEF U, Sums, Small
    <3> QED
      BY <2>4, <2>5
  <2> HIDE DEF Summed
  <2> QED
    BY <2>6
<1>4. \A n \in Nat : n \in S
  <2> HIDE DEF S
  <2> QED
    BY <1>2, <1>3, InductionOnSet
<1>5. Cardinality(A) \in Nat /\ Small(Cardinality(A)) = SUBSET A
  BY FS_Subset, FS_CardinalityType
<1>6. Summed(Cardinality(A))
  <2> HIDE DEF Summed
  <2> QED
    BY <1>4, <1>5
<1> QED
  BY <1>5, <1>6 DEF SumsUp

\* A new member adds its weight.
Grows(A, w, T) == \A s \in SUBSET A : \A x \in A \ s : T[s \cup {x}] = T[s] + w[x]

LEMMA SumAdd ==
  ASSUME NEW A, IsFiniteSet(A), NEW w \in [A -> Int], NEW T \in [SUBSET A -> Int],
         SumsUp(A, w, T)
  PROVE  Grows(A, w, T)
<1> DEFINE Adds(s) == \A x \in A \ s : T[s \cup {x}] = T[s] + w[x]
           S == {n \in Nat : \A s \in SUBSET A : Cardinality(s) = n => Adds(s)}
<1>1. \A s \in SUBSET A : IsFiniteSet(s) /\ Cardinality(s) \in Nat /\ (Cardinality(s) = 0 <=> s = {})
  BY FS_Subset, FS_CardinalityType, FS_EmptySet
<1>2. 0 \in S
  <2> SUFFICES ASSUME NEW x \in A PROVE T[{} \cup {x}] = T[{}] + w[x]
    BY <1>1
  <2>1. Member({x}) = x /\ {x} \ {x} = {} /\ {x} # {} /\ {} \cup {x} = {x}
    BY DEF Member
  <2>2. {x} \in SUBSET A /\ {} \in SUBSET A
    OBVIOUS
  <2>3. T[{x}] = w[x] + T[{}] /\ T[{}] \in Int /\ w[x] \in Int
    BY <2>1, <2>2 DEF SumsUp
  <2> QED
    BY <2>1, <2>3
<1>3. ASSUME NEW n \in Nat, n \in S PROVE n + 1 \in S
  <2> SUFFICES ASSUME NEW s \in SUBSET A, Cardinality(s) = n + 1, NEW x \in A \ s
               PROVE  T[s \cup {x}] = T[s] + w[x]
    OBVIOUS
  <2> DEFINE u == s \cup {x}
             y == Member(u)
  <2>1. y \in u /\ u \in SUBSET A /\ u # {} /\ y \in A
    BY DEF Member
  <2>2. T[u] = w[y] + T[u \ {y}]
    BY <2>1 DEF SumsUp
  <2> HIDE DEF y
  <2>3. CASE y = x
    <3>1. u \ {y} = s /\ T[s] \in Int /\ w[x] \in Int
      BY <2>3
    <3>2. T[u] = w[x] + T[s]
      BY <2>2, <2>3, <3>1
    <3> QED
      BY <3>1, <3>2
  <2>4. CASE y # x
    <3> DEFINE r == s \ {y}
    <3>1. y \in s /\ r \in SUBSET A /\ y \in A \ r /\ x \in A \ r
      BY <2>1, <2>4
    <3>2. u \ {y} = r \cup {x} /\ s = r \cup {y}
      BY <2>4, <3>1
    <3>3. Cardinality(r) = n
      <4>1. Cardinality(s \ {y}) = Cardinality(s) - 1
        BY <1>1, <3>1, FS_RemoveElement
      <4> QED
        BY <4>1
    <3>4. Adds(r)
      <4> HIDE DEF Adds
      <4> QED
        BY <1>3, <3>1, <3>3
    <3> HIDE DEF r, u
    <3>5. T[r \cup {x}] = T[r] + w[x] /\ T[r \cup {y}] = T[r] + w[y]
      BY <3>1, <3>4
    <3>6. T[r] \in Int /\ w[x] \in Int /\ w[y] \in Int
      BY <3>1
    <3>7. T[u] = w[y] + (T[r] + w[x]) /\ T[s] = T[r] + w[y]
      BY <2>2, <3>2, <3>5
    <3>8. T[u] = T[s] + w[x]
      BY <3>6, <3>7
    <3> QED
      BY <3>8 DEF u
  <2> QED
    BY <2>3, <2>4
<1>4. \A n \in Nat : n \in S
  <2> HIDE DEF S
  <2> QED
    BY <1>2, <1>3, InductionOnSet
<1>5. \A s \in SUBSET A : Adds(s)
  <2> HIDE DEF Adds
  <2> QED
    BY <1>1, <1>4
<1> QED
  BY <1>5 DEF Grows

\* It does not matter of which set the members are a subset.
LEMMA SumIsSum ==
  ASSUME NEW A, IsFiniteSet(A), NEW w \in [A -> Int], NEW T \in [SUBSET A -> Int],
         SumsUp(A, w, T), NEW B \in SUBSET A, NEW g, SumsUp(B, w, g)
  PROVE  g[B] = T[B]
<1> DEFINE S == {n \in Nat : \A s \in SUBSET B : Cardinality(s) = n => g[s] = T[s]}
<1>1. IsFiniteSet(B)
  BY FS_Subset
<1>2. \A s \in SUBSET B : Cardinality(s) \in Nat /\ (Cardinality(s) = 0 <=> s = {})
  BY <1>1, FS_Subset, FS_CardinalityType, FS_EmptySet
<1>3. 0 \in S
  BY <1>2 DEF SumsUp
<1>4. ASSUME NEW n \in Nat, n \in S PROVE n + 1 \in S
  <2> SUFFICES ASSUME NEW s \in SUBSET B, Cardinality(s) = n + 1 PROVE g[s] = T[s]
    OBVIOUS
  <2>1. s # {}
    BY <1>2
  <2>2. s \ {Member(s)} \in SUBSET B /\ Cardinality(s \ {Member(s)}) = n
    BY <1>1, <2>1, MemberFacts
  <2>3. g[s \ {Member(s)}] = T[s \ {Member(s)}]
    BY <1>4, <2>2
  <2>4. s \in SUBSET A
    OBVIOUS
  <2>5. g[s] = w[Member(s)] + g[s \ {Member(s)}] /\ T[s] = w[Member(s)] + T[s \ {Member(s)}]
    BY <2>1, <2>4 DEF SumsUp
  <2> QED
    BY <2>3, <2>5
<1>5. \A n \in Nat : n \in S
  <2> HIDE DEF S
  <2> QED
    BY <1>3, <1>4, InductionOnSet
<1>6. B \in SUBSET B /\ Cardinality(B) \in Nat
  BY <1>2
<1> QED
  BY <1>5, <1>6

\* SumFunction adds up the values of a function.
LEMMA SumOfFunction ==
  ASSUME NEW A, IsFiniteSet(A), NEW w \in [A -> Int]
  PROVE  \E T \in [SUBSET A -> Int] : SumsUp(A, w, T) /\ SumFunction(w) = T[A]
<1> DEFINE Iter(g) == g = [s \in SUBSET A |->
                             IF s = {} THEN 0 ELSE w[Member(s)] + g[s \ {Member(s)}]]
           T == CHOOSE g : Iter(g)
<1>1. DOMAIN w = A
  OBVIOUS
<1>2. SumFunction(w) = T[A]
  BY <1>1 DEF SumFunction, SumFunctionOnSet, FoldFunctionOnSet, MapThenFoldSet, Member
<1>3. PICK g \in [SUBSET A -> Int] : SumsUp(A, w, g)
  BY SumExists
<1>4. Iter(g)
  BY <1>3 DEF SumsUp
<1>5. Iter(T)
  <2> HIDE DEF Iter
  <2> QED
    BY <1>4
<1>6. SumsUp(A, w, T)
  <2>1. \A s \in SUBSET A : T[s] = IF s = {} THEN 0 ELSE w[Member(s)] + T[s \ {Member(s)}]
    <3> HIDE DEF T
    <3> QED
      BY <1>5
  <2> QED
    BY <2>1 DEF SumsUp
<1> HIDE DEF T
<1>7. \A B \in SUBSET A : SumsUp(B, w, T)
  BY <1>6 DEF SumsUp
<1>8. \A B \in SUBSET A : T[B] = g[B]
  BY <1>3, <1>7, SumIsSum
<1>9. T = [s \in SUBSET A |-> T[s]]
  BY <1>5
<1>10. T \in [SUBSET A -> Int]
  BY <1>8, <1>9
<1> QED
  BY <1>2, <1>6, <1>10

LEMMA SumOfNothing ==
  ASSUME NEW w \in [{} -> Int]
  PROVE  SumFunction(w) = 0
<1>1. PICK T \in [SUBSET {} -> Int] : SumsUp({}, w, T) /\ SumFunction(w) = T[{}]
  BY SumOfFunction, FS_EmptySet
<1> QED
  BY <1>1 DEF SumsUp

LEMMA SumExtended ==
  ASSUME NEW A, IsFiniteSet(A), NEW x, x \notin A,
         NEW v \in [A -> Int], NEW w \in [A \cup {x} -> Int], \A y \in A : v[y] = w[y]
  PROVE  SumFunction(v) \in Int /\ SumFunction(w) = SumFunction(v) + w[x]
<1> DEFINE B == A \cup {x}
<1>0. IsFiniteSet(B) /\ A \in SUBSET B /\ x \in B \ A
  BY FS_AddElement
<1>1. B = A \cup {x}
  OBVIOUS
<1>2. w \in [B -> Int]
  OBVIOUS
<1> HIDE DEF B
<1>3. PICK T \in [SUBSET B -> Int] : SumsUp(B, w, T) /\ SumFunction(w) = T[B]
  BY <1>0, <1>2, SumOfFunction
<1>4. PICK g \in [SUBSET A -> Int] : SumsUp(A, v, g) /\ SumFunction(v) = g[A]
  BY SumOfFunction
<1>5. SumsUp(A, w, g)
  <2> SUFFICES ASSUME NEW s \in SUBSET A
               PROVE  g[s] = IF s = {} THEN 0 ELSE w[Member(s)] + g[s \ {Member(s)}]
    BY DEF SumsUp
  <2>1. s # {} => Member(s) \in A
    BY DEF Member
  <2> QED
    BY <1>4, <2>1 DEF SumsUp
<1>6. g[A] = T[A]
  BY <1>0, <1>2, <1>3, <1>5, SumIsSum
<1>7. T[A \cup {x}] = T[A] + w[x]
  <2>1. Grows(B, w, T)
    BY <1>0, <1>2, <1>3, SumAdd
  <2> QED
    BY <1>0, <2>1 DEF Grows
<1> QED
  BY <1>1, <1>3, <1>4, <1>6, <1>7
=============================================================================
