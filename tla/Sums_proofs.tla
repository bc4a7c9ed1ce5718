---------------------------- MODULE Sums_proofs -----------------------------
(***************************************************************************)
(* What the sums and the rounding do, for every input.                     *)
(* A sum is a fold that takes the elements of a finite set in an order     *)
(* nobody knows; nothing here is stated by induction over data, but by     *)
(* sets that contain the empty one and grow by an element.                 *)
(***************************************************************************)
EXTENDS Sums, FiniteSetTheorems, SequenceTheorems, WellFoundedInduction, TLAPS

-----------------------------------------------------------------------------
(* Growing sets *)

\* A set of numbers with zero and the successor of each of its own is Nat.
LEMMA Numbers ==
    ASSUME NEW P, 0 \in P, \A n \in Nat : n \in P => n + 1 \in P
    PROVE  Nat \subseteq P
<1> DEFINE Bad == Nat \ P
<1> SUFFICES ASSUME Bad # {} PROVE FALSE
  OBVIOUS
<1>1. PICK k \in Bad : \A y \in Nat : <<y, k>> \in OpToRel(<, Nat) => y \notin Bad
  <2>1. Bad \subseteq Nat
    OBVIOUS
  <2> HIDE DEF Bad
  <2> QED BY <2>1, NatLessThanWellFounded, WFMin
<1>2. k \in Nat /\ k \notin P /\ k # 0
  OBVIOUS
<1>0. k - 1 \in Nat /\ (k - 1) + 1 = k
  BY <1>2
<1>3. <<k - 1, k>> \in OpToRel(<, Nat)
  BY <1>2, <1>0 DEF OpToRel
<1>4. k - 1 \in P
  BY <1>1, <1>0, <1>3
<1>5. (k - 1) + 1 \in P
  BY <1>0, <1>4
<1> QED BY <1>2, <1>0, <1>5

\* A set of numbers has a smallest.
LEMMA Least ==
    ASSUME NEW S, S \subseteq Nat, S # {}
    PROVE  \E k \in S : \A j \in S : k <= j
<1>1. PICK k \in S : \A y \in Nat : <<y, k>> \in OpToRel(<, Nat) => y \notin S
  BY NatLessThanWellFounded, WFMin
<1>2. ASSUME NEW j \in S PROVE k <= j
  <2> SUFFICES ASSUME ~(k <= j) PROVE FALSE
    OBVIOUS
  <2>1. <<j, k>> \in OpToRel(<, Nat)
    BY DEF OpToRel
  <2> QED BY <1>1, <2>1
<1> QED BY <1>2

\* A family of subsets with the empty one, that an element may join, has all.
LEMMA Subsets ==
    ASSUME NEW S, IsFiniteSet(S), NEW Good, {} \in Good,
           \A A \in SUBSET S, x \in S : A \in Good /\ x \notin A => A \cup {x} \in Good
    PROVE  SUBSET S \subseteq Good
<1> DEFINE P == {n \in Nat : \A A \in SUBSET S : Cardinality(A) = n => A \in Good}
<1>1. \A A \in SUBSET S : IsFiniteSet(A) /\ Cardinality(A) \in Nat
  BY FS_Subset, FS_CardinalityType
<1>2. 0 \in P
  <2>1. \A A \in SUBSET S : Cardinality(A) = 0 => A = {}
    BY <1>1, FS_EmptySet
  <2> QED BY <2>1
<1>3. ASSUME NEW n \in Nat, n \in P PROVE n + 1 \in P
  <2>1. ASSUME NEW A \in SUBSET S, Cardinality(A) = n + 1 PROVE A \in Good
    <3>1. A # {}
      <4>1. n + 1 # 0
        OBVIOUS
      <4> QED BY <2>1, <4>1, FS_EmptySet
    <3>2. PICK x \in A : TRUE
      BY <3>1
    <3> DEFINE B == A \ {x}
    <3>3. B \in SUBSET S /\ x \notin B /\ x \in S /\ B \cup {x} = A
      BY <3>2
    <3>4. Cardinality(B) = n
      <4>1. Cardinality(B) = Cardinality(A) - 1
        BY <1>1, <3>2, FS_RemoveElement
      <4> QED BY <2>1, <4>1
    <3>5. B \in Good
      BY <1>3, <3>3, <3>4
    <3> HIDE DEF B
    <3> QED BY <3>3, <3>5
  <2> QED BY <2>1
<1>4. Nat \subseteq P
  <2> HIDE DEF P
  <2> QED BY <1>2, <1>3, Numbers
<1> QED BY <1>1, <1>4

-----------------------------------------------------------------------------
(* Sums *)

One(s) == CHOOSE x \in s : TRUE
Adds(g, f, S) == \A s \in SUBSET S : g[s] = IF s = {} THEN 0 ELSE f[One(s)] + g[s \ {One(s)}]

\* The recursion of the fold has a solution: it is built one cardinality
\* after the other.
LEMMA SumExists ==
    ASSUME NEW S, IsFiniteSet(S), NEW f, \A x \in S : f[x] \in Int
    PROVE  \E g \in [SUBSET S -> Int] : Adds(g, f, S)
<1> DEFINE Level(n) == {s \in SUBSET S : Cardinality(s) <= n}
           P == {n \in Nat : \E g \in [Level(n) -> Int] :
                   \A s \in Level(n) : g[s] = IF s = {} THEN 0 ELSE f[One(s)] + g[s \ {One(s)}]}
<1>1. \A s \in SUBSET S : IsFiniteSet(s) /\ Cardinality(s) \in Nat /\ Cardinality(s) <= Cardinality(S)
  BY FS_Subset, FS_CardinalityType
<1>2. ASSUME NEW s \in SUBSET S, s # {}
      PROVE  /\ One(s) \in s /\ f[One(s)] \in Int
             /\ s \ {One(s)} \in SUBSET S /\ Cardinality(s \ {One(s)}) = Cardinality(s) - 1
  <2>1. One(s) \in s
    BY <1>2 DEF One
  <2> QED BY <1>1, <2>1, FS_RemoveElement
<1>3. 0 \in P
  <2> DEFINE g == [s \in Level(0) |-> 0]
  <2>1. \A s \in Level(0) : s = {}
    BY <1>1, FS_EmptySet
  <2>2. g \in [Level(0) -> Int] /\ \A s \in Level(0) : g[s] = IF s = {} THEN 0 ELSE f[One(s)] + g[s \ {One(s)}]
    BY <2>1
  <2> QED BY <2>2
<1>4. ASSUME NEW n \in Nat, n \in P PROVE n + 1 \in P
  <2>1. PICK g \in [Level(n) -> Int] :
          \A s \in Level(n) : g[s] = IF s = {} THEN 0 ELSE f[One(s)] + g[s \ {One(s)}]
    BY <1>4
  <2> DEFINE h == [s \in Level(n + 1) |-> IF s = {} THEN 0 ELSE f[One(s)] + g[s \ {One(s)}]]
  <2>2. ASSUME NEW s \in Level(n + 1), s # {} PROVE s \ {One(s)} \in Level(n)
    BY <1>1, <1>2, <2>2
  <2>3. h \in [Level(n + 1) -> Int]
    BY <1>2, <2>2
  <2>4. \A s \in Level(n) : s \in Level(n + 1) /\ h[s] = g[s]
    BY <1>1, <2>1
  <2>5. ASSUME NEW s \in Level(n + 1) PROVE h[s] = IF s = {} THEN 0 ELSE f[One(s)] + h[s \ {One(s)}]
    <3>1. h[s] = IF s = {} THEN 0 ELSE f[One(s)] + g[s \ {One(s)}]
      OBVIOUS
    <3> HIDE DEF h, Level
    <3> QED BY <2>2, <2>4, <3>1
  <2>6. \E g2 \in [Level(n + 1) -> Int] :
          \A s \in Level(n + 1) : g2[s] = IF s = {} THEN 0 ELSE f[One(s)] + g2[s \ {One(s)}]
    <3> HIDE DEF h, Level
    <3> QED BY <2>3, <2>5
  <2>7. n + 1 \in Nat
    OBVIOUS
  <2> HIDE DEF h, Level
  <2> QED BY <2>6, <2>7
<1>5. Cardinality(S) \in P
  <2>1. Nat \subseteq P
    <3> HIDE DEF P
    <3> QED BY <1>3, <1>4, Numbers
  <2> QED BY <1>1, <2>1
<1>6. Level(Cardinality(S)) = SUBSET S
  BY <1>1
<1> QED BY <1>5, <1>6 DEF Adds

\* Whichever element the fold takes first.
AddsAny(g, f, S) ==
  /\ g[{}] = 0
  /\ \A A \in SUBSET S, x \in S : x \notin A => g[A \cup {x}] = f[x] + g[A]

LEMMA AddsAnyone ==
    ASSUME NEW S, IsFiniteSet(S), NEW f, \A x \in S : f[x] \in Int,
           NEW g \in [SUBSET S -> Int], Adds(g, f, S)
    PROVE  AddsAny(g, f, S)
<1> DEFINE Good(A) == \A x \in S : x \notin A => g[A \cup {x}] = f[x] + g[A]
           P == {n \in Nat : \A A \in SUBSET S : Cardinality(A) = n => Good(A)}
<1>1. \A A \in SUBSET S : IsFiniteSet(A) /\ Cardinality(A) \in Nat /\ g[A] \in Int
  BY FS_Subset, FS_CardinalityType
<1>2. g[{}] = 0
  BY DEF Adds
<1>3. ASSUME NEW A \in SUBSET S, A # {}
      PROVE  One(A) \in A /\ f[One(A)] \in Int /\ g[A] = f[One(A)] + g[A \ {One(A)}]
  BY <1>3 DEF Adds, One
<1>4. 0 \in P
  <2>1. ASSUME NEW x \in S PROVE g[{} \cup {x}] = f[x] + g[{}]
    <3>1. One({x}) = x
      BY DEF One
    <3>2. {x} \in SUBSET S /\ {x} # {} /\ {x} \ {x} = {} /\ {} \cup {x} = {x}
      OBVIOUS
    <3> QED BY <1>3, <3>1, <3>2
  <2>2. \A A \in SUBSET S : Cardinality(A) = 0 => A = {}
    BY <1>1, FS_EmptySet
  <2> QED BY <2>1, <2>2
<1>5. ASSUME NEW n \in Nat, n \in P PROVE n + 1 \in P
  <2>1. ASSUME NEW A \in SUBSET S, Cardinality(A) = n + 1, NEW x \in S, x \notin A
        PROVE  g[A \cup {x}] = f[x] + g[A]
    <3> DEFINE B == A \cup {x}
               c == One(B)
    <3>1. B \in SUBSET S /\ B # {} /\ c \in B /\ g[B] = f[c] + g[B \ {c}]
      BY <1>3
    <3>2. CASE c = x
      <4>1. B \ {c} = A
        BY <2>1, <3>2
      <4> HIDE DEF B, c
      <4> QED BY <3>1, <3>2, <4>1 DEF B
    <3>3. CASE c # x
      <4> DEFINE D == A \ {c}
      <4>1. /\ c \in A /\ c \in S /\ D \in SUBSET S /\ c \notin D /\ x \notin D
            /\ B \ {c} = D \cup {x} /\ A = D \cup {c}
        <5> HIDE DEF c
        <5> QED BY <2>1, <3>1, <3>3
      <4>2. Cardinality(D) = n
        <5>1. Cardinality(D) = Cardinality(A) - 1
          <6>1. IsFiniteSet(A)
            BY <1>1, <2>1
          <6> HIDE DEF c
          <6> QED BY <4>1, <6>1, FS_RemoveElement
        <5> QED BY <2>1, <5>1
      <4> HIDE DEF D, c, B
      <4>3. Good(D)
        BY <1>5, <4>1, <4>2
      <4>4. g[D \cup {x}] = f[x] + g[D] /\ g[D \cup {c}] = f[c] + g[D]
        BY <4>1, <4>3
      <4>5. g[B] = f[c] + (f[x] + g[D]) /\ g[A] = f[c] + g[D]
        BY <3>1, <4>1, <4>4
      <4>6. g[D] \in Int /\ f[c] \in Int /\ f[x] \in Int
        BY <1>1, <4>1
      <4>7. g[B] = f[x] + g[A]
        BY <4>5, <4>6
      <4> QED BY <4>7 DEF B
    <3> QED BY <3>2, <3>3
  <2> QED BY <2>1
<1>6. Nat \subseteq P
  <2> HIDE DEF P
  <2> QED BY <1>4, <1>5, Numbers
<1> QED BY <1>1, <1>2, <1>6 DEF AddsAny

\* A sum is what the recursion of the fold gives for all of the set.
LEMMA SumIs ==
    ASSUME NEW S, IsFiniteSet(S), NEW f, DOMAIN f = S, \A x \in S : f[x] \in Int
    PROVE  \E g \in [SUBSET S -> Int] : Adds(g, f, S) /\ SumOf(f) = g[S]
<1> DEFINE Solves(h) == h = [s \in SUBSET S |-> IF s = {} THEN 0 ELSE f[One(s)] + h[s \ {One(s)}]]
           iter == CHOOSE h : Solves(h)
<1>1. PICK g \in [SUBSET S -> Int] : Adds(g, f, S)
  BY SumExists
<1>2. Solves(g)
  BY <1>1 DEF Adds
<1>3. Solves(iter)
  BY <1>2
<1>4. SumOf(f) = iter[S]
  BY DEF SumOf, FoldFunction, FoldFunctionOnSet, MapThenFoldSet, One
<1>5. ASSUME NEW h, Solves(h) PROVE DOMAIN h = SUBSET S /\ Adds(h, f, S)
  BY <1>5 DEF Adds
<1> HIDE DEF iter
<1>6. DOMAIN iter = SUBSET S /\ Adds(iter, f, S)
  BY <1>3, <1>5
<1> DEFINE Good == {A \in SUBSET S : iter[A] \in Int}
<1>7. iter \in [SUBSET S -> Int]
  <2> DEFINE P == {n \in Nat : \A A \in SUBSET S : Cardinality(A) = n => iter[A] \in Int}
  <2>1. \A A \in SUBSET S : IsFiniteSet(A) /\ Cardinality(A) \in Nat
    BY FS_Subset, FS_CardinalityType
  <2>2. \A A \in SUBSET S : A # {} => /\ One(A) \in A /\ iter[A] = f[One(A)] + iter[A \ {One(A)}]
    BY <1>6 DEF Adds, One
  <2>3. 0 \in P
    <3>1. \A A \in SUBSET S : Cardinality(A) = 0 => A = {}
      BY <2>1, FS_EmptySet
    <3>2. iter[{}] = 0
      BY <1>6 DEF Adds
    <3> QED BY <3>1, <3>2
  <2>4. ASSUME NEW n \in Nat, n \in P PROVE n + 1 \in P
    <3>1. ASSUME NEW A \in SUBSET S, Cardinality(A) = n + 1 PROVE iter[A] \in Int
      <4>1. A # {}
        BY <3>1, FS_EmptySet
      <4>2. One(A) \in A /\ iter[A] = f[One(A)] + iter[A \ {One(A)}]
        BY <2>2, <4>1
      <4>3. A \ {One(A)} \in SUBSET S /\ Cardinality(A \ {One(A)}) = Cardinality(A) - 1
        BY <2>1, <4>2, FS_RemoveElement
      <4>4. Cardinality(A \ {One(A)}) = n
        BY <3>1, <4>3
      <4>5. iter[A \ {One(A)}] \in Int /\ f[One(A)] \in Int
        BY <2>4, <4>2, <4>3, <4>4
      <4> QED BY <4>2, <4>5
    <3> QED BY <3>1
  <2>5. Nat \subseteq P
    <3> HIDE DEF P
    <3> QED BY <2>3, <2>4, Numbers
  <2>6. \A A \in SUBSET S : iter[A] \in Int
    BY <2>1, <2>5
  <2>7. iter = [A \in SUBSET S |-> iter[A]]
    BY <1>3
  <2> HIDE DEF P
  <2> QED BY <2>6, <2>7
<1> QED BY <1>4, <1>6, <1>7

-----------------------------------------------------------------------------
(* What a sum is known by *)

Over(f, S) == [x \in S |-> f[x]]

LEMMA SumOfNothing == ASSUME NEW f PROVE SumOf(Over(f, {})) = 0
<1>1. IsFiniteSet({}) /\ \A x \in {} : f[x] \in Int
  BY FS_EmptySet
<1>2. DOMAIN Over(f, {}) = {} /\ \A x \in {} : Over(f, {})[x] \in Int
  BY DEF Over
<1> HIDE DEF Over
<1>3. PICK g \in [SUBSET {} -> Int] : Adds(g, Over(f, {}), {}) /\ SumOf(Over(f, {})) = g[{}]
  BY <1>1, <1>2, SumIs
<1> QED BY <1>3 DEF Adds

\* Restricting the function restricts the recursion.
LEMMA SumOfPart ==
    ASSUME NEW S, IsFiniteSet(S), NEW f, \A x \in S : f[x] \in Int,
           NEW g \in [SUBSET S -> Int], Adds(g, f, S), NEW A \in SUBSET S
    PROVE  SumOf(Over(f, A)) = g[A]
<1>1. IsFiniteSet(A)
  BY FS_Subset
<1> DEFINE h == Over(f, A)
<1>2. DOMAIN h = A /\ \A x \in A : h[x] = f[x] /\ h[x] \in Int
  BY DEF Over
<1> HIDE DEF h
<1>3. PICK k \in [SUBSET A -> Int] : Adds(k, h, A) /\ SumOf(h) = k[A]
  BY <1>1, <1>2, SumIs
<1>4. AddsAny(g, f, S)
  BY AddsAnyone
<1>5. AddsAny(k, h, A)
  BY <1>1, <1>2, <1>3, AddsAnyone
<1> DEFINE Same == {B \in SUBSET A : k[B] = g[B]}
<1>6. {} \in Same
  BY <1>4, <1>5 DEF AddsAny
<1>7. \A B \in SUBSET A, x \in A : B \in Same /\ x \notin B => B \cup {x} \in Same
  BY <1>2, <1>4, <1>5 DEF AddsAny
<1>8. SUBSET A \subseteq Same
  <2> HIDE DEF Same
  <2> QED BY <1>1, <1>6, <1>7, Subsets
<1>9. k[A] = g[A]
  BY <1>8
<1> QED BY <1>3, <1>9 DEF h

LEMMA SumIsInt ==
    ASSUME NEW S, IsFiniteSet(S), NEW f, \A x \in S : f[x] \in Int
    PROVE  SumOf(Over(f, S)) \in Int
<1>1. PICK g \in [SUBSET S -> Int] : Adds(g, f, S)
  BY SumExists
<1>2. SumOf(Over(f, S)) = g[S]
  BY <1>1, SumOfPart
<1> QED BY <1>2

\* One element more.
LEMMA SumGrows ==
    ASSUME NEW S, IsFiniteSet(S), NEW f, \A y \in S : f[y] \in Int,
           NEW A \in SUBSET S, NEW x \in S, x \notin A
    PROVE  SumOf(Over(f, A \cup {x})) = f[x] + SumOf(Over(f, A))
<1>1. PICK g \in [SUBSET S -> Int] : Adds(g, f, S)
  BY SumExists
<1>4. A \cup {x} \in SUBSET S
  OBVIOUS
<1>5. SumOf(Over(f, A \cup {x})) = g[A \cup {x}]
  BY <1>1, <1>4, SumOfPart
<1>2. SumOf(Over(f, A)) = g[A]
  BY <1>1, SumOfPart
<1>3. AddsAny(g, f, S)
  BY <1>1, AddsAnyone
<1> QED BY <1>2, <1>3, <1>5 DEF AddsAny

LEMMA SumIsNat ==
    ASSUME NEW S, IsFiniteSet(S), NEW f, \A x \in S : f[x] \in Nat
    PROVE  SumOf(Over(f, S)) \in Nat
<1> DEFINE Good == {A \in SUBSET S : SumOf(Over(f, A)) \in Nat}
<1>1. {} \in Good
  BY SumOfNothing
<1>2. ASSUME NEW A \in SUBSET S, NEW x \in S, A \in Good, x \notin A PROVE A \cup {x} \in Good
  <2>1. SumOf(Over(f, A \cup {x})) = f[x] + SumOf(Over(f, A))
    BY <1>2, SumGrows
  <2> QED BY <1>2, <2>1
<1>3. SUBSET S \subseteq Good
  <2> HIDE DEF Good
  <2> QED BY <1>1, <1>2, Subsets
<1> QED BY <1>3

\* What is smaller one by one has the smaller sum.
LEMMA SumIsMonotone ==
    ASSUME NEW S, IsFiniteSet(S), NEW f, NEW g,
           \A x \in S : f[x] \in Int /\ g[x] \in Int /\ f[x] <= g[x]
    PROVE  SumOf(Over(f, S)) <= SumOf(Over(g, S))
<1> DEFINE F(A) == SumOf(Over(f, A))
           G(A) == SumOf(Over(g, A))
           Good == {A \in SUBSET S : F(A) \in Int /\ G(A) \in Int /\ F(A) <= G(A)}
<1>1. {} \in Good
  BY SumOfNothing
<1>2. ASSUME NEW A \in SUBSET S, NEW x \in S, A \in Good, x \notin A PROVE A \cup {x} \in Good
  <2>1. F(A \cup {x}) = f[x] + F(A)
    BY <1>2, SumGrows
  <2>2. G(A \cup {x}) = g[x] + G(A)
    BY <1>2, SumGrows
  <2> HIDE DEF F, G
  <2> QED BY <1>2, <2>1, <2>2
<1>3. SUBSET S \subseteq Good
  <2> HIDE DEF Good
  <2> QED BY <1>1, <1>2, Subsets
<1> QED BY <1>3

LEMMA SumsAdd ==
    ASSUME NEW S, IsFiniteSet(S), NEW f, NEW g, NEW h,
           \A x \in S : f[x] \in Int /\ g[x] \in Int /\ h[x] = f[x] + g[x]
    PROVE  SumOf(Over(h, S)) = SumOf(Over(f, S)) + SumOf(Over(g, S))
<1> DEFINE F(A) == SumOf(Over(f, A))
           G(A) == SumOf(Over(g, A))
           H(A) == SumOf(Over(h, A))
           Good == {A \in SUBSET S : F(A) \in Int /\ G(A) \in Int /\ H(A) = F(A) + G(A)}
<1>1. {} \in Good
  BY SumOfNothing
<1>2. ASSUME NEW A \in SUBSET S, NEW x \in S, A \in Good, x \notin A PROVE A \cup {x} \in Good
  <2>1. F(A \cup {x}) = f[x] + F(A)
    BY <1>2, SumGrows
  <2>2. G(A \cup {x}) = g[x] + G(A)
    BY <1>2, SumGrows
  <2>3. H(A \cup {x}) = h[x] + H(A)
    BY <1>2, SumGrows
  <2> HIDE DEF F, G, H
  <2> QED BY <1>2, <2>1, <2>2, <2>3
<1>3. SUBSET S \subseteq Good
  <2> HIDE DEF Good
  <2> QED BY <1>1, <1>2, Subsets
<1> QED BY <1>3

LEMMA SumIsScaled ==
    ASSUME NEW S, IsFiniteSet(S), NEW f, NEW h, NEW c \in Int,
           \A x \in S : f[x] \in Int /\ h[x] = c * f[x]
    PROVE  SumOf(Over(h, S)) = c * SumOf(Over(f, S))
<1> DEFINE F(A) == SumOf(Over(f, A))
           H(A) == SumOf(Over(h, A))
           Good == {A \in SUBSET S : F(A) \in Int /\ H(A) = c * F(A)}
<1>1. {} \in Good
  BY SumOfNothing
<1>2. ASSUME NEW A \in SUBSET S, NEW x \in S, A \in Good, x \notin A PROVE A \cup {x} \in Good
  <2>1. F(A \cup {x}) = f[x] + F(A)
    BY <1>2, SumGrows
  <2>2. H(A \cup {x}) = h[x] + H(A)
    BY <1>2, SumGrows
  <2>3. F(A) \in Int /\ f[x] \in Int /\ H(A) = c * F(A) /\ h[x] = c * f[x]
    BY <1>2
  <2> HIDE DEF F, H
  <2>4. \A a, b \in Int : c * (a + b) = c * a + c * b
    OBVIOUS
  <2>5. H(A \cup {x}) = c * F(A \cup {x}) /\ F(A \cup {x}) \in Int
    BY <2>1, <2>2, <2>3, <2>4
  <2> QED BY <1>2, <2>5
<1>3. SUBSET S \subseteq Good
  <2> HIDE DEF Good
  <2> QED BY <1>1, <1>2, Subsets
<1> QED BY <1>3

\* Only one element counts.
LEMMA SumOfOne ==
    ASSUME NEW S, IsFiniteSet(S), NEW f, NEW r \in S, f[r] \in Int, \A x \in S \ {r} : f[x] = 0
    PROVE  SumOf(Over(f, S)) = f[r]
<1> DEFINE R == S \ {r}
           Good == {A \in SUBSET R : SumOf(Over(f, A)) = 0}
<1>1. \A x \in S : f[x] \in Int
  OBVIOUS
<1>2. {} \in Good
  BY SumOfNothing
<1>3. IsFiniteSet(R)
  BY FS_RemoveElement
<1>4. ASSUME NEW A \in SUBSET R, NEW x \in R, A \in Good, x \notin A PROVE A \cup {x} \in Good
  <2>1. SumOf(Over(f, A \cup {x})) = f[x] + SumOf(Over(f, A))
    BY <1>1, <1>4, SumGrows
  <2> QED BY <1>4, <2>1
<1>5. SUBSET R \subseteq Good
  <2> HIDE DEF Good, R
  <2> QED BY <1>2, <1>3, <1>4, Subsets
<1>6. SumOf(Over(f, R)) = 0
  BY <1>5
<1>7. R \in SUBSET S /\ r \notin R /\ R \cup {r} = S
  OBVIOUS
<1> HIDE DEF R
<1>8. SumOf(Over(f, R \cup {r})) = f[r] + SumOf(Over(f, R))
  BY <1>1, <1>7, SumGrows
<1>9. SumOf(Over(f, S)) = f[r] + 0
  BY <1>6, <1>7, <1>8, Zenon
<1> QED BY <1>9

\* Taking the elements by other names changes no sum.
LEMMA SumRenamed ==
    ASSUME NEW S, IsFiniteSet(S), NEW T, IsFiniteSet(T), NEW h \in Bijection(S, T),
           NEW f, \A y \in T : f[y] \in Int, NEW g, \A x \in S : g[x] = f[h[x]]
    PROVE  SumOf(Over(g, S)) = SumOf(Over(f, T))
<1> DEFINE Image(A) == {h[x] : x \in A}
           Good == {A \in SUBSET S : SumOf(Over(g, A)) = SumOf(Over(f, Image(A)))}
<1>1. h \in [S -> T] /\ (\A x, y \in S : h[x] = h[y] => x = y) /\ \A y \in T : \E x \in S : h[x] = y
  BY DEF Bijection, Injection, Surjection, IsInjective
<1>2. \A x \in S : g[x] \in Int
  BY <1>1
<1>3. {} \in Good
  <2>1. Image({}) = {}
    OBVIOUS
  <2>2. SumOf(Over(g, {})) = 0 /\ SumOf(Over(f, {})) = 0
    BY SumOfNothing
  <2> QED BY <2>1, <2>2
<1>4. ASSUME NEW A \in SUBSET S, NEW x \in S, A \in Good, x \notin A PROVE A \cup {x} \in Good
  <2>1. Image(A \cup {x}) = Image(A) \cup {h[x]}
    OBVIOUS
  <2>2. Image(A) \in SUBSET T /\ h[x] \in T /\ h[x] \notin Image(A)
    BY <1>1, <1>4
  <2>3. SumOf(Over(g, A)) = SumOf(Over(f, Image(A)))
    BY <1>4
  <2> HIDE DEF Image
  <2>4. SumOf(Over(g, A \cup {x})) = g[x] + SumOf(Over(g, A))
    BY <1>2, <1>4, SumGrows
  <2>5. SumOf(Over(f, Image(A) \cup {h[x]})) = f[h[x]] + SumOf(Over(f, Image(A)))
    BY <2>2, SumGrows
  <2>6. SumOf(Over(g, A \cup {x})) = SumOf(Over(f, Image(A \cup {x})))
    BY <2>1, <2>3, <2>4, <2>5
  <2> QED BY <2>6
<1>5. SUBSET S \subseteq Good
  <2> HIDE DEF Good
  <2> QED BY <1>3, <1>4, Subsets
<1>6. Image(S) = T
  BY <1>1
<1>7. SumOf(Over(g, S)) = SumOf(Over(f, Image(S)))
  BY <1>5
<1> QED BY <1>6, <1>7

\* What is zero outside a part sums to the sum of the part.
LEMMA SumOfKept ==
    ASSUME NEW S, IsFiniteSet(S), NEW A \in SUBSET S, NEW f, \A x \in A : f[x] \in Int,
           NEW h, \A x \in S : h[x] = IF x \in A THEN f[x] ELSE 0
    PROVE  SumOf(Over(h, S)) = SumOf(Over(f, A))
<1> DEFINE Good == {B \in SUBSET S : SumOf(Over(h, B)) = SumOf(Over(f, A \cap B))}
<1>1. \A x \in S : h[x] \in Int
  OBVIOUS
<1>2. IsFiniteSet(A)
  BY FS_Subset
<1>3. {} \in Good
  <2>1. A \cap {} = {}
    OBVIOUS
  <2>2. SumOf(Over(h, {})) = 0 /\ SumOf(Over(f, {})) = 0
    BY SumOfNothing
  <2> QED BY <2>1, <2>2
<1>4. ASSUME NEW B \in SUBSET S, NEW x \in S, B \in Good, x \notin B PROVE B \cup {x} \in Good
  <2>1. SumOf(Over(h, B)) = SumOf(Over(f, A \cap B))
    BY <1>4
  <2>2. SumOf(Over(h, B \cup {x})) = h[x] + SumOf(Over(h, B))
    BY <1>1, <1>4, SumGrows
  <2>3. CASE x \in A
    <3>1. A \cap (B \cup {x}) = (A \cap B) \cup {x} /\ A \cap B \in SUBSET A /\ x \notin A \cap B
      BY <1>4, <2>3
    <3>2. SumOf(Over(f, (A \cap B) \cup {x})) = f[x] + SumOf(Over(f, A \cap B))
      BY <1>2, <2>3, <3>1, SumGrows
    <3>3. h[x] = f[x]
      BY <2>3
    <3>4. SumOf(Over(h, B \cup {x})) = SumOf(Over(f, A \cap (B \cup {x})))
      BY <2>1, <2>2, <3>1, <3>2, <3>3
    <3> QED BY <3>4
  <2>4. CASE x \notin A
    <3>1. A \cap (B \cup {x}) = A \cap B /\ h[x] = 0
      BY <2>4
    <3>2. SumOf(Over(h, B)) \in Int
      <4>1. IsFiniteSet(B)
        BY FS_Subset
      <4> QED BY <1>1, <4>1, SumIsInt
    <3>3. SumOf(Over(h, B \cup {x})) = SumOf(Over(h, B))
      BY <2>2, <3>1, <3>2
    <3> QED BY <2>1, <3>1, <3>3
  <2> QED BY <2>3, <2>4
<1>5. SUBSET S \subseteq Good
  <2> HIDE DEF Good
  <2> QED BY <1>3, <1>4, Subsets
<1>6. SumOf(Over(h, S)) = SumOf(Over(f, A \cap S)) /\ A \cap S = A
  BY <1>5
<1> QED BY <1>6

\* As many ones as elements.
LEMMA SumOfOnes ==
    ASSUME NEW S, IsFiniteSet(S), NEW f, \A x \in S : f[x] = 1
    PROVE  SumOf(Over(f, S)) = Cardinality(S)
<1> DEFINE Good == {A \in SUBSET S : SumOf(Over(f, A)) = Cardinality(A)}
<1>1. {} \in Good
  BY SumOfNothing, FS_EmptySet
<1>2. ASSUME NEW A \in SUBSET S, NEW x \in S, A \in Good, x \notin A PROVE A \cup {x} \in Good
  <2>1. SumOf(Over(f, A \cup {x})) = f[x] + SumOf(Over(f, A))
    BY <1>2, SumGrows
  <2>2. IsFiniteSet(A) /\ Cardinality(A) \in Nat
    BY FS_Subset, FS_CardinalityType
  <2>3. Cardinality(A \cup {x}) = Cardinality(A) + 1
    BY <1>2, <2>2, FS_AddElement
  <2> QED BY <1>2, <2>1, <2>2, <2>3
<1>3. SUBSET S \subseteq Good
  <2> HIDE DEF Good
  <2> QED BY <1>1, <1>2, Subsets
<1> QED BY <1>3

\* Five columns added row by row.
LEMMA FiveSums ==
    ASSUME NEW S, IsFiniteSet(S), NEW a, NEW b, NEW c, NEW d, NEW e, NEW h,
           \A x \in S : /\ a[x] \in Int /\ b[x] \in Int /\ c[x] \in Int /\ d[x] \in Int /\ e[x] \in Int
                        /\ h[x] = a[x] + b[x] + c[x] + d[x] + e[x]
    PROVE  SumOf(Over(h, S)) = SumOf(Over(a, S)) + SumOf(Over(b, S)) + SumOf(Over(c, S))
                                + SumOf(Over(d, S)) + SumOf(Over(e, S))
<1> DEFINE ab == [x \in S |-> a[x] + b[x]]
           abc == [x \in S |-> ab[x] + c[x]]
           abcd == [x \in S |-> abc[x] + d[x]]
<1>1. \A x \in S : /\ ab[x] \in Int /\ abc[x] \in Int /\ abcd[x] \in Int
                   /\ ab[x] = a[x] + b[x] /\ abc[x] = ab[x] + c[x] /\ abcd[x] = abc[x] + d[x]
                   /\ h[x] = abcd[x] + e[x]
  OBVIOUS
<1> HIDE DEF ab, abc, abcd
<1>2. SumOf(Over(ab, S)) = SumOf(Over(a, S)) + SumOf(Over(b, S))
  BY <1>1, SumsAdd
<1>3. SumOf(Over(abc, S)) = SumOf(Over(ab, S)) + SumOf(Over(c, S))
  BY <1>1, SumsAdd
<1>4. SumOf(Over(abcd, S)) = SumOf(Over(abc, S)) + SumOf(Over(d, S))
  BY <1>1, SumsAdd
<1>5. SumOf(Over(h, S)) = SumOf(Over(abcd, S)) + SumOf(Over(e, S))
  BY <1>1, SumsAdd
<1> QED BY <1>2, <1>3, <1>4, <1>5

\* A table has one sum, by rows and by columns.
Rows(m, S, T) == [i \in S |-> SumOf(Over(m[i], T))]
Column(m, S, j) == [i \in S |-> m[i][j]]
Columns(m, S, T) == [j \in T |-> SumOf(Column(m, S, j))]

LEMMA SumsExchange ==
    ASSUME NEW S, IsFiniteSet(S), NEW T, IsFiniteSet(T), NEW m, \A i \in S, j \in T : m[i][j] \in Int
    PROVE  SumOf(Rows(m, S, T)) = SumOf(Columns(m, S, T))
<1> DEFINE row == [i \in S |-> SumOf(Over(m[i], T))]
           R(A) == SumOf(Over(row, A))
           C(A) == SumOf(Columns(m, A, T))
           Good == {A \in SUBSET S : R(A) = C(A)}
<1>1. \A i \in S : row[i] \in Int
  BY SumIsInt
<1>2. ASSUME NEW A \in SUBSET S, NEW j \in T
      PROVE  /\ SumOf(Column(m, A, j)) \in Int
             /\ A = {} => SumOf(Column(m, A, j)) = 0
             /\ \A x \in S : x \notin A => SumOf(Column(m, A \cup {x}, j)) = m[x][j] + SumOf(Column(m, A, j))
  <2> DEFINE f == [i \in S |-> m[i][j]]
  <2>1. \A i \in S : f[i] = m[i][j] /\ f[i] \in Int
    OBVIOUS
  <2>2. \A B \in SUBSET S : Column(m, B, j) = Over(f, B)
    BY DEF Column, Over
  <2> HIDE DEF f
  <2>3. IsFiniteSet(A)
    BY FS_Subset
  <2>4. SumOf(Column(m, A, j)) \in Int
    BY <2>1, <2>2, <2>3, SumIsInt
  <2>5. A = {} => SumOf(Column(m, A, j)) = 0
    BY <2>2, SumOfNothing
  <2>6. ASSUME NEW x \in S, x \notin A
        PROVE  SumOf(Column(m, A \cup {x}, j)) = m[x][j] + SumOf(Column(m, A, j))
    <3>1. SumOf(Over(f, A \cup {x})) = f[x] + SumOf(Over(f, A))
      BY <2>1, <2>6, SumGrows
    <3> QED BY <2>1, <2>2, <3>1
  <2> QED BY <2>4, <2>5, <2>6
<1>3. {} \in Good
  <2> DEFINE zero == [j \in T |-> 0]
  <2>1. Columns(m, {}, T) = Over(zero, T)
    BY <1>2 DEF Columns, Over
  <2>2. SumOf(Over(zero, T)) = 0 * SumOf(Over(zero, T))
    BY SumIsScaled
  <2>3. SumOf(Over(zero, T)) \in Int
    BY SumIsInt
  <2> HIDE DEF zero
  <2>4. R({}) = 0 /\ C({}) = 0
    BY <2>1, <2>2, <2>3, SumOfNothing
  <2> QED BY <2>4
<1>4. ASSUME NEW A \in SUBSET S, NEW x \in S, A \in Good, x \notin A PROVE A \cup {x} \in Good
  <2>1. R(A \cup {x}) = row[x] + R(A)
    BY <1>1, <1>4, SumGrows
  <2> DEFINE old == [j \in T |-> SumOf(Column(m, A, j))]
             new == [j \in T |-> SumOf(Column(m, A \cup {x}, j))]
             more == [j \in T |-> m[x][j]]
  <2>2. \A j \in T : more[j] \in Int /\ old[j] \in Int /\ new[j] = more[j] + old[j]
    BY <1>2, <1>4
  <2>3. Columns(m, A \cup {x}, T) = Over(new, T) /\ Columns(m, A, T) = Over(old, T) /\ Over(m[x], T) = Over(more, T)
    BY DEF Columns, Over
  <2> HIDE DEF old, new, more
  <2>4. SumOf(Over(new, T)) = SumOf(Over(more, T)) + SumOf(Over(old, T))
    BY <2>2, SumsAdd
  <2>5. row[x] = SumOf(Over(m[x], T))
    OBVIOUS
  <2> HIDE DEF row
  <2>6. R(A \cup {x}) = C(A \cup {x})
    BY <1>4, <2>1, <2>3, <2>4, <2>5
  <2> QED BY <2>6
<1>5. SUBSET S \subseteq Good
  <2> HIDE DEF Good
  <2> QED BY <1>3, <1>4, Subsets
<1>6. R(S) = C(S)
  BY <1>5
<1>7. Over(row, S) = Rows(m, S, T)
  BY DEF Over, Rows
<1> QED BY <1>6, <1>7

-----------------------------------------------------------------------------
(* Orders *)

StrictOrder(R, S) ==
  /\ \A x \in S : <<x, x>> \notin R
  /\ \A x, y, z \in S : <<x, y>> \in R /\ <<y, z>> \in R => <<x, z>> \in R
  /\ \A x, y \in S : x # y => <<x, y>> \in R \/ <<y, x>> \in R
Rank(R, S, x) == Cardinality({y \in S : <<y, x>> \in R})

\* In a total order exactly k elements have fewer than k before them.
LEMMA FirstOnes ==
    ASSUME NEW S, IsFiniteSet(S), NEW R, StrictOrder(R, S), NEW k \in 0..Cardinality(S)
    PROVE  Cardinality({x \in S : Rank(R, S, x) < k}) = k
<1> DEFINE N == Cardinality(S)
           Under(x) == {y \in S : <<y, x>> \in R}
           rank == [x \in S |-> Rank(R, S, x)]
           first == {x \in S : Rank(R, S, x) < k}
<1>0. N \in Nat
  BY FS_CardinalityType
<1>1. ASSUME NEW x \in S PROVE IsFiniteSet(Under(x)) /\ rank[x] = Cardinality(Under(x)) /\ rank[x] \in 0..(N - 1)
  <2>1. Under(x) \in SUBSET S /\ x \notin Under(x)
    BY DEF StrictOrder
  <2>2. rank[x] = Cardinality(Under(x))
    BY DEF Rank
  <2> HIDE DEF Under, rank
  <2>3. IsFiniteSet(Under(x)) /\ Cardinality(Under(x)) \in Nat /\ Cardinality(Under(x)) <= N
    BY <2>1, FS_Subset, FS_CardinalityType
  <2>4. Cardinality(Under(x)) # N
    BY <2>1, FS_Subset
  <2> QED BY <1>0, <2>2, <2>3, <2>4
<1>a. \A x \in S : rank[x] \in Int /\ rank[x] >= 0
  <2> HIDE DEF Under, rank, N
  <2> QED BY <1>0, <1>1
<1>2. ASSUME NEW x \in S, NEW y \in S, <<x, y>> \in R PROVE rank[x] < rank[y]
  <2>1. Under(x) \in SUBSET Under(y) /\ x \in Under(y) /\ x \notin Under(x)
    BY <1>2 DEF StrictOrder
  <2>2. /\ IsFiniteSet(Under(y)) /\ rank[x] = Cardinality(Under(x)) /\ rank[y] = Cardinality(Under(y))
        /\ rank[x] \in Int /\ rank[y] \in Int
    <3> HIDE DEF Under, rank
    <3> QED BY <1>0, <1>1
  <2> HIDE DEF Under, rank
  <2>3. Cardinality(Under(x)) <= Cardinality(Under(y)) /\ Cardinality(Under(x)) # Cardinality(Under(y))
    BY <2>1, <2>2, FS_Subset
  <2> QED BY <2>2, <2>3
<1>3. \A x, y \in S : rank[x] = rank[y] => x = y
  <2> HIDE DEF rank
  <2>1. \A x \in S : rank[x] \in Int
    BY <1>a
  <2>2. ASSUME NEW x \in S, NEW y \in S, rank[x] = rank[y], x # y PROVE FALSE
    <3>1. <<x, y>> \in R \/ <<y, x>> \in R
      BY <2>2 DEF StrictOrder
    <3>2. rank[x] < rank[y] \/ rank[y] < rank[x]
      BY <1>2, <3>1
    <3> QED BY <2>1, <2>2, <3>2
  <2> QED BY <2>2
<1>4. rank \in Injection(S, 0..(N - 1))
  <2>1. rank \in [S -> 0..(N - 1)]
    BY <1>1
  <2> QED BY <1>3, <2>1 DEF Injection, IsInjective
<1>5. rank \in Surjection(S, 0..(N - 1))
  <2>1. IsFiniteSet(0..(N - 1)) /\ Cardinality(0..(N - 1)) = N
    <3>1. 0 \in Int /\ N - 1 \in Int
      BY <1>0
    <3>2. IsFiniteSet(0..(N - 1)) /\ Cardinality(0..(N - 1)) = IF 0 > N - 1 THEN 0 ELSE (N - 1) - 0 + 1
      BY <3>1, FS_Interval
    <3> QED BY <1>0, <3>2
  <2> HIDE DEF rank
  <2> QED BY <1>4, <2>1, FS_Injection
<1>6. first \in SUBSET S /\ IsFiniteSet(first)
  BY FS_Subset
<1> DEFINE part == [x \in first |-> rank[x]]
<1>7. \A x \in S : x \in first <=> rank[x] < k
  OBVIOUS
<1> HIDE DEF rank, first
<1>8. part \in Bijection(first, 0..(k - 1))
  <2>1. part \in [first -> 0..(k - 1)]
    <3>1. ASSUME NEW x \in first PROVE rank[x] \in 0..(k - 1)
      <4>1. x \in S /\ rank[x] < k
        BY <1>6, <1>7
      <4> QED BY <1>0, <1>a, <4>1
    <3> QED BY <3>1
  <2>2. \A x, y \in first : part[x] = part[y] => x = y
    BY <1>3, <1>6
  <2>3. ASSUME NEW i \in 0..(k - 1) PROVE \E x \in first : part[x] = i
    <3>1. i \in 0..(N - 1) /\ i < k
      BY <1>0
    <3>2. PICK x \in S : rank[x] = i
      BY <1>5, <3>1 DEF Surjection
    <3>3. x \in first
      BY <1>7, <3>1, <3>2
    <3> QED BY <3>2, <3>3
  <2> QED BY <2>1, <2>2, <2>3 DEF Bijection, Injection, Surjection, IsInjective
<1>9. Cardinality(0..(k - 1)) = Cardinality(first)
  BY <1>6, <1>8, FS_Bijection DEF ExistsBijection
<1>10. Cardinality(0..(k - 1)) = k
  <2>1. 0 \in Int /\ k - 1 \in Int /\ k \in Nat
    BY <1>0
  <2>2. Cardinality(0..(k - 1)) = IF 0 > k - 1 THEN 0 ELSE (k - 1) - 0 + 1
    BY <2>1, FS_Interval
  <2> QED BY <2>1, <2>2
<1> QED BY <1>9, <1>10 DEF first

-----------------------------------------------------------------------------
(* Sums of what is in a list *)

LEMMA Indices ==
    ASSUME NEW X, NEW s \in Seq(X)
    PROVE  /\ Len(s) \in Nat /\ DOMAIN s = 1..Len(s)
           /\ IsFiniteSet(DOMAIN s) /\ Cardinality(DOMAIN s) = Len(s)
           /\ \A i \in DOMAIN s : s[i] \in X
<1>1. Len(s) \in Nat /\ DOMAIN s = 1..Len(s) /\ \A i \in DOMAIN s : s[i] \in X
  BY LenProperties
<1>2. IsFiniteSet(1..Len(s)) /\ Cardinality(1..Len(s)) = Len(s)
  BY <1>1, FS_Interval
<1> QED BY <1>1, <1>2

\* Counting numbers from the smallest on reaches each of them once.
LEMMA CountedOnce ==
    ASSUME NEW n \in Nat, NEW F \in SUBSET (1..n)
    PROVE  /\ IsFiniteSet(F) /\ Cardinality(F) \in Nat
           /\ \A k \in 1..Cardinality(F) : Nth(F, k) \in F
           /\ \A h, k \in 1..Cardinality(F) : Nth(F, h) = Nth(F, k) => h = k
           /\ \A i \in F : \E k \in 1..Cardinality(F) : Nth(F, k) = i
<1> DEFINE Below(i) == {j \in F : j <= i}
           c == [i \in F |-> Cardinality(Below(i))]
           N == Cardinality(F)
<1>1. IsFiniteSet(F) /\ N \in Nat
  <2>1. IsFiniteSet(1..n)
    BY FS_Interval
  <2> QED BY <2>1, FS_Subset, FS_CardinalityType
<1>2. ASSUME NEW i \in F PROVE IsFiniteSet(Below(i)) /\ c[i] \in 1..N
  <2>1. Below(i) \in SUBSET F /\ i \in Below(i)
    OBVIOUS
  <2> HIDE DEF Below
  <2>2. IsFiniteSet(Below(i)) /\ Cardinality(Below(i)) <= N
    BY <1>1, <2>1, FS_Subset
  <2>3. Cardinality(Below(i)) \in Nat /\ Cardinality(Below(i)) # 0
    BY <2>1, <2>2, FS_CardinalityType, FS_EmptySet
  <2> QED BY <1>1, <2>2, <2>3
<1>3. ASSUME NEW h \in F, NEW i \in F, h < i PROVE c[h] < c[i]
  <2>1. Below(h) \in SUBSET Below(i) /\ i \in Below(i) /\ i \notin Below(h)
    <3>1. \A j \in F : j \in Nat
      OBVIOUS
    <3>2. \A j \in F : j <= h => j <= i
      BY <1>3, <3>1
    <3>3. ~(i <= h) /\ i <= i
      BY <1>3, <3>1
    <3> HIDE DEF c, N
    <3> QED BY <3>2, <3>3, Zenon
  <2>2. IsFiniteSet(Below(h)) /\ IsFiniteSet(Below(i)) /\ c[h] \in Nat /\ c[i] \in Nat
    BY <1>2
  <2>3. c[h] = Cardinality(Below(h)) /\ c[i] = Cardinality(Below(i))
    OBVIOUS
  <2> HIDE DEF Below, c
  <2>4. Cardinality(Below(h)) <= Cardinality(Below(i))
    BY <2>1, <2>2, FS_Subset
  <2>5. Cardinality(Below(i)) = Cardinality(Below(h)) => Below(i) = Below(h)
    BY <2>1, <2>2, FS_Subset
  <2> QED BY <2>1, <2>2, <2>3, <2>4, <2>5
<1>4. \A h, i \in F : c[h] = c[i] => h = i
  <2>1. \A h, i \in F : h \in Int /\ i \in Int /\ c[h] \in Int /\ c[i] \in Int
    BY <1>2
  <2> HIDE DEF c
  <2> QED BY <1>3, <2>1
<1>5. c \in Injection(F, 1..N)
  BY <1>2, <1>4 DEF Injection, IsInjective
<1>6. c \in Surjection(F, 1..N)
  <2>1. IsFiniteSet(1..N) /\ Cardinality(1..N) = N
    BY <1>1, FS_Interval
  <2> HIDE DEF c, N
  <2> QED BY <1>5, <2>1, FS_Injection DEF N
<1>7. \A k \in 1..N : \E i \in F : c[i] = k
  BY <1>6 DEF Surjection
<1>8. ASSUME NEW k \in 1..N PROVE Nth(F, k) \in F /\ c[Nth(F, k)] = k
  <2>1. \E i \in F : Cardinality({j \in F : j <= i}) = k
    BY <1>7, <1>8
  <2> QED BY <2>1 DEF Nth
<1> HIDE DEF c, N
<1>9. ASSUME NEW i \in F PROVE \E k \in 1..N : Nth(F, k) = i
  <2>1. c[i] \in 1..N
    BY <1>2
  <2>2. Nth(F, c[i]) \in F /\ c[Nth(F, c[i])] = c[i]
    BY <1>8, <2>1
  <2> QED BY <1>4, <2>1, <2>2
<1> QED BY <1>1, <1>8, <1>9 DEF N

LEMMA SumOfNats ==
    ASSUME NEW S, IsFiniteSet(S), NEW f \in [S -> Nat]
    PROVE  SumOf(f) \in Nat
<1>1. f = Over(f, S) /\ \A x \in S : f[x] \in Nat
  BY DEF Over
<1>2. SumOf(Over(f, S)) \in Nat
  BY <1>1, SumIsNat
<1> QED BY <1>1, <1>2

LEMMA SumOfInts ==
    ASSUME NEW S, IsFiniteSet(S), NEW f \in [S -> Int]
    PROVE  SumOf(f) \in Int
<1>1. f = Over(f, S) /\ \A x \in S : f[x] \in Int
  BY DEF Over
<1>2. SumOf(Over(f, S)) \in Int
  BY <1>1, SumIsInt
<1> QED BY <1>1, <1>2

LEMMA SumOfLess ==
    ASSUME NEW S, IsFiniteSet(S), NEW f \in [S -> Int], NEW g \in [S -> Int], \A x \in S : f[x] <= g[x]
    PROVE  SumOf(f) <= SumOf(g)
<1>1. f = Over(f, S) /\ g = Over(g, S) /\ \A x \in S : f[x] \in Int /\ g[x] \in Int
  BY DEF Over
<1>2. SumOf(Over(f, S)) <= SumOf(Over(g, S))
  BY <1>1, SumIsMonotone
<1> QED BY <1>1, <1>2

\* One that counts.
LEMMA SumIsPositive ==
    ASSUME NEW S, IsFiniteSet(S), NEW f \in [S -> Nat], NEW r \in S, f[r] > 0
    PROVE  SumOf(f) > 0
<1> DEFINE R == S \ {r}
<1>1. IsFiniteSet(R) /\ R \in SUBSET S /\ r \notin R /\ R \cup {r} = S
  BY FS_RemoveElement
<1> HIDE DEF R
<1>2. (\A x \in S : f[x] \in Int) /\ (\A x \in R : f[x] \in Nat)
  BY <1>1
<1>3. SumOf(Over(f, R \cup {r})) = f[r] + SumOf(Over(f, R))
  BY <1>1, <1>2, SumGrows
<1>4. SumOf(Over(f, R)) \in Nat
  BY <1>1, <1>2, SumIsNat
<1>5. Over(f, R \cup {r}) = f
  BY <1>1 DEF Over
<1> QED BY <1>3, <1>4, <1>5

-----------------------------------------------------------------------------
(* Rounding *)

LEMMA Divided ==
    ASSUME NEW n \in Nat, NEW d \in Nat \ {0}
    PROVE  n \div d \in Nat /\ n % d \in 0..(d - 1) /\ n = d * (n \div d) + (n % d)
OBVIOUS

\* Half to even is a whole number at most a half away.
LEMMA HalfEvenNear ==
    ASSUME NEW n \in Nat, NEW d \in Nat \ {0}
    PROVE  /\ HalfEven(n, d) \in Nat
           /\ 2 * (d * HalfEven(n, d)) <= 2 * n + d
           /\ 2 * n <= 2 * (d * HalfEven(n, d)) + d
<1> DEFINE q == n \div d
           r == n % d
           h == HalfEven(n, d)
<1>1. q \in Nat /\ r \in Nat /\ r < d /\ n = d * q + r
  BY Divided
<1>2. \/ h = q /\ 2 * r <= d
      \/ h = q + 1 /\ d <= 2 * r
  BY <1>1 DEF HalfEven
<1>3. d * (q + 1) = d * q + d /\ d * q \in Nat
  BY <1>1
<1> HIDE DEF q, r, h
<1>4. CASE h = q /\ 2 * r <= d
  BY <1>1, <1>3, <1>4 DEF h
<1>5. CASE h = q + 1 /\ d <= 2 * r
  <2>1. d * h = d * q + d
    BY <1>3, <1>5
  <2> QED BY <1>1, <1>3, <1>5, <2>1 DEF h
<1> QED BY <1>2, <1>4, <1>5

LEMMA HalfUpNear ==
    ASSUME NEW n \in Nat
    PROVE  HalfUp(n, 100) \in Nat /\ 100 * HalfUp(n, 100) - n \in -50..50
<1> DEFINE q == (2 * n + 100) \div 200
<1>1. q \in Nat /\ 2 * n + 100 = 200 * q + ((2 * n + 100) % 200) /\ (2 * n + 100) % 200 \in 0..199
  OBVIOUS
<1>2. HalfUp(n, 100) = q
  BY DEF HalfUp
<1> HIDE DEF q
<1> QED BY <1>1, <1>2

\* Rounded one by one, what adds up is at most a half away for every one.
LEMMA RoundedApart ==
    ASSUME NEW S, IsFiniteSet(S), S # {}, NEW f, NEW h, NEW d \in Nat \ {0},
           \A x \in S : f[x] \in Nat /\ h[x] = HalfEven(f[x], d)
    PROVE  Distance(SumOf(Over(h, S)), HalfEven(SumOf(Over(f, S)), d)) <= Cardinality(S)
<1> DEFINE F(A) == SumOf(Over(f, A))
           H(A) == SumOf(Over(h, A))
           Good == {A \in SUBSET S : /\ F(A) \in Nat /\ H(A) \in Nat
                                     /\ 2 * (d * H(A)) <= 2 * F(A) + d * Cardinality(A)
                                     /\ 2 * F(A) <= 2 * (d * H(A)) + d * Cardinality(A)}
<1>1. \A x \in S : /\ f[x] \in Nat /\ f[x] \in Int /\ h[x] \in Nat /\ h[x] \in Int
                   /\ 2 * (d * h[x]) <= 2 * f[x] + d /\ 2 * f[x] <= 2 * (d * h[x]) + d
  <2>1. ASSUME NEW x \in S
        PROVE  /\ f[x] \in Nat /\ h[x] \in Nat
               /\ 2 * (d * h[x]) <= 2 * f[x] + d /\ 2 * f[x] <= 2 * (d * h[x]) + d
    <3>1. f[x] \in Nat /\ h[x] = HalfEven(f[x], d)
      OBVIOUS
    <3> QED BY <3>1, HalfEvenNear
  <2> QED BY <2>1
<1>2. {} \in Good
  BY SumOfNothing, FS_EmptySet
<1>3. ASSUME NEW A \in SUBSET S, NEW x \in S, A \in Good, x \notin A PROVE A \cup {x} \in Good
  <2>1. F(A \cup {x}) = f[x] + F(A)
    BY <1>1, <1>3, SumGrows
  <2>2. H(A \cup {x}) = h[x] + H(A)
    BY <1>1, <1>3, SumGrows
  <2>3. PICK n : n = Cardinality(A) /\ n \in Nat /\ Cardinality(A \cup {x}) = n + 1
    <3>1. IsFiniteSet(A)
      BY FS_Subset
    <3> QED BY <1>3, <3>1, FS_CardinalityType, FS_AddElement
  <2>4. PICK a, b : a = F(A) /\ b = H(A)
    OBVIOUS
  <2>5. a \in Nat /\ b \in Nat /\ 2 * (d * b) <= 2 * a + d * n /\ 2 * a <= 2 * (d * b) + d * n
    BY <1>3, <2>3, <2>4
  <2>6. PICK u, v : u = f[x] /\ v = h[x]
    OBVIOUS
  <2>7. u \in Nat /\ v \in Nat /\ 2 * (d * v) <= 2 * u + d /\ 2 * u <= 2 * (d * v) + d
    BY <1>1, <2>6
  <2>8. d * (v + b) = d * v + d * b /\ d * (n + 1) = d * n + d /\ d * v \in Nat /\ d * b \in Nat /\ d * n \in Nat
    BY <2>3, <2>5, <2>7
  <2>9. /\ u + a \in Nat /\ v + b \in Nat
        /\ 2 * (d * (v + b)) <= 2 * (u + a) + d * (n + 1)
        /\ 2 * (u + a) <= 2 * (d * (v + b)) + d * (n + 1)
    <3> DEFINE p == d * v
               q == d * b
               r == d * n
    <3>1. /\ p \in Nat /\ q \in Nat /\ r \in Nat
          /\ 2 * q <= 2 * a + r /\ 2 * a <= 2 * q + r /\ 2 * p <= 2 * u + d /\ 2 * u <= 2 * p + d
      BY <2>5, <2>7, <2>8
    <3> HIDE DEF p, q, r
    <3>2. 2 * (p + q) <= 2 * (u + a) + (r + d) /\ 2 * (u + a) <= 2 * (p + q) + (r + d)
      BY <2>5, <2>7, <3>1
    <3>3. d * (v + b) = p + q /\ d * (n + 1) = r + d
      BY <2>8 DEF p, q, r
    <3> QED BY <2>5, <2>7, <3>2, <3>3
  <2> HIDE DEF F, H
  <2> QED BY <2>1, <2>2, <2>3, <2>4, <2>6, <2>9
<1>4. S \in Good
  <2> HIDE DEF Good
  <2> QED BY <1>2, <1>3, Subsets
<1>5. PICK a, b, c, n : /\ a = F(S) /\ b = H(S) /\ c = HalfEven(a, d) /\ n = Cardinality(S)
                        /\ n \in Nat /\ n >= 1
  BY FS_CardinalityType, FS_EmptySet
<1>6. a \in Nat /\ b \in Nat /\ 2 * (d * b) <= 2 * a + d * n /\ 2 * a <= 2 * (d * b) + d * n
  BY <1>4, <1>5
<1>7. c \in Nat /\ 2 * (d * c) <= 2 * a + d /\ 2 * a <= 2 * (d * c) + d
  BY <1>5, <1>6, HalfEvenNear
<1>8. b - c <= n /\ c - b <= n
  <2>1. d <= d * n
    BY <1>5
  <2>2. 2 * (d * b) <= 2 * (d * c) + 2 * (d * n) /\ 2 * (d * c) <= 2 * (d * b) + 2 * (d * n)
    BY <1>5, <1>6, <1>7, <2>1
  <2>3. ASSUME NEW x \in Nat, NEW y \in Nat, 2 * (d * x) <= 2 * (d * y) + 2 * (d * n) PROVE x <= y + n
    <3>1. d * (y + n) = d * y + d * n
      BY <1>5
    <3>2. d * x <= d * (y + n)
      BY <1>5, <2>3, <3>1
    <3>3. ASSUME x >= y + n + 1 PROVE FALSE
      <4>1. d * x >= d * (y + n + 1)
        BY <1>5, <3>3
      <4>2. d * (y + n + 1) = d * (y + n) + d
        BY <1>5
      <4> QED BY <1>5, <3>2, <4>1, <4>2
    <3> QED BY <1>5, <3>3
  <2> QED BY <1>5, <1>6, <1>7, <2>2, <2>3
<1>9. Distance(b, c) <= n
  BY <1>5, <1>6, <1>7, <1>8 DEF Distance
<1> QED BY <1>5, <1>9

LEMMA WholeHundreds == ASSUME NEW n \in Nat PROVE HalfUp(100 * n, 100) = n
BY DEF HalfUp
=============================================================================
