---------------------------- MODULE CountingProofs ----------------------------
(***************************************************************************)
(* What the proofs about several components count with: quotients, the     *)
(* least of a set of numbers, who stands first in a row and at which       *)
(* place, and sums over finite sets as the folds of the community modules  *)
(* define them.                                                            *)
(***************************************************************************)
EXTENDS Integers, FiniteSetsExt, FiniteSetTheorems, WellFoundedInduction, TLAPS

-----------------------------------------------------------------------------
(* Quotients *)

\* What division and remainder are, in the one form the proofs use.
LEMMA DivMod ==
    ASSUME NEW a \in Int, NEW b \in Nat \ {0}
    PROVE  /\ a \div b \in Int /\ a % b \in 0..(b - 1)
           /\ a = b * (a \div b) + (a % b)
  BY Z3

\* A quotient is known by its bounds.
LEMMA DivUnique ==
    ASSUME NEW a \in Int, NEW b \in Nat \ {0}, NEW k \in Int, b * k <= a, a < b * k + b
    PROVE  a \div b = k
<1> DEFINE q == a \div b
<1>1. q \in Int /\ b * q <= a /\ a < b * q + b
  BY DivMod
<1>2. b * q < b * (k + 1) /\ b * k < b * (q + 1)
  BY <1>1, SMT
<1>3. q < k + 1 /\ k < q + 1
  BY <1>1, <1>2, SMT
<1> QED BY <1>1, <1>3

-----------------------------------------------------------------------------
(* The least of a set of numbers *)

\* A set of natural numbers has a least one.
LEMMA LeastNumber ==
    ASSUME NEW S \in SUBSET Nat, S # {}
    PROVE  \E m \in S : \A x \in S : m <= x
<1>1. PICK m \in S : \A x \in S : <<x, m>> \notin OpToRel(<, Nat)
  BY NatLessThanWellFounded, WFMin
<1>2. ASSUME NEW x \in S PROVE m <= x
  <2>1. ~(x < m)
    <3> SUFFICES ASSUME x < m PROVE FALSE
      OBVIOUS
    <3> DEFINE pair == <<x, m>>
    <3>1. pair \in Nat \X Nat /\ pair[1] < pair[2]
      OBVIOUS
    <3>2. pair \in OpToRel(<, Nat)
      BY <3>1 DEF OpToRel
    <3> QED BY <1>1, <3>2
  <2> QED BY <2>1
<1> QED BY <1>2

\* A set of numbers with a bound has a greatest one.
LEMMA GreatestNumber ==
    ASSUME NEW n \in Nat, NEW S \in SUBSET (0..n), S # {}
    PROVE  \E m \in S : \A x \in S : x <= m
<1> DEFINE N == {n - x : x \in S}
<1>1. N \in SUBSET Nat /\ N # {}
  <2>1. \A x \in S : n - x \in Nat
    OBVIOUS
  <2>2. PICK x \in S : TRUE
    OBVIOUS
  <2>3. n - x \in N
    OBVIOUS
  <2>4. N \in SUBSET Nat
    BY <2>1
  <2> QED BY <2>3, <2>4
<1>2. PICK k \in N : \A x \in N : k <= x
  BY <1>1, LeastNumber
<1>3. PICK m \in S : k = n - m
  BY <1>2
<1>4. ASSUME NEW x \in S PROVE x <= m
  BY <1>2, <1>3
<1> QED BY <1>4

LEMMA MinOf ==
    ASSUME NEW S \in SUBSET Nat, S # {}
    PROVE  Min(S) \in S /\ \A x \in S : Min(S) <= x
BY LeastNumber DEF Min

LEMMA MaxOf ==
    ASSUME NEW n \in Nat, NEW S \in SUBSET (0..n), S # {}
    PROVE  Max(S) \in S /\ \A x \in S : x <= Max(S)
BY GreatestNumber DEF Max

-----------------------------------------------------------------------------
(* First among many *)

\* A relation that puts the elements of a set in a row.
InARow(R, S) ==
    /\ \A a, b, c \in S : <<a, b>> \in R /\ <<b, c>> \in R => <<a, c>> \in R
    /\ \A a \in S : <<a, a>> \notin R
    /\ \A a, b \in S : a # b => <<a, b>> \in R \/ <<b, a>> \in R

Before(R, S, a) == {b \in S : <<b, a>> \in R}

\* Who comes later has more before him.
LEMMA MoreBefore ==
    ASSUME NEW S, IsFiniteSet(S), NEW R, InARow(R, S), NEW a \in S, NEW b \in S, <<a, b>> \in R
    PROVE  /\ Cardinality(Before(R, S, a)) \in Nat /\ Cardinality(Before(R, S, b)) \in Nat
           /\ Cardinality(Before(R, S, a)) < Cardinality(Before(R, S, b))
<1>1. /\ Before(R, S, a) \in SUBSET Before(R, S, b)
      /\ a \in Before(R, S, b) /\ a \notin Before(R, S, a)
      /\ Before(R, S, a) \in SUBSET S /\ Before(R, S, b) \in SUBSET S
  BY DEF InARow, Before
<1> DEFINE A == Before(R, S, a)
           B == Before(R, S, b)
<1>2. A \in SUBSET B /\ A # B /\ A \in SUBSET S /\ B \in SUBSET S
  BY <1>1
<1> HIDE DEF A, B
<1>3. IsFiniteSet(A) /\ IsFiniteSet(B)
  BY <1>2, FS_Subset
<1>4. /\ Cardinality(A) \in Nat /\ Cardinality(B) \in Nat
      /\ Cardinality(A) <= Cardinality(B) /\ Cardinality(A) # Cardinality(B)
  BY <1>2, <1>3, FS_Subset, FS_CardinalityType
<1>5. Cardinality(A) < Cardinality(B)
  BY <1>4
<1> QED BY <1>4, <1>5 DEF A, B

\* So one of them comes first.
LEMMA FirstOf ==
    ASSUME NEW S, IsFiniteSet(S), S # {}, NEW R, InARow(R, S)
    PROVE  \E a \in S : \A b \in S \ {a} : <<a, b>> \in R
<1> DEFINE counts == {Cardinality(Before(R, S, a)) : a \in S}
<1>1. counts \in SUBSET Nat /\ counts # {}
  <2>1. ASSUME NEW a \in S PROVE Cardinality(Before(R, S, a)) \in Nat
    <3>1. Before(R, S, a) \in SUBSET S
      BY DEF Before
    <3> QED BY <3>1, FS_Subset, FS_CardinalityType
  <2> QED BY <2>1
<1>2. PICK m \in counts : \A n \in counts : m <= n
  BY <1>1, LeastNumber
<1>3. PICK a \in S : m = Cardinality(Before(R, S, a))
  OBVIOUS
<1>4. ASSUME NEW b \in S \ {a}, <<a, b>> \notin R PROVE FALSE
  <2>1. <<b, a>> \in R
    BY <1>4 DEF InARow
  <2>2. PICK n \in counts : n = Cardinality(Before(R, S, b))
    OBVIOUS
  <2>3. n \in Nat /\ m \in Nat /\ n < m
    BY <1>3, <2>1, <2>2, MoreBefore
  <2> QED BY <1>2, <2>3
<1> QED BY <1>4

Places(R, S) == [a \in S |-> 1 + Cardinality(Before(R, S, a))]

\* Whoever stands in a row has a place of his own, and no place is empty.
LEMMA PlacesAreTaken ==
    ASSUME NEW S, IsFiniteSet(S), NEW R, InARow(R, S)
    PROVE  /\ Cardinality(S) \in Nat
           /\ \A a \in S : Places(R, S)[a] \in 1..Cardinality(S)
           /\ \A a, b \in S : <<a, b>> \in R => Places(R, S)[a] < Places(R, S)[b]
           /\ \A k \in 1..Cardinality(S) : \E a \in S : Places(R, S)[a] = k
<1> DEFINE N == Cardinality(S)
           f == Places(R, S)
<1>0. N \in Nat
  BY FS_CardinalityType
<1>1. ASSUME NEW a \in S PROVE f[a] \in 1..N /\ f[a] = 1 + Cardinality(Before(R, S, a))
  <2>1. Before(R, S, a) \in SUBSET S /\ a \notin Before(R, S, a)
    BY DEF Before, InARow
  <2>2. /\ Cardinality(Before(R, S, a)) \in Nat /\ Cardinality(Before(R, S, a)) <= N
        /\ Cardinality(Before(R, S, a)) # N
    <3> DEFINE B == Before(R, S, a)
    <3>1. B \in SUBSET S /\ B # S
      BY <2>1
    <3> HIDE DEF B
    <3>2. IsFiniteSet(B) /\ Cardinality(B) <= N /\ Cardinality(B) # N
      BY <3>1, FS_Subset
    <3>3. Cardinality(B) \in Nat
      BY <3>2, FS_CardinalityType
    <3> QED BY <3>2, <3>3 DEF B
  <2>3. f[a] = 1 + Cardinality(Before(R, S, a))
    BY DEF Places
  <2> QED BY <1>0, <2>2, <2>3
<1>2. ASSUME NEW a \in S, NEW b \in S, <<a, b>> \in R PROVE f[a] < f[b]
  <2>1. /\ Cardinality(Before(R, S, a)) \in Nat /\ Cardinality(Before(R, S, b)) \in Nat
        /\ Cardinality(Before(R, S, a)) < Cardinality(Before(R, S, b))
    BY <1>2, MoreBefore
  <2>2. /\ f[a] = 1 + Cardinality(Before(R, S, a)) /\ f[b] = 1 + Cardinality(Before(R, S, b))
    BY <1>1
  <2> QED BY <2>1, <2>2
<1>3. f \in [S -> 1..N]
  <2>1. f = [a \in S |-> f[a]]
    BY DEF Places
  <2> HIDE DEF f, N
  <2>2. \A a \in S : f[a] \in 1..N
    BY <1>1
  <2> QED BY <2>1, <2>2
<1> HIDE DEF f, N
<1>4. \A a, b \in S : f[a] = f[b] => a = b
  <2> SUFFICES ASSUME NEW a \in S, NEW b \in S, f[a] = f[b], a # b PROVE FALSE
    OBVIOUS
  <2>1. <<a, b>> \in R \/ <<b, a>> \in R
    BY DEF InARow
  <2>2. f[a] \in 1..N /\ f[b] \in 1..N
    BY <1>3
  <2>3. f[a] < f[b] \/ f[b] < f[a]
    BY <1>2, <2>1
  <2> QED BY <2>2, <2>3, <1>0
<1>5. f \in Injection(S, 1..N)
  BY <1>3, <1>4 DEF Injection, IsInjective
<1>6. IsFiniteSet(1..N) /\ Cardinality(1..N) = N
  BY <1>0, FS_Interval
<1>7. f \in Surjection(S, 1..N)
  <2>1. Cardinality(S) = Cardinality(1..N)
    BY <1>6 DEF N
  <2> QED BY <1>5, <1>6, <2>1, FS_Injection
<1>8. \A k \in 1..N : \E a \in S : f[a] = k
  BY <1>7 DEF Surjection
<1>9. \A a \in S : f[a] \in 1..N
  BY <1>3
<1>10. \A a, b \in S : <<a, b>> \in R => f[a] < f[b]
  BY <1>2
<1> QED BY <1>0, <1>8, <1>9, <1>10 DEF f, N

-----------------------------------------------------------------------------
(* AddsUp over finite sets *)

Chosen(s) == CHOOSE x \in s : TRUE

\* What the fold of MapThenSumSet defines: sums of f, over every part of S.
AddsUp(g, f, S) ==
    g = [s \in SUBSET S |-> IF s = {} THEN 0 ELSE f[Chosen(s)] + g[s \ {Chosen(s)}]]

SumOf(f, S) == (CHOOSE g : AddsUp(g, f, S))[S]

LEMMA ChosenIsIn == ASSUME NEW s, s # {} PROVE Chosen(s) \in s
BY Zenon DEF Chosen

\* Of finite sets that share a property one is smallest.
LEMMA SmallestSet ==
    ASSUME NEW F, F # {}, \A s \in F : IsFiniteSet(s)
    PROVE  \E m \in F : \A s \in F : Cardinality(m) <= Cardinality(s)
<1> DEFINE N == {Cardinality(s) : s \in F}
<1>1. N \in SUBSET Nat /\ N # {}
  BY FS_CardinalityType
<1>2. PICK k \in N : \A x \in N : k <= x
  BY <1>1, LeastNumber
<1> QED BY <1>2

\* One element less.
LEMMA OneLess ==
    ASSUME NEW s, IsFiniteSet(s), NEW a \in s
    PROVE  /\ IsFiniteSet(s \ {a}) /\ Cardinality(s \ {a}) \in Nat
           /\ Cardinality(s) \in Nat /\ Cardinality(s \ {a}) < Cardinality(s)
<1>1. IsFiniteSet(s \ {a}) /\ Cardinality(s \ {a}) = Cardinality(s) - 1
  BY FS_RemoveElement
<1> QED BY <1>1, FS_CardinalityType

\* What a sum says of a part.
LEMMA SumsOfPart ==
    ASSUME NEW g, NEW f, NEW S, AddsUp(g, f, S), NEW s \in SUBSET S
    PROVE  /\ s = {} => g[s] = 0
           /\ s # {} => g[s] = f[Chosen(s)] + g[s \ {Chosen(s)}]
<1>1. g[s] = IF s = {} THEN 0 ELSE f[Chosen(s)] + g[s \ {Chosen(s)}]
  BY DEF AddsUp
<1> QED BY <1>1

\* Two functions that sum agree where both do.
LEMMA SumsAgree ==
    ASSUME NEW f, NEW S, NEW T, NEW g, NEW h, AddsUp(g, f, S), AddsUp(h, f, T),
           NEW s \in SUBSET S, s \in SUBSET T, IsFiniteSet(s)
    PROVE  g[s] = h[s]
<1> DEFINE F == {r \in SUBSET s : g[r] # h[r]}
<1> SUFFICES ASSUME F # {} PROVE FALSE
  OBVIOUS
<1>1. \A r \in F : IsFiniteSet(r)
  BY FS_Subset
<1>2. PICK m \in F : \A r \in F : Cardinality(m) <= Cardinality(r)
  <2> HIDE DEF F
  <2> QED BY <1>1, SmallestSet
<1>3. m \in SUBSET S /\ m \in SUBSET T /\ IsFiniteSet(m) /\ g[m] # h[m] /\ m \in SUBSET s
  BY <1>1
<1>4. m # {}
  BY <1>3, SumsOfPart
<1>5. Chosen(m) \in m
  BY <1>4, ChosenIsIn
<1> DEFINE r == m \ {Chosen(m)}
<1>6. g[m] = f[Chosen(m)] + g[r] /\ h[m] = f[Chosen(m)] + h[r]
  BY <1>3, <1>4, SumsOfPart, SMTT(30)
<1>7. r \in SUBSET s /\ Cardinality(r) < Cardinality(m)
      /\ Cardinality(r) \in Nat /\ Cardinality(m) \in Nat
  BY <1>3, <1>5, OneLess
<1>8. r \notin F
  <2> HIDE DEF r, F
  <2> QED BY <1>2, <1>7
<1>9. g[r] = h[r]
  BY <1>7, <1>8
<1> QED BY <1>3, <1>6, <1>9

\* There is a function that sums, for every finite set.
LEMMA SumsExist ==
    ASSUME NEW f, NEW S, IsFiniteSet(S)
    PROVE  \E g : AddsUp(g, f, S)
<1> DEFINE F == {s \in SUBSET S : ~(\E g : AddsUp(g, f, s))}
<1> SUFFICES ASSUME F # {} PROVE FALSE
  OBVIOUS
<1>1. \A s \in F : IsFiniteSet(s)
  BY FS_Subset
<1>2. PICK m \in F : \A s \in F : Cardinality(m) <= Cardinality(s)
  <2> HIDE DEF F
  <2> QED BY <1>1, SmallestSet
<1>3. m \in SUBSET S /\ IsFiniteSet(m) /\ ~(\E g : AddsUp(g, f, m))
  BY <1>1
<1>4. ASSUME NEW s \in SUBSET m, s # m
      PROVE  AddsUp(CHOOSE g : AddsUp(g, f, s), f, s) /\ IsFiniteSet(s)
  <2>1. PICK a \in m : a \notin s
    BY <1>4
  <2>2. s \in SUBSET (m \ {a}) /\ IsFiniteSet(m \ {a}) /\ Cardinality(m \ {a}) < Cardinality(m)
        /\ Cardinality(m \ {a}) \in Nat /\ Cardinality(m) \in Nat
    BY <1>3, <2>1, OneLess
  <2>3. IsFiniteSet(s) /\ Cardinality(s) <= Cardinality(m \ {a}) /\ Cardinality(s) \in Nat
    BY <2>2, FS_Subset, FS_CardinalityType
  <2>4. s \notin F
    <3> HIDE DEF F
    <3> QED BY <1>2, <2>2, <2>3
  <2>5. \E g : AddsUp(g, f, s)
    BY <1>3, <2>4
  <2> QED BY <2>3, <2>5, Zenon
<1> DEFINE next(s) == f[Chosen(s)] + SumOf(f, s \ {Chosen(s)})
           h == [s \in SUBSET m |-> IF s = {} THEN 0 ELSE next(s)]
<1>5. ASSUME NEW s \in SUBSET m, s # {}
      PROVE  /\ s \ {Chosen(s)} \in SUBSET m /\ s \ {Chosen(s)} # m
             /\ IsFiniteSet(s \ {Chosen(s)})
  <2>1. Chosen(s) \in s
    BY <1>5, ChosenIsIn
  <2>2. s \ {Chosen(s)} \in SUBSET m /\ s \ {Chosen(s)} # m
    BY <2>1
  <2> QED BY <1>3, <2>2, FS_Subset
<1>6. ASSUME NEW s \in SUBSET m, s # m
      PROVE  SumOf(f, s) = h[s]
  <2> DEFINE g == CHOOSE x : AddsUp(x, f, s)
  <2>1. AddsUp(g, f, s) /\ SumOf(f, s) = g[s]
    BY <1>4, <1>6 DEF SumOf
  <2> HIDE DEF g
  <2>2. CASE s = {}
    BY <2>1, <2>2, SumsOfPart
  <2>3. CASE s # {}
    <3> DEFINE r == s \ {Chosen(s)}
               k == CHOOSE x : AddsUp(x, f, r)
    <3>1. Chosen(s) \in s
      BY <2>3, ChosenIsIn
    <3>2. r \in SUBSET s /\ r \in SUBSET m /\ r # m /\ IsFiniteSet(r)
      BY <1>5, <2>3
    <3>3. AddsUp(k, f, r) /\ SumOf(f, r) = k[r]
      BY <1>4, <3>2 DEF SumOf
    <3>4. g[s] = f[Chosen(s)] + g[r]
      BY <2>1, <2>3, SumsOfPart
    <3>5. h[s] = f[Chosen(s)] + SumOf(f, r)
      BY <2>3
    <3> HIDE DEF k, r
    <3>6. g[r] = k[r]
      BY <2>1, <3>2, <3>3, SumsAgree, SMTT(30)
    <3> QED BY <2>1, <3>3, <3>4, <3>5, <3>6
  <2> QED BY <2>2, <2>3
<1>7. ASSUME NEW s \in SUBSET m
      PROVE  h[s] = IF s = {} THEN 0 ELSE f[Chosen(s)] + h[s \ {Chosen(s)}]
  <2>1. CASE s = {}
    BY <2>1
  <2>2. CASE s # {}
    <3>1. h[s] = f[Chosen(s)] + SumOf(f, s \ {Chosen(s)})
      BY <2>2
    <3>2. SumOf(f, s \ {Chosen(s)}) = h[s \ {Chosen(s)}]
      <4> HIDE DEF h
      <4> QED BY <1>5, <1>6, <2>2
    <3> HIDE DEF h
    <3> QED BY <2>2, <3>1, <3>2
  <2> QED BY <2>1, <2>2
<1>8. h = [s \in SUBSET m |-> h[s]]
  OBVIOUS
<1> HIDE DEF h
<1>9. AddsUp(h, f, m)
  BY <1>7, <1>8 DEF AddsUp
<1> QED BY <1>3, <1>9

\* The sum is a sum.
LEMMA SumOfSums ==
    ASSUME NEW f, NEW S, IsFiniteSet(S), NEW g, AddsUp(g, f, S), NEW s \in SUBSET S
    PROVE  g[s] = SumOf(f, s)
<1> DEFINE h == CHOOSE x : AddsUp(x, f, s)
<1>1. IsFiniteSet(s)
  BY FS_Subset
<1>2. AddsUp(h, f, s)
  BY <1>1, SumsExist, Zenon
<1>3. SumOf(f, s) = h[s]
  BY DEF SumOf
<1> HIDE DEF h
<1> QED BY <1>1, <1>2, <1>3, SumsAgree, SMTT(30)

\* The sum over the whole set.
LEMMA SumOfWhole ==
    ASSUME NEW f, NEW S, IsFiniteSet(S), NEW g, AddsUp(g, f, S)
    PROVE  g[S] = SumOf(f, S)
<1>1. S \in SUBSET S
  OBVIOUS
<1> QED BY <1>1, SumOfSums, SMTT(30)

\* A sum is what one element adds and the sum of the others.
LEMMA SumOfAny ==
    ASSUME NEW f, NEW S, IsFiniteSet(S)
    PROVE  /\ S = {} => SumOf(f, S) = 0
           /\ S # {} => SumOf(f, S) = f[Chosen(S)] + SumOf(f, S \ {Chosen(S)})
<1>1. PICK g : AddsUp(g, f, S)
  BY SumsExist
<1>2. \A s \in SUBSET S : g[s] = SumOf(f, s)
  BY <1>1, SumOfSums, Zenon
<1> DEFINE r == S \ {Chosen(S)}
<1>3. S \in SUBSET S /\ r \in SUBSET S
  OBVIOUS
<1> HIDE DEF r
<1>4. g[S] = SumOf(f, S)
  BY <1>2, <1>3
<1>5. g[r] = SumOf(f, r)
  BY <1>2, <1>3
<1>6. S = {} => g[S] = 0
  BY <1>1, <1>3, SumsOfPart, SMTT(30)
<1>7. S # {} => g[S] = f[Chosen(S)] + g[r]
  BY <1>1, <1>3, SumsOfPart, SMTT(30) DEF r
<1>8. S # {} => SumOf(f, S) = f[Chosen(S)] + SumOf(f, r)
  BY <1>4, <1>5, <1>7
<1> QED BY <1>4, <1>6, <1>8 DEF r

\* A sum of integers is one.
LEMMA SumIsInt ==
    ASSUME NEW S, IsFiniteSet(S), NEW f, \A x \in S : f[x] \in Int
    PROVE  SumOf(f, S) \in Int
<1> DEFINE F == {s \in SUBSET S : SumOf(f, s) \notin Int}
<1> SUFFICES ASSUME F # {} PROVE FALSE
  OBVIOUS
<1>1. \A s \in F : IsFiniteSet(s)
  BY FS_Subset
<1>2. PICK m \in F : \A s \in F : Cardinality(m) <= Cardinality(s)
  <2> HIDE DEF F
  <2> QED BY <1>1, SmallestSet
<1>3. m \in SUBSET S /\ IsFiniteSet(m) /\ SumOf(f, m) \notin Int
  BY <1>1
<1>4. m # {}
  <2>1. m = {} => SumOf(f, m) = 0
    BY <1>3, SumOfAny
  <2> HIDE DEF F
  <2> QED BY <1>3, <2>1
<1>5. Chosen(m) \in m
  BY <1>4, ChosenIsIn
<1> DEFINE r == m \ {Chosen(m)}
<1>6. SumOf(f, m) = f[Chosen(m)] + SumOf(f, r)
  BY <1>3, <1>4, SumOfAny, SMTT(30)
<1>7. r \in SUBSET S /\ Cardinality(r) < Cardinality(m)
      /\ Cardinality(r) \in Nat /\ Cardinality(m) \in Nat
  BY <1>3, <1>5, OneLess
<1>8. r \notin F
  <2> HIDE DEF r, F
  <2> QED BY <1>2, <1>7
<1>9. SumOf(f, r) \in Int
  BY <1>7, <1>8
<1>10. f[Chosen(m)] \in Int
  BY <1>3, <1>5
<1> QED BY <1>3, <1>6, <1>9, <1>10

\* Whichever element is taken out, the sum is what it adds and that of the others.
LEMMA SumWithout ==
    ASSUME NEW S, IsFiniteSet(S), NEW f, \A x \in S : f[x] \in Int, NEW a \in S
    PROVE  SumOf(f, S) = f[a] + SumOf(f, S \ {a})
<1> DEFINE F == {s \in SUBSET S : \E x \in s : SumOf(f, s) # f[x] + SumOf(f, s \ {x})}
<1> SUFFICES ASSUME F # {} PROVE FALSE
  OBVIOUS
<1>1. \A s \in F : IsFiniteSet(s)
  BY FS_Subset
<1>2. PICK m \in F : \A s \in F : Cardinality(m) <= Cardinality(s)
  <2> HIDE DEF F
  <2> QED BY <1>1, SmallestSet
<1>3. PICK x \in m : SumOf(f, m) # f[x] + SumOf(f, m \ {x})
  OBVIOUS
<1>4. m \in SUBSET S /\ IsFiniteSet(m) /\ x \in S
  BY <1>1
<1> DEFINE y == Chosen(m)
<1>5. y \in m /\ SumOf(f, m) = f[y] + SumOf(f, m \ {y})
  BY <1>4, ChosenIsIn, SumOfAny, SMTT(30)
<1> HIDE DEF y
<1>6. x # y
  BY <1>3, <1>5
<1>7. ASSUME NEW b \in m, NEW c \in m, b # c
      PROVE  SumOf(f, m \ {b}) = f[c] + SumOf(f, (m \ {b}) \ {c})
  <2>1. Cardinality(m \ {b}) < Cardinality(m) /\ m \ {b} \in SUBSET S /\ c \in m \ {b}
        /\ Cardinality(m \ {b}) \in Nat /\ Cardinality(m) \in Nat
    BY <1>4, <1>7, OneLess
  <2>2. m \ {b} \notin F
    <3> HIDE DEF F
    <3> QED BY <1>2, <2>1
  <2> QED BY <2>1, <2>2
<1> DEFINE rest == (m \ {x}) \ {y}
<1>8. rest = (m \ {y}) \ {x} /\ IsFiniteSet(rest) /\ rest \in SUBSET S
  BY <1>4, FS_Subset
<1>9. SumOf(f, rest) \in Int /\ f[x] \in Int /\ f[y] \in Int
  <2> HIDE DEF rest
  <2> QED BY <1>4, <1>5, <1>8, SumIsInt, SMTT(30)
<1>10. SumOf(f, m \ {x}) = f[y] + SumOf(f, rest) /\ SumOf(f, m \ {y}) = f[x] + SumOf(f, rest)
  BY <1>3, <1>5, <1>6, <1>7, <1>8
<1> HIDE DEF rest
<1> QED BY <1>3, <1>5, <1>9, <1>10

\* Functions that agree on a set have one sum over it.
LEMMA SumsSame ==
    ASSUME NEW S, IsFiniteSet(S), NEW f, NEW h, \A x \in S : f[x] = h[x]
    PROVE  SumOf(f, S) = SumOf(h, S)
<1>1. PICK g : AddsUp(g, f, S)
  BY SumsExist
<1>2. ASSUME NEW s \in SUBSET S
      PROVE  (IF s = {} THEN 0 ELSE f[Chosen(s)] + g[s \ {Chosen(s)}])
                = (IF s = {} THEN 0 ELSE h[Chosen(s)] + g[s \ {Chosen(s)}])
  <2>1. s # {} => Chosen(s) \in S
    BY ChosenIsIn
  <2> QED BY <2>1
<1>3. g = [s \in SUBSET S |-> IF s = {} THEN 0 ELSE f[Chosen(s)] + g[s \ {Chosen(s)}]]
  BY <1>1 DEF AddsUp
<1>4. g = [s \in SUBSET S |-> IF s = {} THEN 0 ELSE h[Chosen(s)] + g[s \ {Chosen(s)}]]
  BY <1>2, <1>3
<1>5. AddsUp(g, h, S)
  BY <1>4 DEF AddsUp
<1>6. g[S] = SumOf(f, S)
  BY <1>1, SumOfWhole, Zenon
<1>7. g[S] = SumOf(h, S)
  BY <1>5, SumOfWhole, Zenon
<1> QED BY <1>6, <1>7

\* What changes one of what is summed changes the sum by as much.
LEMMA SumChanges ==
    ASSUME NEW S, IsFiniteSet(S), NEW f, NEW h, \A x \in S : f[x] \in Int /\ h[x] \in Int,
           NEW a \in S, \A x \in S \ {a} : h[x] = f[x]
    PROVE  SumOf(h, S) = SumOf(f, S) + (h[a] - f[a]) /\ SumOf(f, S) \in Int
<1> DEFINE rest == S \ {a}
<1>1. IsFiniteSet(rest) /\ rest \subseteq S
  BY FS_Subset
<1>2. SumOf(f, S) = f[a] + SumOf(f, rest) /\ SumOf(h, S) = h[a] + SumOf(h, rest)
  BY SumWithout, SMTT(30)
<1>3. SumOf(f, rest) = SumOf(h, rest)
  BY <1>1, SumsSame, SMTT(30)
<1>4. SumOf(f, rest) \in Int
  BY <1>1, SumIsInt, SMTT(30)
<1> QED BY <1>2, <1>3, <1>4

\* The sum over a beginning of the numbers, and one more.
LEMMA SumOfNext ==
    ASSUME NEW k \in Nat, NEW f, \A i \in 1..(k + 1) : f[i] \in Int
    PROVE  SumOf(f, 1..(k + 1)) = f[k + 1] + SumOf(f, 1..k)
<1> DEFINE S == 1..(k + 1)
<1>1. IsFiniteSet(S) /\ k + 1 \in S
  BY FS_Interval
<1>2. S \ {k + 1} = 1..k
  OBVIOUS
<1>3. \A i \in S : f[i] \in Int
  OBVIOUS
<1> HIDE DEF S
<1>4. SumOf(f, S) = f[k + 1] + SumOf(f, S \ {k + 1})
  BY <1>1, <1>3, SumWithout, SMTT(30)
<1> QED BY <1>2, <1>4 DEF S

LEMMA SumOfNone == ASSUME NEW f PROVE SumOf(f, 1..0) = 0
<1>1. 1..0 = {} /\ IsFiniteSet({})
  BY FS_EmptySet
<1>2. SumOf(f, {}) = 0
  BY <1>1, SumOfAny, SMTT(30)
<1> QED BY <1>1, <1>2

\* A sum of natural numbers grows with what is summed.
LEMMA SumGrows ==
    ASSUME NEW m \in Nat, NEW f, \A i \in 1..m : f[i] \in Nat, NEW k \in 0..m
    PROVE  /\ SumOf(f, 1..k) \in Nat /\ SumOf(f, 1..m) \in Nat
           /\ SumOf(f, 1..k) <= SumOf(f, 1..m)
<1>1. ASSUME NEW j \in 0..m PROVE SumOf(f, 1..j) \in Int
  <2>1. IsFiniteSet(1..j) /\ \A i \in 1..j : f[i] \in Int
    BY FS_Interval
  <2> QED BY <2>1, SumIsInt, SMTT(30)
<1>2. ASSUME NEW b \in 0..m, NEW e \in b..m, SumOf(f, 1..e) < SumOf(f, 1..b) PROVE FALSE
  <2> DEFINE F == {j \in b..m : SumOf(f, 1..j) < SumOf(f, 1..b)}
  <2>1. F \in SUBSET Nat /\ F # {}
    BY <1>2
  <2>2. PICK j \in F : \A i \in F : j <= i
    <3> HIDE DEF F
    <3> QED BY <2>1, LeastNumber
  <2>3. j \in b..m /\ SumOf(f, 1..j) < SumOf(f, 1..b) /\ SumOf(f, 1..j) \in Int
        /\ SumOf(f, 1..b) \in Int
    BY <1>1
  <2>4. PICK i \in Nat : j = i + 1 /\ i \in b..m
    <3>1. j # b
      BY <2>3
    <3> QED BY <2>3, <3>1
  <2>5. i \notin F
    <3> HIDE DEF F
    <3> QED BY <2>1, <2>2, <2>4
  <2>6. SumOf(f, 1..i) \in Int /\ SumOf(f, 1..b) <= SumOf(f, 1..i)
    BY <1>1, <2>3, <2>4, <2>5
  <2>7. SumOf(f, 1..j) = f[j] + SumOf(f, 1..i) /\ f[j] \in Nat
    <3>1. \A x \in 1..(i + 1) : f[x] \in Int
      BY <2>3, <2>4
    <3>2. SumOf(f, 1..(i + 1)) = f[i + 1] + SumOf(f, 1..i)
      BY <3>1, SumOfNext
    <3> QED BY <2>3, <2>4, <3>2
  <2> QED BY <2>3, <2>6, <2>7
<1>3. SumOf(f, 1..k) \in Nat
  <2>1. ~(SumOf(f, 1..k) < SumOf(f, 1..0))
    BY <1>2
  <2> QED BY <1>1, <2>1, SumOfNone
<1>4. SumOf(f, 1..k) <= SumOf(f, 1..m) /\ SumOf(f, 1..m) \in Int
  <2>1. ~(SumOf(f, 1..m) < SumOf(f, 1..k))
    BY <1>2
  <2> QED BY <1>1, <2>1
<1> QED BY <1>3, <1>4

=============================================================================
