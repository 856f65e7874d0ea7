----------------------------- MODULE SumLemmas -----------------------------
(***************************************************************************)
(* What SumFunctionOnSet of the community modules adds up to: for every    *)
(* finite set, whatever order its CHOOSE takes the elements in.  The       *)
(* library's induction theorems take an operator; these lemmas do their    *)
(* induction on the smallest counterexample instead.                       *)
(***************************************************************************)
EXTENDS Integers, Functions, FiniteSetTheorems, WellFoundedInduction, TLAPS

LEMMA SmallestExists ==
    ASSUME NEW S \in SUBSET Nat, S # {}
    PROVE  \E x \in S : \A y \in S : x <= y
<1> DEFINE less == OpToRel(<, Nat)
<1>1. \A x, y \in Nat : x < y <=> <<x, y>> \in less
  BY DEF OpToRel
<1>2. IsWellFoundedOn(less, Nat)
  BY NatLessThanWellFounded
<1> HIDE DEF less
<1>3. PICK x \in S : \A y \in S : ~ (<<y, x>> \in less)
  BY <1>2, WFMin
<1>4. ASSUME NEW y \in S PROVE x <= y
  <2>1. ~ (<<y, x>> \in less) /\ x \in Nat /\ y \in Nat
    BY <1>3
  <2>2. ~ (y < x)
    BY <1>1, <2>1
  <2>3. QED
    BY <2>1, <2>2
<1>5. QED
  BY <1>4

\* Induction over the numbers, for a set of them.
LEMMA SetInduction ==
    ASSUME NEW Good, 0 \in Good, \A n \in Nat : n \in Good => n + 1 \in Good
    PROVE  Nat \subseteq Good
<1> SUFFICES ASSUME ~(Nat \subseteq Good) PROVE FALSE
  OBVIOUS
<1>1. PICK n \in Nat \ Good : \A m \in Nat \ Good : n <= m
  BY SmallestExists
<1>2. n # 0 /\ n - 1 \in Nat /\ ~(n <= n - 1)
  BY <1>1
<1>3. n - 1 \in Good
  BY <1>1, <1>2
<1>4. (n - 1) + 1 = n
  BY <1>1
<1> QED
  BY <1>1, <1>2, <1>3, <1>4

\* Induction over the subsets of a finite set, by their size.
LEMMA SubsetInduction ==
    ASSUME NEW S, IsFiniteSet(S), NEW Good,
           \A T \in SUBSET S : (\A x \in T : T \ {x} \in Good) => T \in Good
    PROVE  SUBSET S \subseteq Good
<1> SUFFICES ASSUME ~(SUBSET S \subseteq Good) PROVE FALSE
  OBVIOUS
<1> DEFINE sizes == {Cardinality(T) : T \in (SUBSET S) \ Good}
<1>1. sizes \subseteq Nat /\ sizes # {}
  BY FS_Subset, FS_CardinalityType
<1>2. PICK n \in sizes : \A m \in sizes : n <= m
  BY <1>1, SmallestExists
<1>3. PICK T \in (SUBSET S) \ Good : Cardinality(T) = n
  BY <1>2
<1>4. IsFiniteSet(T) /\ n \in Nat
  BY <1>1, <1>2, FS_Subset
<1>5. ASSUME NEW x \in T PROVE T \ {x} \in Good
  <2>1. Cardinality(T \ {x}) = n - 1
    BY <1>3, <1>4, FS_RemoveElement
  <2>2. T \ {x} \notin Good => n - 1 \in sizes
    BY <2>1
  <2>3. QED
    BY <1>2, <1>4, <2>2
<1>6. QED
  BY <1>3, <1>5

-----------------------------------------------------------------------------
(* The recursive function behind the sum. *)

Pick(s) == CHOOSE x \in s : TRUE
IsSum(g, f, S) ==
    g = [s \in SUBSET S |-> IF s = {} THEN 0 ELSE f[CHOOSE x \in s : TRUE] + g[s \ {CHOOSE x \in s : TRUE}]]

LEMMA SumIs ==
    ASSUME NEW f, NEW S
    PROVE  SumFunctionOnSet(f, S) = (CHOOSE g : IsSum(g, f, S))[S]
BY DEF SumFunctionOnSet, FoldFunctionOnSet, MapThenFoldSet, IsSum

LEMMA Picked == ASSUME NEW s, s # {} PROVE Pick(s) \in s
BY DEF Pick

LEMMA Smaller ==
    ASSUME NEW S, IsFiniteSet(S), NEW s \in SUBSET S
    PROVE  /\ IsFiniteSet(s) /\ Cardinality(s) \in Nat /\ Cardinality(s) <= Cardinality(S)
           /\ \A x \in s : /\ s \ {x} \in SUBSET S
                           /\ Cardinality(s \ {x}) = Cardinality(s) - 1
           /\ Cardinality(s) = 0 <=> s = {}
BY FS_Subset, FS_CardinalityType, FS_RemoveElement, FS_EmptySet

\* The function exists: level by level of the sizes of the subsets.
LEMMA SumExists ==
    ASSUME NEW f, NEW S, IsFiniteSet(S)
    PROVE  \E g : IsSum(g, f, S)
<1> DEFINE Level(n) == {s \in SUBSET S : Cardinality(s) <= n}
           Body(g, s) == IF s = {} THEN 0 ELSE f[Pick(s)] + g[s \ {Pick(s)}]
           Good == {n \in Nat : \E g : \A s \in Level(n) : g[s] = Body(g, s)}
<1>1. Cardinality(S) \in Nat /\ \A s \in SUBSET S : s \in Level(Cardinality(S))
  BY Smaller
<1>2. 0 \in Good
  <2>1. \A s \in Level(0) : s = {}
    BY Smaller
  <2>2. \A s \in Level(0) : [t \in SUBSET S |-> 0][s] = Body([t \in SUBSET S |-> 0], s)
    BY <2>1
  <2>3. QED
    BY <2>2
<1>3. ASSUME NEW n \in Nat, n \in Good PROVE n + 1 \in Good
  <2>1. PICK g : \A s \in Level(n) : g[s] = Body(g, s)
    BY <1>3
  <2> DEFINE up == [s \in SUBSET S |-> Body(g, s)]
  <2>2. ASSUME NEW s \in Level(n + 1) PROVE up[s] = Body(up, s)
    <3>1. CASE s = {}
      BY <3>1
    <3>2. CASE s # {}
      <4> DEFINE r == s \ {Pick(s)}
      <4>1. r \in Level(n)
        BY <3>2, Picked, Smaller
      <4>2. up[r] = g[r]
        BY <2>1, <4>1
      <4>3. up[s] = f[Pick(s)] + g[r]
        BY <3>2
      <4>4. QED
        BY <3>2, <4>2, <4>3
    <3>3. QED
      BY <3>1, <3>2
  <2> HIDE DEF Level, Body, up
  <2>3. \E h : \A s \in Level(n + 1) : h[s] = Body(h, s)
    BY <2>2
  <2>4. QED
    BY <2>3
<1>4. Cardinality(S) \in Good
  <2> HIDE DEF Good
  <2>1. QED
    BY <1>1, <1>2, <1>3, SetInduction
<1>5. PICK g : \A s \in SUBSET S : g[s] = Body(g, s)
  BY <1>1, <1>4
<1> DEFINE h == [s \in SUBSET S |-> g[s]]
<1>6. ASSUME NEW s \in SUBSET S PROVE h[s] = Body(h, s)
  <2>1. CASE s = {}
    BY <1>5, <2>1
  <2>2. CASE s # {}
    <3>1. s \ {Pick(s)} \in SUBSET S
      OBVIOUS
    <3>2. QED
      BY <1>5, <2>2, <3>1
  <2>3. QED
    BY <2>1, <2>2
<1>7. h = [s \in SUBSET S |-> Body(h, s)]
  BY <1>6
<1>8. IsSum(h, f, S)
  BY <1>7 DEF IsSum, Pick
<1> QED
  BY <1>8

\* The sum of a set is that of its first element and of the rest.
LEMMA SumUnfolds ==
    ASSUME NEW f, NEW S, IsFiniteSet(S)
    PROVE  /\ SumFunctionOnSet(f, {}) = 0
           /\ \A s \in SUBSET S : s # {} =>
                SumFunctionOnSet(f, s) = f[Pick(s)] + SumFunctionOnSet(f, s \ {Pick(s)})
<1> DEFINE It(T) == CHOOSE g : IsSum(g, f, T)
<1>1. ASSUME NEW T \in SUBSET S
      PROVE  \A s \in SUBSET T : It(T)[s] = IF s = {} THEN 0
                                            ELSE f[Pick(s)] + It(T)[s \ {Pick(s)}]
  <2>1. IsSum(It(T), f, T)
    BY FS_Subset, SumExists
  <2> HIDE DEF It
  <2>2. QED
    BY <2>1 DEF IsSum, Pick
<1>2. ASSUME NEW T \in SUBSET S, NEW U \in SUBSET T
      PROVE  It(T)[U] = It(U)[U]
  <2> DEFINE Good == {s \in SUBSET U : It(T)[s] = It(U)[s]}
  <2> HIDE DEF It
  <2>1. ASSUME NEW s \in SUBSET U, \A x \in s : s \ {x} \in Good PROVE s \in Good
    <3>1. CASE s = {}
      BY <1>1, <3>1
    <3>2. CASE s # {}
      <4>1. s \ {Pick(s)} \in Good
        BY <2>1, <3>2, Picked
      <4>2. It(T)[s] = f[Pick(s)] + It(T)[s \ {Pick(s)}]
        BY <1>1, <3>2
      <4>3. It(U)[s] = f[Pick(s)] + It(U)[s \ {Pick(s)}]
        BY <1>1, <3>2
      <4>4. QED
        BY <4>1, <4>2, <4>3
    <3>3. QED
      BY <3>1, <3>2
  <2>2. IsFiniteSet(U)
    BY FS_Subset
  <2>3. SUBSET U \subseteq Good
    <3> HIDE DEF Good
    <3>1. QED
      BY <2>1, <2>2, SubsetInduction
  <2>4. QED
    BY <2>3
<1>3. \A T : SumFunctionOnSet(f, T) = It(T)[T]
  BY SumIs
<1> HIDE DEF It
<1>4. ASSUME NEW s \in SUBSET S, s # {}
      PROVE  SumFunctionOnSet(f, s) = f[Pick(s)] + SumFunctionOnSet(f, s \ {Pick(s)})
  <2>1. It(s)[s] = f[Pick(s)] + It(s)[s \ {Pick(s)}]
    BY <1>1, <1>4
  <2>2. It(s)[s \ {Pick(s)}] = It(s \ {Pick(s)})[s \ {Pick(s)}]
    BY <1>2
  <2>3. QED
    BY <1>3, <2>1, <2>2
<1>5. SumFunctionOnSet(f, {}) = 0
  BY <1>1, <1>3
<1> QED
  BY <1>4, <1>5

\* Sums of integers are integers, and of naturals naturals.
LEMMA SumTyped ==
    ASSUME NEW S, IsFiniteSet(S), NEW f, \A x \in S : f[x] \in Int
    PROVE  /\ \A s \in SUBSET S : SumFunctionOnSet(f, s) \in Int
           /\ (\A x \in S : f[x] \in Nat) => SumFunctionOnSet(f, S) \in Nat
<1> DEFINE Good == {s \in SUBSET S :
                      /\ SumFunctionOnSet(f, s) \in Int
                      /\ (\A x \in S : f[x] \in Nat) => SumFunctionOnSet(f, s) \in Nat}
<1>1. ASSUME NEW s \in SUBSET S, \A x \in s : s \ {x} \in Good PROVE s \in Good
  <2>1. CASE s = {}
    <3>1. SumFunctionOnSet(f, s) = 0
      BY <2>1, SumUnfolds
    <3>2. QED
      BY <3>1
  <2>2. CASE s # {}
    <3>1. Pick(s) \in s /\ s \ {Pick(s)} \in Good
      BY <1>1, <2>2, Picked
    <3>2. SumFunctionOnSet(f, s) = f[Pick(s)] + SumFunctionOnSet(f, s \ {Pick(s)})
      BY <2>2, SumUnfolds
    <3>3. f[Pick(s)] \in Int
      BY <3>1
    <3>4. QED
      BY <3>1, <3>2, <3>3
  <2>3. QED
    BY <2>1, <2>2
<1>2. SUBSET S \subseteq Good
  <2> HIDE DEF Good
  <2>1. QED
    BY <1>1, SubsetInduction
<1> QED
  BY <1>2

\* Any element will do as the first one.
LEMMA SumTakes ==
    ASSUME NEW S, IsFiniteSet(S), NEW f, \A x \in S : f[x] \in Int, NEW y \in S
    PROVE  SumFunctionOnSet(f, S) = f[y] + SumFunctionOnSet(f, S \ {y})
<1> DEFINE Sum(s) == SumFunctionOnSet(f, s)
           Good == {s \in SUBSET S : \A x \in s : Sum(s) = f[x] + Sum(s \ {x})}
<1>0. \A s \in SUBSET S : Sum(s) \in Int
  BY SumTyped
<1>00. \A s \in SUBSET S : s # {} => Sum(s) = f[Pick(s)] + Sum(s \ {Pick(s)})
  BY SumUnfolds
<1> HIDE DEF Sum
<1>1. ASSUME NEW s \in SUBSET S, \A x \in s : s \ {x} \in Good PROVE s \in Good
  <2>1. ASSUME NEW x \in s PROVE Sum(s) = f[x] + Sum(s \ {x})
    <3> DEFINE p == Pick(s)
    <3>1. p \in s /\ Sum(s) = f[p] + Sum(s \ {p})
      BY <1>00, Picked
    <3> HIDE DEF p
    <3>2. CASE x = p
      BY <3>1, <3>2
    <3>3. CASE x # p
      <4>1. Sum(s \ {p}) = f[x] + Sum((s \ {p}) \ {x})
        BY <1>1, <3>1, <3>3
      <4>2. Sum(s \ {x}) = f[p] + Sum((s \ {x}) \ {p})
        BY <1>1, <3>1, <3>3
      <4>3. (s \ {p}) \ {x} = (s \ {x}) \ {p}
        OBVIOUS
      <4> DEFINE rest == Sum((s \ {p}) \ {x})
      <4>4. f[x] \in Int /\ f[p] \in Int /\ rest \in Int
        BY <1>0, <3>1
      <4>5. Sum(s \ {p}) = f[x] + rest /\ Sum(s \ {x}) = f[p] + rest
        BY <4>1, <4>2, <4>3
      <4> HIDE DEF rest
      <4>6. Sum(s) = f[p] + (f[x] + rest) /\ f[p] + (f[x] + rest) = f[x] + (f[p] + rest)
        BY <3>1, <4>4, <4>5
      <4>7. QED
        BY <4>5, <4>6
    <3>4. QED
      BY <3>2, <3>3
  <2>2. QED
    BY <2>1
<1>2. SUBSET S \subseteq Good
  <2> HIDE DEF Good
  <2>1. QED
    BY <1>1, SubsetInduction
<1> QED
  BY <1>2 DEF Sum

\* Only the values on the set count.
LEMMA SumSame ==
    ASSUME NEW S, IsFiniteSet(S), NEW f, NEW g, \A x \in S : f[x] = g[x]
    PROVE  SumFunctionOnSet(f, S) = SumFunctionOnSet(g, S)
<1> DEFINE Good == {s \in SUBSET S : SumFunctionOnSet(f, s) = SumFunctionOnSet(g, s)}
<1>1. ASSUME NEW s \in SUBSET S, \A x \in s : s \ {x} \in Good PROVE s \in Good
  <2>1. CASE s = {}
    BY <2>1, SumUnfolds
  <2>2. CASE s # {}
    <3>1. Pick(s) \in s /\ s \ {Pick(s)} \in Good
      BY <1>1, <2>2, Picked
    <3>2. SumFunctionOnSet(f, s) = f[Pick(s)] + SumFunctionOnSet(f, s \ {Pick(s)})
      BY <2>2, SumUnfolds
    <3>3. SumFunctionOnSet(g, s) = g[Pick(s)] + SumFunctionOnSet(g, s \ {Pick(s)})
      BY <2>2, SumUnfolds
    <3>4. QED
      BY <3>1, <3>2, <3>3
  <2>3. QED
    BY <2>1, <2>2
<1>2. SUBSET S \subseteq Good
  <2> HIDE DEF Good
  <2>1. QED
    BY <1>1, SubsetInduction
<1> QED
  BY <1>2

\* Sums of sets without a common element add up.
LEMMA SumUnion ==
    ASSUME NEW S, IsFiniteSet(S), NEW T, IsFiniteSet(T), S \cap T = {},
           NEW f, \A x \in S \cup T : f[x] \in Int
    PROVE  SumFunctionOnSet(f, S \cup T) = SumFunctionOnSet(f, S) + SumFunctionOnSet(f, T)
<1> DEFINE Sum(s) == SumFunctionOnSet(f, s)
           Good == {s \in SUBSET S : Sum(s \cup T) = Sum(s) + Sum(T)}
<1>0. IsFiniteSet(S \cup T)
  BY FS_Union
<1>1. \A s \in SUBSET (S \cup T) : Sum(s) \in Int /\ Sum({}) = 0
  BY <1>0, SumTyped, SumUnfolds
<1>2. \A s \in SUBSET (S \cup T) : \A x \in s : Sum(s) = f[x] + Sum(s \ {x})
  BY <1>0, FS_Subset, SumTakes
<1> HIDE DEF Sum
<1>3. ASSUME NEW s \in SUBSET S, \A x \in s : s \ {x} \in Good PROVE s \in Good
  <2>1. CASE s = {}
    <3>1. s \cup T = T /\ Sum(T) \in Int /\ Sum(s) = 0
      BY <1>1, <2>1
    <3>2. 0 + Sum(T) = Sum(T)
      BY <3>1
    <3>3. Sum(s \cup T) = Sum(s) + Sum(T)
      BY <3>1, <3>2, Zenon
    <3>4. QED
      BY <3>3
  <2>2. CASE s # {}
    <3>1. PICK x \in s : TRUE
      BY <2>2
    <3>2. Sum((s \ {x}) \cup T) = Sum(s \ {x}) + Sum(T)
      BY <1>3
    <3>3. (s \cup T) \ {x} = (s \ {x}) \cup T
      OBVIOUS
    <3>4. Sum(s \cup T) = f[x] + Sum((s \cup T) \ {x}) /\ Sum(s) = f[x] + Sum(s \ {x})
      BY <1>2
    <3>5. f[x] \in Int /\ Sum(s \ {x}) \in Int /\ Sum(T) \in Int
      BY <1>1
    <3>6. f[x] + (Sum(s \ {x}) + Sum(T)) = (f[x] + Sum(s \ {x})) + Sum(T)
      BY <3>5
    <3>7. Sum(s \cup T) = f[x] + (Sum(s \ {x}) + Sum(T))
      BY <3>2, <3>3, <3>4
    <3>8. Sum(s \cup T) = Sum(s) + Sum(T)
      BY <3>4, <3>6, <3>7
    <3>9. QED
      BY <3>8
  <2>3. QED
    BY <2>1, <2>2
<1>4. SUBSET S \subseteq Good
  <2> HIDE DEF Good
  <2>1. QED
    BY <1>3, SubsetInduction
<1> QED
  BY <1>4 DEF Sum

\* What is taken out of a set is taken off its sum.
LEMMA SumWithout ==
    ASSUME NEW S, IsFiniteSet(S), NEW T \in SUBSET S, NEW f, \A x \in S : f[x] \in Int
    PROVE  /\ SumFunctionOnSet(f, S \ T) = SumFunctionOnSet(f, S) - SumFunctionOnSet(f, T)
           /\ SumFunctionOnSet(f, S \ T) \in Int
<1>1. IsFiniteSet(T) /\ IsFiniteSet(S \ T) /\ (S \ T) \cap T = {}
  BY FS_Subset
<1>2. SumFunctionOnSet(f, (S \ T) \cup T) = SumFunctionOnSet(f, S \ T) + SumFunctionOnSet(f, T)
  BY <1>1, SumUnion
<1>3. (S \ T) \cup T = S
  OBVIOUS
<1> DEFINE rest == SumFunctionOnSet(f, S \ T)
<1>4. rest \in Int /\ SumFunctionOnSet(f, T) \in Int
  BY SumTyped
<1>5. SumFunctionOnSet(f, S) = rest + SumFunctionOnSet(f, T)
  BY <1>2, <1>3
<1> HIDE DEF rest
<1>6. rest = SumFunctionOnSet(f, S) - SumFunctionOnSet(f, T)
  BY <1>4, <1>5
<1> QED
  BY <1>4, <1>6 DEF rest

\* A sum of differences is the difference of the sums.
LEMMA SumDifference ==
    ASSUME NEW S, IsFiniteSet(S), NEW f, NEW g, NEW d,
           \A x \in S : f[x] \in Int /\ g[x] \in Int /\ d[x] = f[x] - g[x]
    PROVE  SumFunctionOnSet(d, S) = SumFunctionOnSet(f, S) - SumFunctionOnSet(g, S)
<1> DEFINE Good == {s \in SUBSET S :
              SumFunctionOnSet(d, s) = SumFunctionOnSet(f, s) - SumFunctionOnSet(g, s)}
<1>0. /\ \A x \in S : f[x] \in Int /\ g[x] \in Int /\ d[x] \in Int
      /\ \A s \in SUBSET S : SumFunctionOnSet(f, s) \in Int /\ SumFunctionOnSet(g, s) \in Int
  <2>1. \A x \in S : f[x] \in Int /\ g[x] \in Int /\ d[x] \in Int
    OBVIOUS
  <2>2. \A s \in SUBSET S : SumFunctionOnSet(f, s) \in Int
    BY <2>1, SumTyped
  <2>3. \A s \in SUBSET S : SumFunctionOnSet(g, s) \in Int
    BY <2>1, SumTyped
  <2>4. QED
    BY <2>1, <2>2, <2>3
<1>1. ASSUME NEW s \in SUBSET S, \A x \in s : s \ {x} \in Good PROVE s \in Good
  <2>1. CASE s = {}
    <3>1. /\ SumFunctionOnSet(d, s) = 0 /\ SumFunctionOnSet(f, s) = 0
          /\ SumFunctionOnSet(g, s) = 0
      BY <2>1, SumUnfolds
    <3>2. QED
      BY <3>1
  <2>2. CASE s # {}
    <3> DEFINE p == Pick(s)
               r == s \ {p}
    <3>1. p \in s /\ r \in Good
      BY <1>1, <2>2, Picked
    <3>2. /\ SumFunctionOnSet(d, s) = d[p] + SumFunctionOnSet(d, r)
          /\ SumFunctionOnSet(f, s) = f[p] + SumFunctionOnSet(f, r)
          /\ SumFunctionOnSet(g, s) = g[p] + SumFunctionOnSet(g, r)
      BY <2>2, SumUnfolds
    <3>3. /\ SumFunctionOnSet(d, r) = SumFunctionOnSet(f, r) - SumFunctionOnSet(g, r)
          /\ d[p] = f[p] - g[p] /\ f[p] \in Int /\ g[p] \in Int
          /\ SumFunctionOnSet(f, r) \in Int /\ SumFunctionOnSet(g, r) \in Int
      BY <1>0, <3>1
    <3> HIDE DEF r, p
    <3>4. SumFunctionOnSet(d, s) = SumFunctionOnSet(f, s) - SumFunctionOnSet(g, s)
      BY <3>2, <3>3
    <3>5. QED
      BY <3>4
  <2>3. QED
    BY <2>1, <2>2
<1>2. SUBSET S \subseteq Good
  <2> HIDE DEF Good
  <2>1. QED
    BY <1>1, SubsetInduction
<1> QED
  BY <1>2

\* The elements may be renamed one by one.
LEMMA SumRenamed ==
    ASSUME NEW S, IsFiniteSet(S), NEW T, NEW h \in [S -> T],
           \A x, y \in S : h[x] = h[y] => x = y, \A z \in T : \E x \in S : z = h[x],
           NEW f, NEW g, \A x \in S : g[x] \in Int /\ f[h[x]] = g[x]
    PROVE  IsFiniteSet(T) /\ SumFunctionOnSet(f, T) = SumFunctionOnSet(g, S)
<1> DEFINE Image(s) == {h[x] : x \in s}
           Good == {s \in SUBSET S : /\ IsFiniteSet(Image(s))
                                     /\ SumFunctionOnSet(f, Image(s)) = SumFunctionOnSet(g, s)}
<1>1. ASSUME NEW s \in SUBSET S, \A x \in s : s \ {x} \in Good PROVE s \in Good
  <2>1. CASE s = {}
    <3>1. Image(s) = {}
      BY <2>1
    <3>2. IsFiniteSet({}) /\ SumFunctionOnSet(f, {}) = 0 /\ SumFunctionOnSet(g, {}) = 0
      BY SumUnfolds, FS_EmptySet
    <3>3. QED
      BY <2>1, <3>1, <3>2
  <2>2. CASE s # {}
    <3>1. PICK x \in s : s \ {x} \in Good
      BY <1>1, <2>2
    <3>2. /\ Image(s) = Image(s \ {x}) \cup {h[x]} /\ Image(s) \ {h[x]} = Image(s \ {x})
          /\ h[x] \in Image(s)
      OBVIOUS
    <3>3. \A z \in Image(s) : f[z] \in Int
      OBVIOUS
    <3>4. IsFiniteSet(Image(s)) /\ IsFiniteSet(s)
      BY <3>1, <3>2, FS_AddElement, FS_Subset
    <3>5. SumFunctionOnSet(g, s) = g[x] + SumFunctionOnSet(g, s \ {x})
      BY <3>4, SumTakes
    <3> DEFINE im == Image(s)
               y == h[x]
    <3>6. SumFunctionOnSet(f, im) = f[y] + SumFunctionOnSet(f, im \ {y})
      <4>1. IsFiniteSet(im) /\ y \in im /\ \A z \in im : f[z] \in Int
        BY <3>2, <3>3, <3>4
      <4> HIDE DEF im, y
      <4>2. QED
        BY <4>1, SumTakes
    <3>7. SumFunctionOnSet(f, Image(s)) = SumFunctionOnSet(g, s)
      BY <3>1, <3>2, <3>5, <3>6
    <3>8. QED
      BY <3>4, <3>7
  <2>3. QED
    BY <2>1, <2>2
<1>2. SUBSET S \subseteq Good
  <2> HIDE DEF Good
  <2>1. QED
    BY <1>1, SubsetInduction
<1>3. T = Image(S)
  OBVIOUS
<1>4. S \in Good
  BY <1>2
<1> QED
  BY <1>3, <1>4

\* F cuts U into finite parts, one for each member of H.
Parts(F, H, U) ==
    /\ F \in [H -> SUBSET U]
    /\ \A h \in H : IsFiniteSet(F[h])
    /\ \A x \in U : \E h \in H : x \in F[h]
    /\ \A h, k \in H : h # k => F[h] \cap F[k] = {}

\* The sum of the sums of the parts is that of the whole.
LEMMA SumOfSums ==
    ASSUME NEW H, IsFiniteSet(H), NEW U, NEW F, Parts(F, H, U),
           NEW f, \A x \in U : f[x] \in Int,
           NEW g, \A h \in H : g[h] = SumFunctionOnSet(f, F[h])
    PROVE  IsFiniteSet(U) /\ SumFunctionOnSet(f, U) = SumFunctionOnSet(g, H)
<1> DEFINE All(s) == UNION {F[h] : h \in s}
           Good == {s \in SUBSET H : /\ IsFiniteSet(All(s))
                                     /\ SumFunctionOnSet(f, All(s)) = SumFunctionOnSet(g, s)}
<1>00. /\ F \in [H -> SUBSET U] /\ \A h \in H : IsFiniteSet(F[h])
       /\ \A x \in U : \E h \in H : x \in F[h]
       /\ \A h, k \in H : h # k => F[h] \cap F[k] = {}
  BY DEF Parts
<1>0. \A h \in H : g[h] \in Int
  BY <1>00, SumTyped
<1>1. ASSUME NEW s \in SUBSET H, \A h \in s : s \ {h} \in Good PROVE s \in Good
  <2>1. CASE s = {}
    <3>1. All(s) = {}
      BY <2>1
    <3>2. IsFiniteSet({}) /\ SumFunctionOnSet(f, {}) = 0 /\ SumFunctionOnSet(g, {}) = 0
      BY SumUnfolds, FS_EmptySet
    <3>3. QED
      BY <2>1, <3>1, <3>2
  <2>2. CASE s # {}
    <3>1. PICK h \in s : s \ {h} \in Good
      BY <1>1, <2>2
    <3> DEFINE rest == All(s \ {h})
    <3>2. All(s) = rest \cup F[h]
      OBVIOUS
    <3>3. rest \cap F[h] = {}
      BY <1>00
    <3>4. \A x \in rest \cup F[h] : f[x] \in Int
      BY <1>00
    <3>5. IsFiniteSet(rest) /\ IsFiniteSet(F[h]) /\ IsFiniteSet(s)
          /\ SumFunctionOnSet(f, rest) = SumFunctionOnSet(g, s \ {h})
      BY <1>00, <3>1, FS_Subset
    <3>6. SumFunctionOnSet(g, s) = g[h] + SumFunctionOnSet(g, s \ {h})
      BY <1>0, <3>5, SumTakes
    <3>7. SumFunctionOnSet(g, s \ {h}) \in Int /\ g[h] \in Int
      BY <1>0, SumTyped
    <3> HIDE DEF rest
    <3>8. SumFunctionOnSet(f, rest \cup F[h]) = SumFunctionOnSet(f, rest) + SumFunctionOnSet(f, F[h])
      BY <3>3, <3>4, <3>5, SumUnion
    <3>9. IsFiniteSet(rest \cup F[h])
      BY <3>5, FS_Union
    <3>10. SumFunctionOnSet(f, All(s)) = SumFunctionOnSet(g, s \ {h}) + g[h]
      BY <3>2, <3>5, <3>8
    <3>11. SumFunctionOnSet(g, s \ {h}) + g[h] = g[h] + SumFunctionOnSet(g, s \ {h})
      BY <3>7
    <3>12. SumFunctionOnSet(f, All(s)) = SumFunctionOnSet(g, s) /\ IsFiniteSet(All(s))
      BY <3>2, <3>6, <3>9, <3>10, <3>11
    <3>13. QED
      BY <3>12
  <2>3. QED
    BY <2>1, <2>2
<1>2. SUBSET H \subseteq Good
  <2> HIDE DEF Good
  <2>1. QED
    BY <1>1, SubsetInduction
<1>3. U = All(H)
  BY <1>00
<1>4. H \in Good
  BY <1>2
<1> QED
  BY <1>3, <1>4
============================================================================
