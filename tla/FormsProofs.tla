---------------------------- MODULE FormsProofs ----------------------------
(***************************************************************************)
(* The forms of data items (DataItems), for every size of a byte, of the   *)
(* recorder's integers and of a field that the assumptions allow.  From    *)
(* the bottom up: powers, VBC fields, minimal two's complement, items of   *)
(* every height, what the decoder makes of an encoding and of any other    *)
(* string, the JSON form, and what a signature covers.                     *)
(*                                                                         *)
(* A recursive definition says CHOOSE f : f = [n \in dom |-> ... f ...], so *)
(* before a fact about its values there is one that such an f exists, made *)
(* number by number or height by height, and one that two of them agree.   *)
(***************************************************************************)
EXTENDS DataItems, SumLemmas, SequenceTheorems

-----------------------------------------------------------------------------
(* Recursive functions over numbers: each value is had from that of a       *)
(* smaller number, before[n], and stops where stop says so.                *)

Solves(f, dom, V, stop, base, before, step) ==
    /\ f \in [dom -> V]
    /\ \A n \in dom : f[n] = IF n \in stop THEN base[n] ELSE step[n][f[before[n]]]

Descends(dom, stop, before) == \A n \in dom \ stop : before[n] \in dom /\ before[n] < n

Grounded(dom, V, stop, base, before, step) ==
    /\ dom \subseteq Nat /\ Descends(dom, stop, before)
    /\ \A n \in dom \cap stop : base[n] \in V
    /\ \A n \in dom \ stop : \A v \in V : step[n][v] \in V

Solved(dom, V, stop, base, before, step) ==
    \E f : Solves(f, dom, V, stop, base, before, step)

LEMMA SolutionsAgree ==
    ASSUME NEW sub \in SUBSET Nat, NEW dom \in SUBSET Nat, sub \subseteq dom, NEW V, NEW stop,
           NEW base, NEW before, NEW step, Descends(sub, stop, before),
           NEW f, NEW g, Solves(f, sub, V, stop, base, before, step),
           Solves(g, dom, V, stop, base, before, step)
    PROVE  \A n \in sub : f[n] = g[n]
<1> SUFFICES ASSUME {n \in sub : f[n] # g[n]} # {} PROVE FALSE
  OBVIOUS
<1>1. PICK n \in {n \in sub : f[n] # g[n]} : \A m \in {k \in sub : f[k] # g[k]} : n <= m
  BY SmallestExists
<1>2. n \in sub /\ n \in dom /\ n \in Nat
  BY <1>1
<1>3. /\ f[n] = IF n \in stop THEN base[n] ELSE step[n][f[before[n]]]
      /\ g[n] = IF n \in stop THEN base[n] ELSE step[n][g[before[n]]]
  BY <1>2 DEF Solves
<1>4. n \notin stop
  BY <1>1, <1>3
<1>5. before[n] \in sub /\ before[n] < n /\ before[n] \in Nat
  BY <1>2, <1>4 DEF Descends
<1>6. f[before[n]] = g[before[n]]
  BY <1>1, <1>2, <1>5
<1> QED
  BY <1>1, <1>3, <1>4, <1>6

LEMMA SolutionBelow ==
    ASSUME NEW dom \in SUBSET Nat, NEW V, NEW stop, NEW base, NEW before, NEW step,
           Descends(dom, stop, before), \A n \in dom \cap stop : base[n] \in V,
           \A n \in dom \ stop : \A v \in V : step[n][v] \in V
    PROVE  \A m \in Nat : \E f : Solves(f, {n \in dom : n < m}, V, stop, base, before, step)
<1> DEFINE Under(m) == {n \in dom : n < m}
           Good == {m \in Nat : \E f : Solves(f, Under(m), V, stop, base, before, step)}
<1>1. 0 \in Good
  <2>1. Under(0) = {}
    OBVIOUS
  <2>2. Solves([n \in {} |-> 0], {}, V, stop, base, before, step)
    BY DEF Solves
  <2> HIDE DEF Under
  <2> QED
    BY <2>1, <2>2
<1>2. ASSUME NEW m \in Nat, m \in Good PROVE m + 1 \in Good
  <2>1. PICK f : Solves(f, Under(m), V, stop, base, before, step)
    BY <1>2
  <2> DEFINE last == IF m \in stop THEN base[m] ELSE step[m][f[before[m]]]
             g == [n \in Under(m + 1) |-> IF n = m THEN last ELSE f[n]]
  <2>2. \A n \in Under(m + 1) : n \in dom /\ n \in Nat /\ (n \in Under(m) \/ n = m)
    OBVIOUS
  <2>3. \A n \in Under(m) : n # m /\ n \in Under(m + 1)
    OBVIOUS
  <2>4. ASSUME NEW n \in Under(m + 1), n \notin stop PROVE before[n] \in Under(m)
    <3>1. n \in dom /\ n \in Nat /\ n < m + 1
      OBVIOUS
    <3>2. before[n] \in dom /\ before[n] < n
      BY <2>4, <3>1 DEF Descends
    <3>3. before[n] \in Nat
      BY <3>2
    <3>4. before[n] < m
      BY <3>1, <3>2, <3>3
    <3> QED
      BY <3>2, <3>4
  <2> HIDE DEF Under
  <2>5. \A n \in Under(m) : f[n] \in V /\ g[n] = f[n]
    BY <2>1, <2>3 DEF Solves
  <2>6. m \in Under(m + 1) => g[m] = last /\ last \in V
    BY <2>2, <2>4, <2>5
  <2>7. g \in [Under(m + 1) -> V]
    BY <2>2, <2>5, <2>6
  <2>8. ASSUME NEW n \in Under(m + 1)
        PROVE  g[n] = IF n \in stop THEN base[n] ELSE step[n][g[before[n]]]
    <3>1. CASE n = m
      BY <2>4, <2>5, <2>6, <3>1
    <3>2. CASE n \in Under(m)
      <4>1. f[n] = IF n \in stop THEN base[n] ELSE step[n][f[before[n]]]
        BY <2>1, <3>2 DEF Solves
      <4> HIDE DEF g, last
      <4> QED
        BY <2>4, <2>5, <3>2, <4>1
    <3> QED
      BY <2>2, <3>1, <3>2
  <2> HIDE DEF g
  <2>9. Solves(g, Under(m + 1), V, stop, base, before, step)
    BY <2>7, <2>8 DEF Solves
  <2> QED
    BY <2>9
<1> HIDE DEF Good
<1>3. Nat \subseteq Good
  BY <1>1, <1>2, SetInduction
<1> QED
  BY <1>3 DEF Good

LEMMA SolutionExists ==
    ASSUME NEW dom, NEW V, NEW stop, NEW base, NEW before, NEW step,
           Grounded(dom, V, stop, base, before, step)
    PROVE  Solved(dom, V, stop, base, before, step)
<1> DEFINE Under(m) == {n \in dom : n < m}
           Sol(m) == CHOOSE f : Solves(f, Under(m), V, stop, base, before, step)
           g == [n \in dom |-> Sol(n + 1)[n]]
<1>0. /\ dom \in SUBSET Nat /\ Descends(dom, stop, before)
      /\ \A n \in dom \cap stop : base[n] \in V
      /\ \A n \in dom \ stop : \A v \in V : step[n][v] \in V
      /\ \A n \in dom : n \in Nat
  BY DEF Grounded
<1>1. ASSUME NEW m \in Nat PROVE Solves(Sol(m), Under(m), V, stop, base, before, step)
  <2>1. PICK f : Solves(f, Under(m), V, stop, base, before, step)
    BY <1>0, SolutionBelow
  <2> HIDE DEF Under
  <2> QED
    BY <2>1
<1>2. ASSUME NEW m \in Nat PROVE Under(m) \in SUBSET Nat /\ Descends(Under(m), stop, before)
  <2>1. Under(m) \in SUBSET Nat
    BY <1>0
  <2>2. ASSUME NEW n \in Under(m) \ stop PROVE before[n] \in Under(m) /\ before[n] < n
    <3>1. n \in dom /\ n < m /\ n \in Nat
      BY <1>0
    <3>2. before[n] \in dom /\ before[n] < n /\ before[n] \in Nat
      BY <1>0, <3>1 DEF Descends
    <3>3. before[n] < m
      BY <3>1, <3>2
    <3> QED
      BY <3>2, <3>3
  <2> HIDE DEF Under
  <2> QED
    BY <2>1, <2>2 DEF Descends
<1>3. \A n \in dom : n \in Nat /\ n + 1 \in Nat /\ n \in Under(n + 1)
  BY <1>0
<1>4. ASSUME NEW n \in Nat, NEW m \in Nat, n <= m PROVE Under(n) \subseteq Under(m)
  <2> SUFFICES ASSUME NEW k \in Under(n) PROVE k \in Under(m)
    OBVIOUS
  <2>1. k \in dom /\ k < n
    OBVIOUS
  <2>2. k \in Nat
    BY <1>0, <2>1
  <2>3. k < m
    BY <1>4, <2>1, <2>2
  <2> QED
    BY <2>1, <2>3
<1>5. \A n \in dom \ stop : before[n] \in dom /\ before[n] + 1 <= n + 1 /\ before[n] \in Under(n + 1)
  <2>1. \A n \in dom \ stop : before[n] \in dom /\ before[n] < n /\ n \in Nat /\ before[n] \in Nat
    BY <1>0 DEF Descends
  <2> QED
    BY <2>1
<1> HIDE DEF Under, Sol
<1>6. ASSUME NEW n \in Nat, NEW m \in Nat, n <= m, NEW k \in Under(n) PROVE Sol(n)[k] = Sol(m)[k]
  <2>1. /\ Solves(Sol(n), Under(n), V, stop, base, before, step)
        /\ Solves(Sol(m), Under(m), V, stop, base, before, step)
        /\ Under(n) \in SUBSET Nat /\ Under(m) \in SUBSET Nat /\ Under(n) \subseteq Under(m)
        /\ Descends(Under(n), stop, before)
    BY <1>1, <1>2, <1>4, <1>6
  <2>2. \A j \in Under(n) : Sol(n)[j] = Sol(m)[j]
    BY <2>1, SolutionsAgree
  <2> QED
    BY <2>2
<1>7. \A n \in dom : g[n] \in V
  BY <1>1, <1>3 DEF Solves
<1>8. ASSUME NEW n \in dom
      PROVE  g[n] = IF n \in stop THEN base[n] ELSE step[n][g[before[n]]]
  <2>1. Sol(n + 1)[n] = IF n \in stop THEN base[n] ELSE step[n][Sol(n + 1)[before[n]]]
    BY <1>1, <1>3 DEF Solves
  <2>2. n \notin stop => Sol(n + 1)[before[n]] = g[before[n]]
    <3> SUFFICES ASSUME n \notin stop PROVE Sol(n + 1)[before[n]] = g[before[n]]
      OBVIOUS
    <3> DEFINE b == before[n]
    <3>1. b \in dom /\ b + 1 <= n + 1 /\ b + 1 \in Nat /\ b \in Under(b + 1)
      BY <1>3, <1>5
    <3>2. Sol(b + 1)[b] = Sol(n + 1)[b]
      BY <1>3, <1>6, <3>1
    <3> QED
      BY <3>1, <3>2
  <2> QED
    BY <2>1, <2>2
<1> HIDE DEF g
<1>9. g \in [dom -> V]
  BY <1>7 DEF g
<1>10. Solves(g, dom, V, stop, base, before, step)
  BY <1>8, <1>9 DEF Solves
<1> QED
  BY <1>10 DEF Solved

-----------------------------------------------------------------------------
(* Powers of a number. *)

Powers(p, b) == p = [k \in Nat |-> IF k = 0 THEN 1 ELSE b * p[k - 1]]

LEMMA PowersExist ==
    ASSUME NEW b \in Nat \ {0}
    PROVE  \E p : Powers(p, b) /\ p \in [Nat -> Nat \ {0}]
<1> DEFINE V == Nat \ {0}
           stop == {0}
           base == [n \in Nat |-> 1]
           before == [n \in Nat |-> n - 1]
           step == [n \in Nat |-> [v \in V |-> b * v]]
<1>1. Descends(Nat, stop, before)
  BY DEF Descends
<1>2. \A n \in Nat \cap stop : base[n] \in V
  OBVIOUS
<1>3. \A n \in Nat \ stop : \A v \in V : step[n][v] \in V
  <2>1. \A v \in V : b * v \in V
    OBVIOUS
  <2> QED
    BY <2>1
<1>4. \A n \in Nat : \A v \in V : base[n] = 1 /\ step[n][v] = b * v
  OBVIOUS
<1> HIDE DEF base, step, V
<1>5. Grounded(Nat, V, stop, base, before, step)
  BY <1>1, <1>2, <1>3 DEF Grounded
<1>6. PICK p : Solves(p, Nat, V, stop, base, before, step)
  BY <1>5, SolutionExists DEF Solved
<1>7. p \in [Nat -> V]
  BY <1>6 DEF Solves
<1>8. \A n \in Nat : n # 0 => n - 1 \in Nat /\ p[n - 1] \in V
  BY <1>7
<1>9. \A n \in Nat : p[n] = IF n = 0 THEN 1 ELSE b * p[n - 1]
  BY <1>4, <1>6, <1>8 DEF Solves
<1>10. Powers(p, b)
  <2>1. p = [n \in Nat |-> p[n]]
    BY <1>7
  <2> QED
    BY <1>9, <2>1 DEF Powers
<1> QED
  BY <1>7, <1>10 DEF V

LEMMA PowersAgree ==
    ASSUME NEW b \in Nat \ {0}, NEW p, Powers(p, b), NEW q, Powers(q, b)
    PROVE  p = q
<1> DEFINE Good == {n \in Nat : p[n] = q[n]}
<1>1. \A n \in Nat : /\ p[n] = IF n = 0 THEN 1 ELSE b * p[n - 1]
                     /\ q[n] = IF n = 0 THEN 1 ELSE b * q[n - 1]
  BY DEF Powers
<1>2. 0 \in Good
  BY <1>1
<1>3. \A n \in Nat : n \in Good => n + 1 \in Good
  BY <1>1
<1> HIDE DEF Good
<1>4. Nat \subseteq Good
  BY <1>2, <1>3, SetInduction
<1>5. \A n \in Nat : p[n] = q[n]
  BY <1>4 DEF Good
<1> QED
  BY <1>5 DEF Powers

LEMMA PowerIs ==
    ASSUME NEW b \in Nat \ {0}
    PROVE  /\ Power(b, 0) = 1
           /\ \A n \in Nat : /\ Power(b, n) \in Nat /\ Power(b, n) > 0
                             /\ Power(b, n + 1) = b * Power(b, n)
<1> DEFINE p == CHOOSE q : Powers(q, b)
<1>1. Powers(p, b) /\ p \in [Nat -> Nat \ {0}]
  BY PowersExist, PowersAgree
<1>2. \A n : Power(b, n) = p[n]
  BY DEF Power, Powers
<1> HIDE DEF p
<1>3. \A n \in Nat : n + 1 \in Nat /\ n + 1 # 0 /\ (n + 1) - 1 = n
  OBVIOUS
<1>4. \A n \in Nat : p[n] = IF n = 0 THEN 1 ELSE b * p[n - 1]
  BY <1>1 DEF Powers
<1>5. \A n \in Nat : p[n] \in Nat /\ p[n] > 0 /\ p[n + 1] = b * p[n]
  BY <1>1, <1>3, <1>4
<1> QED
  BY <1>2, <1>4, <1>5

LEMMA PowersAdd ==
    ASSUME NEW b \in Nat \ {0}, NEW m \in Nat, NEW n \in Nat
    PROVE  Power(b, m + n) = Power(b, m) * Power(b, n)
<1> DEFINE P(k) == Power(b, k)
           Good == {k \in Nat : P(m + k) = P(m) * P(k)}
<1>1. P(0) = 1 /\ \A k \in Nat : P(k) \in Nat /\ P(k) > 0 /\ P(k + 1) = b * P(k)
  BY PowerIs
<1> HIDE DEF P
<1>2. 0 \in Good
  BY <1>1
<1>3. ASSUME NEW k \in Nat, k \in Good PROVE k + 1 \in Good
  <2> DEFINE j == m + k
  <2>1. j \in Nat /\ j + 1 = m + (k + 1) /\ P(j) = P(m) * P(k)
    BY <1>3
  <2> HIDE DEF j
  <2>2. P(j + 1) = b * (P(m) * P(k)) /\ P(k + 1) = b * P(k)
    BY <1>1, <2>1
  <2>3. P(m) \in Nat /\ P(k) \in Nat
    BY <1>1
  <2>4. b * (P(m) * P(k)) = P(m) * (b * P(k))
    BY <2>3
  <2> QED
    BY <2>1, <2>2, <2>4
<1> HIDE DEF Good
<1>4. Nat \subseteq Good
  BY <1>2, <1>3, SetInduction
<1> QED
  BY <1>4 DEF Good, P

LEMMA PowersGrow ==
    ASSUME NEW b \in Nat \ {0}, NEW m \in Nat, NEW n \in Nat, m <= n
    PROVE  Power(b, m) <= Power(b, n)
<1> DEFINE k == n - m
<1>0. k \in Nat /\ n = m + k
  OBVIOUS
<1> HIDE DEF k
<1>1. Power(b, m) \in Nat /\ Power(b, k) \in Nat /\ Power(b, k) > 0
  BY <1>0, PowerIs
<1>2. Power(b, n) = Power(b, m) * Power(b, k)
  BY <1>0, PowersAdd
<1>3. \A x, y \in Nat : y > 0 => x <= x * y
  OBVIOUS
<1> QED
  BY <1>1, <1>2, <1>3

LEMMA PowerOfPower ==
    ASSUME NEW d \in Nat, NEW m \in Nat
    PROVE  d * m \in Nat /\ Power(Power(2, d), m) = Power(2, d * m)
<1> DEFINE c == Power(2, d)
           Good == {k \in Nat : Power(c, k) = Power(2, d * k)}
<1>1. c \in Nat \ {0}
  BY PowerIs
<1>2. \A k \in Nat : d * k \in Nat /\ d * (k + 1) = d * k + d
  OBVIOUS
<1>3. \A k \in Nat : Power(c, k + 1) = c * Power(c, k) /\ Power(c, k) \in Nat
  BY <1>1, PowerIs
<1>4. 0 \in Good
  <2>1. d * 0 = 0
    OBVIOUS
  <2> HIDE DEF c
  <2>2. Power(c, 0) = 1 /\ Power(2, 0) = 1
    BY <1>1, PowerIs
  <2> QED
    BY <2>1, <2>2
<1>5. ASSUME NEW k \in Nat, k \in Good PROVE k + 1 \in Good
  <2>1. Power(2, d * k + d) = Power(2, d * k) * Power(2, d)
    BY <1>2, PowersAdd
  <2>2. Power(2, d * k) = Power(c, k)
    BY <1>5
  <2>3. Power(2, d * k + d) = Power(c, k + 1)
    <3>1. Power(2, d * k + d) = Power(c, k) * c
      BY <2>1, <2>2
    <3> HIDE DEF c
    <3> QED
      BY <1>1, <1>3, <3>1
  <2> QED
    BY <1>2, <2>3
<1> HIDE DEF Good
<1>6. Nat \subseteq Good
  BY <1>4, <1>5, SetInduction
<1> QED
  BY <1>2, <1>6 DEF Good

LEMMA SizesAre ==
    /\ DataBits \in Nat /\ ValueBits \in Nat /\ MaxVbcBytes \in Nat /\ SafeBits \in Nat
    /\ MaxLen \in Nat
    /\ Cont \in Nat /\ Cont > 3 /\ Base = 2 * Cont /\ Base \in Nat /\ Base > 7
    /\ U64 \in Nat /\ U64 > 127 /\ Unbounded \in Nat /\ U64 <= Unbounded
    /\ MaxLen < U64
<1>1. /\ DataBits \in Nat /\ ValueBits \in Nat /\ MaxVbcBytes \in Nat /\ SafeBits \in Nat
      /\ MaxLen \in Nat /\ DataBits > 1 /\ ValueBits > 6 /\ MaxLen < U64
      /\ MaxVbcBytes * DataBits > ValueBits
  BY SizesAssumption
<1>2. /\ Power(2, 0) = 1
      /\ \A n \in Nat : /\ Power(2, n) \in Nat /\ Power(2, n) > 0
                        /\ Power(2, n + 1) = 2 * Power(2, n)
  BY PowerIs
<1>3. /\ Power(2, 0 + 1) = 2 /\ Power(2, 1 + 1) = 4 /\ Power(2, 2 + 1) = 8
      /\ Power(2, 3 + 1) = 16 /\ Power(2, 4 + 1) = 32 /\ Power(2, 5 + 1) = 64
      /\ Power(2, 6 + 1) = 128
  BY <1>2
<1>4. Power(2, 2) = 4 /\ Power(2, 7) = 128
  BY <1>3
<1>5. Power(2, 2) <= Cont /\ Power(2, 7) <= U64
  BY <1>1, PowersGrow DEF Cont, U64
<1>6. Cont \in Nat /\ U64 \in Nat
  BY <1>1, <1>2 DEF Cont, U64
<1>7. Unbounded = Power(2, DataBits * MaxVbcBytes) /\ DataBits * MaxVbcBytes \in Nat
  BY <1>1, PowerOfPower DEF Unbounded, Cont
<1>8. ValueBits <= DataBits * MaxVbcBytes
  BY <1>1
<1>9. U64 <= Unbounded /\ Unbounded \in Nat
  BY <1>1, <1>2, <1>7, <1>8, PowersGrow DEF U64
<1>10. Base = 2 * Cont
  BY DEF Base
<1> QED
  BY <1>1, <1>4, <1>5, <1>6, <1>9, <1>10

-----------------------------------------------------------------------------
(* VBC fields: encodeUnsigned and decodeUnsigned. *)

\* The byte of the lowest digit, and what the other digits make.
Lowest(v) == Cont + (v % Cont)
Higher(v) == v \div Cont

Fields(f) == f = [v \in Nat |-> IF v < Cont THEN <<v>> ELSE <<Lowest(v)>> \o f[Higher(v)]]

LEMMA DivIs ==
    ASSUME NEW c \in Nat, c > 0, NEW v \in Nat
    PROVE  /\ v \div c \in Nat /\ v % c \in Nat /\ v % c < c
           /\ v = c * (v \div c) + (v % c)
           /\ c > 1 /\ v > 0 => v \div c < v
           /\ v >= c => v \div c > 0
           /\ v < c => v \div c = 0 /\ v % c = v
OBVIOUS

LEMMA HigherIs ==
    ASSUME NEW v \in Nat
    PROVE  /\ Higher(v) \in Nat /\ Lowest(v) \in Nat /\ Lowest(v) >= Cont
           /\ Lowest(v) < Base /\ v = (Lowest(v) % Cont) + Cont * Higher(v)
           /\ v >= Cont => Higher(v) < v /\ Higher(v) > 0
<1>1. Cont \in Nat /\ Cont > 3 /\ Base = 2 * Cont
  BY SizesAre
<1> DEFINE c == Cont
           r == v % c
           q == v \div c
<1>2. c \in Nat /\ c > 3
  BY <1>1
<1> HIDE DEF c
<1>3. q \in Nat /\ r \in Nat /\ r < c /\ v = c * q + r /\ (v > 0 => q < v) /\ (v >= c => q > 0)
  BY <1>2, DivIs
<1>4. (c + r) % c = r
  BY <1>2, <1>3
<1> QED
  BY <1>1, <1>2, <1>3, <1>4 DEF Higher, Lowest, c

LEMMA OneOf == ASSUME NEW S, NEW x \in S PROVE <<x>> \in Seq(S) /\ Len(<<x>>) = 1 /\ <<x>>[1] = x
OBVIOUS

LEMMA FieldsExist == \E f : Fields(f) /\ f \in [Nat -> Seq(Nat)]
<1> DEFINE V == Seq(Nat)
           stop == {v \in Nat : v < Cont}
           base == [v \in Nat |-> <<v>>]
           before == [v \in Nat |-> Higher(v)]
           step == [v \in Nat |-> [s \in V |-> <<Lowest(v)>> \o s]]
<1>0. Cont \in Nat /\ Cont > 3
  BY SizesAre
<1>1. \A v \in Nat : /\ Higher(v) \in Nat /\ Lowest(v) \in Nat
                     /\ v >= Cont => Higher(v) < v
  BY HigherIs
<1>2. Descends(Nat, stop, before)
  BY <1>0, <1>1 DEF Descends
<1>3. \A v \in Nat \cap stop : base[v] \in V
  OBVIOUS
<1>4. \A v \in Nat \ stop : \A s \in V : step[v][s] \in V
  <2> SUFFICES ASSUME NEW v \in Nat, NEW s \in V PROVE <<Lowest(v)>> \o s \in V
    OBVIOUS
  <2>1. <<Lowest(v)>> \in V
    BY <1>1, OneOf
  <2> QED
    BY <2>1
<1>5. \A v \in Nat : \A s \in V : base[v] = <<v>> /\ step[v][s] = <<Lowest(v)>> \o s
  OBVIOUS
<1>6. \A v \in Nat : (v \in stop <=> v < Cont) /\ before[v] = Higher(v)
  OBVIOUS
<1> HIDE DEF base, step, V, stop, before
<1>7. Grounded(Nat, V, stop, base, before, step)
  BY <1>2, <1>3, <1>4 DEF Grounded
<1>8. PICK f : Solves(f, Nat, V, stop, base, before, step)
  BY <1>7, SolutionExists DEF Solved
<1>9. f \in [Nat -> V]
  BY <1>8 DEF Solves
<1>10. \A v \in Nat : f[v] = IF v \in stop THEN base[v] ELSE step[v][f[before[v]]]
  BY <1>8 DEF Solves
<1>11. \A v \in Nat : f[Higher(v)] \in V
  BY <1>1, <1>9
<1>12. \A v \in Nat : f[v] = IF v < Cont THEN <<v>> ELSE <<Lowest(v)>> \o f[Higher(v)]
  <2> SUFFICES ASSUME NEW v \in Nat
               PROVE  f[v] = IF v < Cont THEN <<v>> ELSE <<Lowest(v)>> \o f[Higher(v)]
    OBVIOUS
  <2>1. f[v] = IF v \in stop THEN base[v] ELSE step[v][f[before[v]]]
    BY <1>10
  <2>2. (v \in stop <=> v < Cont) /\ before[v] = Higher(v) /\ base[v] = <<v>>
    BY <1>5, <1>6, <1>11
  <2>3. step[v][f[Higher(v)]] = <<Lowest(v)>> \o f[Higher(v)]
    BY <1>5, <1>11
  <2> QED
    BY <2>1, <2>2, <2>3
<1>13. f = [v \in Nat |-> f[v]]
  BY <1>9
<1>14. Fields(f)
  BY <1>12, <1>13, Zenon DEF Fields
<1> QED
  BY <1>9, <1>14 DEF V

\* Fields is a description of one function.
LEMMA FieldsAgree == ASSUME NEW f, NEW g, Fields(f), Fields(g) PROVE f = g
<1> DEFINE Bad == {v \in Nat : f[v] # g[v]}
<1>1. \A v \in Nat : /\ f[v] = IF v < Cont THEN <<v>> ELSE <<Lowest(v)>> \o f[Higher(v)]
                     /\ g[v] = IF v < Cont THEN <<v>> ELSE <<Lowest(v)>> \o g[Higher(v)]
  BY Zenon DEF Fields
<1>2. Bad = {}
  <2> SUFFICES ASSUME Bad # {} PROVE FALSE
    OBVIOUS
  <2>1. PICK v \in Bad : \A w \in Bad : v <= w
    BY SmallestExists
  <2>2. v \in Nat /\ f[v] # g[v]
    BY <2>1
  <2>3. ~(v < Cont)
    BY <1>1, <2>2
  <2>4. v >= Cont
    BY <2>2, <2>3, SizesAre
  <2>5. Higher(v) \in Nat /\ Higher(v) < v
    BY <2>2, <2>4, HigherIs
  <2>6. f[Higher(v)] = g[Higher(v)]
    BY <2>1, <2>2, <2>5
  <2>7. f[v] = <<Lowest(v)>> \o f[Higher(v)] /\ g[v] = <<Lowest(v)>> \o g[Higher(v)]
    BY <1>1, <2>2, <2>3, Zenon
  <2> QED
    BY <2>2, <2>6, <2>7
<1> QED
  BY <1>2, Zenon DEF Fields

LEMMA FieldIs ==
    \A v \in Nat :
        /\ encodeUnsigned[v] \in Seq(Nat)
        /\ v < Cont => encodeUnsigned[v] = <<v>>
        /\ v >= Cont => encodeUnsigned[v] = <<Lowest(v)>> \o encodeUnsigned[Higher(v)]
<1>1. PICK f : Fields(f) /\ f \in [Nat -> Seq(Nat)]
  BY FieldsExist
<1>2. encodeUnsigned = CHOOSE g : Fields(g)
  BY Zenon DEF encodeUnsigned, Fields, Lowest, Higher
<1>3. Fields(encodeUnsigned)
  BY <1>1, <1>2
<1>4. encodeUnsigned = f
  BY <1>1, <1>3, FieldsAgree
<1>5. \A v \in Nat : f[v] = IF v < Cont THEN <<v>> ELSE <<Lowest(v)>> \o f[Higher(v)]
  BY <1>1, Zenon DEF Fields
<1>6. \A v \in Nat : v >= Cont => ~(v < Cont)
  BY SizesAre
<1> QED
  BY <1>1, <1>4, <1>5, <1>6

\* s is part of d, from pos on.
Occurs(s, d, pos) ==
    /\ pos + Len(s) - 1 <= Len(d)
    /\ \A i \in 1 .. Len(s) : d[pos + i - 1] = s[i]

LEMMA OccursWhole == ASSUME NEW s \in Seq(Nat) PROVE Occurs(s, s, 1)
BY DEF Occurs

LEMMA OccursParts ==
    ASSUME NEW s \in Seq(Nat), NEW t \in Seq(Nat), NEW d \in Seq(Nat), NEW pos \in Nat,
           Occurs(s \o t, d, pos)
    PROVE  Occurs(s, d, pos) /\ Occurs(t, d, pos + Len(s))
<1> DEFINE u == s \o t
<1>1. /\ Len(u) = Len(s) + Len(t) /\ Len(s) \in Nat /\ Len(t) \in Nat /\ Len(d) \in Nat
      /\ \A i \in 1 .. Len(s) : u[i] = s[i]
      /\ \A i \in 1 .. Len(t) : u[Len(s) + i] = t[i]
  OBVIOUS
<1>2. pos + Len(u) - 1 <= Len(d) /\ \A i \in 1 .. Len(u) : d[pos + i - 1] = u[i]
  BY DEF Occurs
<1> HIDE DEF u
<1>3. Occurs(s, d, pos)
  <2>1. \A i \in 1 .. Len(s) : i \in 1 .. Len(u)
    BY <1>1
  <2>2. \A i \in 1 .. Len(s) : d[pos + i - 1] = s[i]
    BY <1>1, <1>2, <2>1
  <2>3. pos + Len(s) - 1 <= Len(d)
    BY <1>1, <1>2
  <2> QED
    BY <2>2, <2>3 DEF Occurs
<1>4. Occurs(t, d, pos + Len(s))
  <2>1. \A i \in 1 .. Len(t) : Len(s) + i \in 1 .. Len(u) /\ pos + (Len(s) + i) - 1 = (pos + Len(s)) + i - 1
    BY <1>1
  <2>2. ASSUME NEW i \in 1 .. Len(t) PROVE d[(pos + Len(s)) + i - 1] = t[i]
    <3>1. d[pos + (Len(s) + i) - 1] = u[Len(s) + i]
      BY <1>2, <2>1
    <3> QED
      BY <1>1, <2>1, <3>1
  <2>3. (pos + Len(s)) + Len(t) - 1 <= Len(d)
    BY <1>1, <1>2
  <2> QED
    BY <2>2, <2>3 DEF Occurs
<1> QED
  BY <1>3, <1>4

LEMMA OccursIs ==
    ASSUME NEW s \in Seq(Nat), NEW d \in Seq(Nat), NEW pos \in Nat, pos > 0, Occurs(s, d, pos)
    PROVE  SubSeq(d, pos, pos + Len(s) - 1) = s
<1> DEFINE t == SubSeq(d, pos, pos + Len(s) - 1)
           n == Len(s)
<1>1. n \in Nat /\ Len(d) \in Nat /\ pos + n - 1 <= Len(d)
  BY DEF Occurs
<1>2. t = [i \in 1 .. n |-> d[pos + i - 1]]
  <2>1. 1 .. ((pos + n - 1) - pos) + 1 = 1 .. n
    BY <1>1
  <2>2. t = [i \in 1 .. ((pos + n - 1) - pos) + 1 |-> d[i + pos - 1]]
    BY <1>1
  <2>3. \A i \in 1 .. n : i + pos - 1 = pos + i - 1
    BY <1>1
  <2> QED
    BY <2>1, <2>2, <2>3
<1>3. s = [i \in 1 .. n |-> s[i]]
  OBVIOUS
<1>4. \A i \in 1 .. n : d[pos + i - 1] = s[i]
  BY DEF Occurs
<1> QED
  BY <1>2, <1>3, <1>4

-----------------------------------------------------------------------------
(* What a field in a string spells. *)

Spellings(f, d, end) ==
    f = [k \in 0 .. end - 1 |-> IF k = 0 THEN d[end] ELSE (d[end - k] % Cont) + Cont * f[k - 1]]

LEMMA SpeltIs ==
    ASSUME NEW d \in Seq(Nat), NEW end \in 1 .. Len(d)
    PROVE  /\ Spelt(d, end)[0] = d[end]
           /\ \A k \in 1 .. end - 1 :
                  Spelt(d, end)[k] = (d[end - k] % Cont) + Cont * Spelt(d, end)[k - 1]
           /\ \A k \in 0 .. end - 1 : Spelt(d, end)[k] \in Int
<1> DEFINE K == 0 .. end - 1
           stop == {0}
           base == [k \in K |-> d[end]]
           before == [k \in K |-> k - 1]
           step == [k \in K |-> [v \in Int |-> (d[end - k] % Cont) + Cont * v]]
<1>0. Cont \in Nat /\ Cont > 0 /\ K \subseteq Nat
  BY SizesAre
<1>1. Descends(K, stop, before)
  BY DEF Descends
<1>2. \A k \in K : d[end] \in Int /\ d[end - k] \in Int
  OBVIOUS
<1>3. \A k \in K \cap stop : base[k] \in Int
  BY <1>2
<1>4. \A k \in K \ stop : \A v \in Int : step[k][v] \in Int
  <2> SUFFICES ASSUME NEW k \in K, NEW v \in Int
               PROVE  (d[end - k] % Cont) + Cont * v \in Int
    OBVIOUS
  <2>1. d[end - k] \in Int
    BY <1>2
  <2>2. d[end - k] % Cont \in Int /\ Cont * v \in Int
    BY <1>0, <2>1
  <2> QED
    BY <2>2
<1>5. \A k \in K : \A v \in Int :
          base[k] = d[end] /\ step[k][v] = (d[end - k] % Cont) + Cont * v
  OBVIOUS
<1>6. \A k \in K : (k \in stop <=> k = 0) /\ before[k] = k - 1
  OBVIOUS
<1>61. \A k \in K : k # 0 => k - 1 \in K
  OBVIOUS
<1>62. 0 \in K /\ \A k \in 1 .. end - 1 : k \in K /\ k # 0
  OBVIOUS
<1> HIDE DEF base, step, stop, before
<1>7. Grounded(K, Int, stop, base, before, step)
  BY <1>0, <1>1, <1>3, <1>4 DEF Grounded
<1>8. PICK f : Solves(f, K, Int, stop, base, before, step)
  BY <1>7, SolutionExists DEF Solved
<1>9. f \in [K -> Int] /\ \A k \in K : f[k] = IF k \in stop THEN base[k] ELSE step[k][f[before[k]]]
  BY <1>8 DEF Solves
<1> HIDE DEF K
<1>10. \A k \in K : f[k] = IF k = 0 THEN d[end] ELSE (d[end - k] % Cont) + Cont * f[k - 1]
  <2> SUFFICES ASSUME NEW k \in K
               PROVE  f[k] = IF k = 0 THEN d[end] ELSE (d[end - k] % Cont) + Cont * f[k - 1]
    OBVIOUS
  <2>1. f[k] = IF k = 0 THEN d[end] ELSE step[k][f[k - 1]]
    BY <1>5, <1>6, <1>9
  <2>2. k # 0 => step[k][f[k - 1]] = (d[end - k] % Cont) + Cont * f[k - 1]
    <3>1. k # 0 => f[k - 1] \in Int
      BY <1>61, <1>9
    <3> QED
      BY <1>5, <3>1
  <2> QED
    BY <2>1, <2>2
<1>11. f = [k \in K |-> f[k]]
  BY <1>9
<1>12. Spellings(f, d, end)
  BY <1>10, <1>11, Zenon DEF Spellings, K
<1>13. Spellings(Spelt(d, end), d, end)
  <2>1. Spelt(d, end) = CHOOSE g : Spellings(g, d, end)
    BY Zenon DEF Spelt, Spellings
  <2> QED
    BY <1>12, <2>1
<1> DEFINE g == Spelt(d, end)
<1> HIDE DEF g
<1>14. \A k \in K : g[k] = IF k = 0 THEN d[end] ELSE (d[end - k] % Cont) + Cont * g[k - 1]
  BY <1>13, Zenon DEF Spellings, K, g
<1>15. \A k \in K : g[k] \in Int
  <2> DEFINE Bad == {k \in K : g[k] \notin Int}
  <2> SUFFICES ASSUME Bad # {} PROVE FALSE
    OBVIOUS
  <2>1. PICK k \in Bad : \A j \in Bad : k <= j
    BY <1>0, SmallestExists
  <2>2. k \in K /\ k \in Nat /\ g[k] \notin Int
    BY <1>0, <2>1
  <2>3. k # 0
    BY <1>2, <1>14, <2>2
  <2>4. k - 1 \in K /\ ~(k <= k - 1)
    BY <1>61, <2>2, <2>3
  <2>5. g[k - 1] \in Int
    BY <2>1, <2>4
  <2>6. g[k] = (d[end - k] % Cont) + Cont * g[k - 1] /\ d[end - k] \in Int
    BY <1>2, <1>14, <2>2, <2>3
  <2>7. d[end - k] % Cont \in Int /\ Cont * g[k - 1] \in Int
    BY <1>0, <2>5, <2>6
  <2> QED
    BY <2>2, <2>6, <2>7
<1> QED
  BY <1>14, <1>15, <1>62 DEF g, K

LEMMA ContPowers ==
    /\ Power(Cont, 0) = 1
    /\ \A k \in Nat : /\ Power(Cont, k) \in Nat /\ Power(Cont, k) > 0
                      /\ Power(Cont, k + 1) = Cont * Power(Cont, k)
<1>1. Cont \in Nat \ {0}
  BY SizesAre
<1> QED
  BY <1>1, PowerIs

\* The field from pos up to end spells v.
Spells(d, pos, end, v) ==
    /\ end \in pos .. Len(d) /\ d[end] < Cont
    /\ \A i \in pos .. end - 1 : ~(d[i] < Cont)
    /\ Spelt(d, end)[end - pos] = v

\* Where the wallet wrote a number, the number is spelt.
LEMMA WrittenSpells ==
    ASSUME NEW d \in Seq(Nat)
    PROVE  \A v \in Nat : \A pos \in Nat \ {0} :
               Occurs(encodeUnsigned[v], d, pos) =>
                   Spells(d, pos, pos + Len(encodeUnsigned[v]) - 1, v)
<1> DEFINE Right(v) == \A pos \in Nat \ {0} :
               Occurs(encodeUnsigned[v], d, pos) =>
                   Spells(d, pos, pos + Len(encodeUnsigned[v]) - 1, v)
           Bad == {v \in Nat : ~Right(v)}
<1> SUFFICES ASSUME Bad # {} PROVE FALSE
  OBVIOUS
<1>1. PICK v \in Bad : \A w \in Bad : v <= w
  BY SmallestExists
<1>2. v \in Nat /\ ~Right(v)
  BY <1>1
<1>3. PICK pos \in Nat \ {0} : /\ Occurs(encodeUnsigned[v], d, pos)
                               /\ ~Spells(d, pos, pos + Len(encodeUnsigned[v]) - 1, v)
  BY <1>2
<1>4. Cont \in Nat /\ Cont > 3
  BY SizesAre
<1>5. CASE v < Cont
  <2>1. encodeUnsigned[v] = <<v>>
    BY <1>2, <1>5, FieldIs
  <2>2. pos <= Len(d) /\ d[pos] = v
    <3>1. Len(<<v>>) = 1 /\ <<v>>[1] = v
      OBVIOUS
    <3>2. pos + 1 - 1 <= Len(d) /\ d[pos + 1 - 1] = v
      BY <1>3, <2>1, <3>1 DEF Occurs
    <3> QED
      BY <3>2
  <2>3. pos \in 1 .. Len(d) /\ pos - pos = 0 /\ pos \in pos .. Len(d)
    BY <2>2
  <2>4. Spelt(d, pos)[pos - pos] = v
    BY <2>2, <2>3, SpeltIs
  <2>5. \A i \in pos .. pos - 1 : ~(d[i] < Cont)
    OBVIOUS
  <2>6. Spells(d, pos, pos, v)
    BY <1>5, <2>2, <2>3, <2>4, <2>5 DEF Spells
  <2>7. pos + Len(encodeUnsigned[v]) - 1 = pos
    BY <2>1
  <2> QED
    BY <1>3, <2>6, <2>7
<1>6. CASE v >= Cont
  <2> DEFINE h == Higher(v)
             b == Lowest(v)
             s == encodeUnsigned[h]
             end == (pos + 1) + Len(s) - 1
  <2>1. /\ h \in Nat /\ h < v /\ b \in Nat /\ b >= Cont /\ v = (b % Cont) + Cont * h
    BY <1>2, <1>6, HigherIs
  <2>2. encodeUnsigned[v] = <<b>> \o s /\ s \in Seq(Nat)
    BY <1>2, <1>6, <2>1, FieldIs
  <2> HIDE DEF h, b, s
  <2>3. s \in Seq(Nat) /\ <<b>> \in Seq(Nat) /\ Len(<<b>>) = 1 /\ <<b>>[1] = b
        /\ Len(s) \in Nat
    BY <2>1, <2>2
  <2>4. Occurs(<<b>>, d, pos) /\ Occurs(s, d, pos + 1)
    BY <1>3, <2>2, <2>3, OccursParts
  <2>5. d[pos] = b /\ pos <= Len(d)
    <3>1. pos + 1 - 1 <= Len(d) /\ d[pos + 1 - 1] = b
      BY <2>3, <2>4 DEF Occurs
    <3> QED
      BY <3>1
  <2>6. h \notin Bad
    <3>1. ~(v <= h)
      BY <1>2, <2>1
    <3> HIDE DEF Bad
    <3> QED
      BY <1>1, <3>1
  <2>61. Right(h)
    BY <2>1, <2>6
  <2>7. Spells(d, pos + 1, end, h)
    <3>1. pos + 1 \in Nat \ {0}
      OBVIOUS
    <3>2. Occurs(encodeUnsigned[h], d, pos + 1) =>
              Spells(d, pos + 1, (pos + 1) + Len(encodeUnsigned[h]) - 1, h)
      BY <2>61, <3>1
    <3> QED
      BY <2>4, <3>2 DEF s
  <2>8. Len(encodeUnsigned[v]) = 1 + Len(s)
    BY <2>2, <2>3
  <2>9. end = pos + Len(encodeUnsigned[v]) - 1 /\ end \in Int
    BY <2>3, <2>8
  <2> HIDE DEF end
  <2>10. /\ end \in pos + 1 .. Len(d) /\ d[end] < Cont
         /\ \A i \in pos + 1 .. end - 1 : ~(d[i] < Cont)
         /\ Spelt(d, end)[end - (pos + 1)] = h
    BY <2>7 DEF Spells
  <2>11. end \in pos .. Len(d) /\ end \in 1 .. Len(d)
    BY <2>10
  <2>12. \A i \in pos .. end - 1 : ~(d[i] < Cont)
    <3>1. \A i \in pos .. end - 1 : i = pos \/ i \in pos + 1 .. end - 1
      BY <2>10
    <3>2. ~(d[pos] < Cont)
      BY <1>4, <2>1, <2>5
    <3> QED
      BY <2>10, <3>1, <3>2
  <2>13. Spelt(d, end)[end - pos] = v
    <3> DEFINE k == end - pos
    <3>1. k \in 1 .. end - 1 /\ end - k = pos /\ k - 1 = end - (pos + 1)
      BY <2>10
    <3> HIDE DEF k
    <3>2. Spelt(d, end)[k] = (d[end - k] % Cont) + Cont * Spelt(d, end)[k - 1]
      BY <2>11, <3>1, SpeltIs
    <3> QED
      BY <2>1, <2>5, <2>10, <3>1, <3>2 DEF k
  <2>14. Spells(d, pos, end, v)
    BY <2>10, <2>11, <2>12, <2>13 DEF Spells
  <2> QED
    BY <1>3, <2>9, <2>14
<1> QED
  BY <1>2, <1>4, <1>5, <1>6

\* A number below the k-th power of the digits has no more than k.
LEMMA FieldShort ==
    \A k \in Nat : \A v \in Nat :
        /\ Len(encodeUnsigned[v]) \in Nat /\ Len(encodeUnsigned[v]) >= 1
        /\ v < Power(Cont, k + 1) => Len(encodeUnsigned[v]) <= k + 1
<1> DEFINE L(v) == Len(encodeUnsigned[v])
           Good == {k \in Nat : \A v \in Nat : v < Power(Cont, k + 1) => L(v) <= k + 1}
<1>1. Cont \in Nat /\ Cont > 3
  BY SizesAre
<1>2. \A v \in Nat : /\ L(v) \in Nat /\ L(v) >= 1 /\ (v < Cont => L(v) = 1)
                     /\ v >= Cont => L(v) = 1 + L(Higher(v))
  <2> SUFFICES ASSUME NEW v \in Nat
               PROVE  /\ L(v) \in Nat /\ L(v) >= 1 /\ (v < Cont => L(v) = 1)
                      /\ v >= Cont => L(v) = 1 + L(Higher(v))
    OBVIOUS
  <2>1. CASE v < Cont
    <3>1. encodeUnsigned[v] = <<v>>
      BY <2>1, FieldIs
    <3>2. L(v) = 1
      BY <3>1
    <3>3. ~(v >= Cont)
      BY <1>1, <2>1
    <3> QED
      BY <3>2, <3>3
  <2>2. CASE v >= Cont
    <3> DEFINE s == encodeUnsigned[Higher(v)]
    <3>1. encodeUnsigned[v] = <<Lowest(v)>> \o s /\ s \in Seq(Nat) /\ Lowest(v) \in Nat
      BY <2>2, FieldIs, HigherIs
    <3> HIDE DEF s
    <3>2. L(v) = 1 + Len(s) /\ Len(s) \in Nat
      BY <3>1
    <3> QED
      BY <1>1, <2>2, <3>2 DEF s
  <2> QED
    BY <1>1, <2>1, <2>2
<1> HIDE DEF L
<1>3. 0 \in Good
  <2>1. Power(Cont, 0 + 1) = Cont * 1
    BY <1>1, PowerIs
  <2> QED
    BY <1>1, <1>2, <2>1
<1>4. ASSUME NEW k \in Nat, k \in Good PROVE k + 1 \in Good
  <2> SUFFICES ASSUME NEW v \in Nat, v < Power(Cont, (k + 1) + 1) PROVE L(v) <= (k + 1) + 1
    OBVIOUS
  <2> DEFINE p == Power(Cont, k + 1)
             h == Higher(v)
  <2>1. p \in Nat /\ Power(Cont, (k + 1) + 1) = Cont * p
    <3> DEFINE j == k + 1
    <3>1. j \in Nat
      OBVIOUS
    <3> HIDE DEF j
    <3>2. Power(Cont, j) \in Nat /\ Power(Cont, j + 1) = Cont * Power(Cont, j)
      BY <3>1, ContPowers
    <3> QED
      BY <3>2 DEF j
  <2>2. h \in Nat /\ Lowest(v) % Cont \in Nat /\ v = (Lowest(v) % Cont) + Cont * h
    <3>1. Lowest(v) \in Nat
      BY HigherIs
    <3>2. Lowest(v) % Cont \in Nat
      BY <1>1, <3>1
    <3> QED
      BY <3>2, HigherIs
  <2> HIDE DEF p, h
  <2>3. h < p
    <3> SUFFICES ASSUME p <= h PROVE FALSE
      BY <2>1, <2>2
    <3>1. Cont * p <= Cont * h
      BY <1>1, <2>1, <2>2
    <3>2. Cont * p \in Nat /\ Cont * h \in Nat
      BY <1>1, <2>1, <2>2
    <3> QED
      BY <2>1, <2>2, <3>1, <3>2
  <2>4. L(h) <= k + 1
    BY <1>4, <2>2, <2>3 DEF p
  <2> QED
    BY <1>1, <1>2, <2>2, <2>4 DEF h
<1> HIDE DEF Good
<1>5. Nat \subseteq Good
  BY <1>3, <1>4, SetInduction
<1> QED
  BY <1>2, <1>5 DEF Good, L

\* The field that starts at pos.
Ends(d, pos) == {i \in pos .. Len(d) : d[i] < Cont}
EndOf(d, pos) == CHOOSE i \in Ends(d, pos) : \A j \in Ends(d, pos) : i <= j

LEMMA DecodeIs ==
    ASSUME NEW d, NEW pos, NEW limit
    PROVE  decodeUnsigned(d, pos, limit) =
               IF \/ Ends(d, pos) = {} \/ EndOf(d, pos) - pos + 1 > MaxVbcBytes
                  \/ Spelt(d, EndOf(d, pos))[EndOf(d, pos) - pos] >= limit
               THEN Refused
               ELSE [value |-> Spelt(d, EndOf(d, pos))[EndOf(d, pos) - pos],
                     used |-> EndOf(d, pos) - pos + 1]
BY Zenon DEF decodeUnsigned, Ends, EndOf

LEMMA EndIs ==
    ASSUME NEW d \in Seq(Nat), NEW pos \in Nat, NEW end, NEW v, Spells(d, pos, end, v)
    PROVE  Ends(d, pos) # {} /\ EndOf(d, pos) = end
<1>1. /\ end \in pos .. Len(d) /\ d[end] < Cont
      /\ \A i \in pos .. end - 1 : ~(d[i] < Cont)
  BY DEF Spells
<1>2. end \in Ends(d, pos)
  BY <1>1 DEF Ends
<1>3. \A j \in Ends(d, pos) : end <= j
  <2> SUFFICES ASSUME NEW j \in pos .. Len(d), d[j] < Cont PROVE end <= j
    BY DEF Ends
  <2>1. j \notin pos .. end - 1
    BY <1>1
  <2> QED
    BY <1>1, <2>1
<1>4. \A i \in Ends(d, pos) : i \in Int
  BY DEF Ends
<1>5. \A i \in Ends(d, pos) : (\A j \in Ends(d, pos) : i <= j) => i = end
  BY <1>1, <1>2, <1>3, <1>4
<1>6. EndOf(d, pos) = end
  BY <1>2, <1>3, <1>5 DEF EndOf
<1> QED
  BY <1>2, <1>6

\* What is written is read.
LEMMA WrittenIsRead ==
    ASSUME NEW d \in Seq(Nat), NEW pos \in Nat, pos > 0, NEW limit \in Nat, limit <= Unbounded,
           NEW v \in Nat, v < limit, Occurs(encodeUnsigned[v], d, pos)
    PROVE  decodeUnsigned(d, pos, limit) =
               [value |-> v, used |-> Len(encodeUnsigned[v])]
<1> DEFINE n == Len(encodeUnsigned[v])
           end == pos + n - 1
<1>1. n \in Nat /\ n >= 1
  BY FieldShort
<1>2. MaxVbcBytes \in Nat /\ MaxVbcBytes >= 1 /\ Unbounded \in Nat
  <2>1. MaxVbcBytes \in Nat /\ DataBits \in Nat /\ ValueBits \in Nat /\ Unbounded \in Nat
    BY SizesAre
  <2>2. MaxVbcBytes * DataBits > ValueBits
    BY SizesAssumption
  <2> QED
    BY <2>1, <2>2
<1>3. n <= MaxVbcBytes
  <2> DEFINE k == MaxVbcBytes - 1
  <2>1. k \in Nat /\ k + 1 = MaxVbcBytes
    BY <1>2
  <2> HIDE DEF k
  <2>2. v < Power(Cont, k + 1)
    BY <1>2, <2>1 DEF Unbounded
  <2> QED
    BY <2>1, <2>2, FieldShort
<1>4. pos \in Nat \ {0}
  OBVIOUS
<1> HIDE DEF n
<1>5. Spells(d, pos, end, v)
  BY <1>4, WrittenSpells DEF n
<1> HIDE DEF end
<1>6. Ends(d, pos) # {} /\ EndOf(d, pos) = end
  BY <1>5, EndIs
<1>7. end - pos + 1 = n
  BY <1>1 DEF end
<1>8. Spelt(d, end)[end - pos] = v
  BY <1>5 DEF Spells
<1> QED
  BY <1>1, <1>2, <1>3, <1>6, <1>7, <1>8, DecodeIs DEF n

\* Whatever is read is in range, and is written in no more bytes.
LEMMA ReadIsWritten ==
    ASSUME NEW d \in Seq(Nat), NEW pos \in Nat, pos > 0, NEW limit \in Nat,
           decodeUnsigned(d, pos, limit) # Refused
    PROVE  LET r == decodeUnsigned(d, pos, limit)
           IN /\ r.value \in Nat /\ r.value < limit
              /\ r.used \in Nat /\ r.used >= 1 /\ pos + r.used - 1 <= Len(d)
              /\ Len(encodeUnsigned[r.value]) <= r.used
              /\ \A other \in Nat : limit <= other => decodeUnsigned(d, pos, other) = r
<1> DEFINE end == EndOf(d, pos)
           v == Spelt(d, end)[end - pos]
           used == end - pos + 1
           r == decodeUnsigned(d, pos, limit)
<1>1. /\ Ends(d, pos) # {} /\ ~(used > MaxVbcBytes) /\ ~(v >= limit)
      /\ r = [value |-> v, used |-> used]
  BY DecodeIs
<1>2. Ends(d, pos) \in SUBSET Nat
  BY DEF Ends
<1>3. end \in Ends(d, pos)
  <2>1. \E i \in Ends(d, pos) : \A j \in Ends(d, pos) : i <= j
    BY <1>1, <1>2, SmallestExists
  <2> QED
    BY <2>1 DEF EndOf
<1>4. end \in pos .. Len(d) /\ end \in 1 .. Len(d) /\ d[end] < Cont
  BY <1>3 DEF Ends
<1>5. Cont \in Nat /\ Cont > 3 /\ Base \in Nat
  BY SizesAre
<1>6. d \in Seq(Nat) /\ \A i \in 1 .. Len(d) : d[i] \in Nat
  BY <1>5 DEF Byte
<1> HIDE DEF end
<1>7. \A k \in Nat : k < end => /\ Spelt(d, end)[k] \in Nat
                                /\ Spelt(d, end)[k] < Power(Cont, k + 1)
  <2> DEFINE S == Spelt(d, end)
             Good == {k \in Nat : k < end => S[k] \in Nat /\ S[k] < Power(Cont, k + 1)}
  <2>1. /\ S[0] = d[end]
        /\ \A k \in 1 .. end - 1 : S[k] = (d[end - k] % Cont) + Cont * S[k - 1]
    BY <1>4, <1>6, SpeltIs
  <2> HIDE DEF S
  <2>2. /\ Power(Cont, 0) = 1
        /\ \A k \in Nat : /\ Power(Cont, k) \in Nat
                           /\ Power(Cont, k + 1) = Cont * Power(Cont, k)
    BY ContPowers
  <2>3. 0 \in Good
    <3>1. d[end] \in Nat /\ Power(Cont, 0 + 1) = Cont
      BY <1>4, <1>5, <1>6, <2>2
    <3> QED
      BY <1>4, <2>1, <3>1
  <2>4. ASSUME NEW k \in Nat, k \in Good PROVE k + 1 \in Good
    <3> SUFFICES ASSUME k + 1 < end
                 PROVE  S[k + 1] \in Nat /\ S[k + 1] < Power(Cont, (k + 1) + 1)
      OBVIOUS
    <3> DEFINE j == k + 1
               low == d[end - j] % Cont
               p == Power(Cont, j)
               s == S[k]
    <3>1. j \in 1 .. end - 1 /\ j - 1 = k /\ end - j \in 1 .. Len(d)
      BY <1>4
    <3>2. low \in Nat /\ low < Cont
      <4>1. d[end - j] \in Nat
        BY <1>6, <3>1
      <4> HIDE DEF j
      <4> QED
        BY <1>5, <4>1
    <3>3. s \in Nat /\ s < p
      <4>1. k < end
        BY <1>4
      <4> QED
        BY <2>4, <4>1
    <3>4. S[j] = low + Cont * s
      BY <2>1, <3>1
    <3>5. Power(Cont, j + 1) = Cont * p /\ p \in Nat
      BY <2>2, <3>1
    <3> HIDE DEF low, p, s, j
    <3>6. Cont * s + Cont <= Cont * p /\ Cont * s \in Nat /\ Cont * p \in Nat
      <4>1. s + 1 <= p
        BY <3>3, <3>5
      <4>2. Cont * (s + 1) <= Cont * p
        BY <1>5, <3>3, <3>5, <4>1
      <4> QED
        BY <1>5, <3>3, <3>5, <4>2
    <3> QED
      BY <1>5, <3>2, <3>4, <3>5, <3>6 DEF j
  <2> HIDE DEF Good
  <2>5. Nat \subseteq Good
    BY <2>3, <2>4, SetInduction
  <2> QED
    BY <2>5 DEF Good, S
<1>8. used \in Nat /\ used >= 1 /\ used <= end /\ pos + used - 1 = end
  BY <1>4
<1>9. v \in Nat /\ v < Power(Cont, used)
  <2> DEFINE k == end - pos
  <2>1. k \in Nat /\ k < end /\ k + 1 = used
    BY <1>4
  <2> HIDE DEF k
  <2>2. Spelt(d, end)[k] \in Nat /\ Spelt(d, end)[k] < Power(Cont, k + 1)
    BY <1>7, <2>1
  <2> QED
    BY <2>1, <2>2 DEF k
<1>10. Len(encodeUnsigned[v]) <= used
  <2> DEFINE k == used - 1
  <2>1. k \in Nat /\ k + 1 = used
    BY <1>8
  <2> HIDE DEF k, v
  <2>2. v < Power(Cont, k + 1)
    BY <1>9, <2>1
  <2>3. Len(encodeUnsigned[v]) <= k + 1
    BY <1>9, <2>1, <2>2, FieldShort
  <2> QED
    BY <2>1, <2>3
<1>11. \A other \in Nat : limit <= other => decodeUnsigned(d, pos, other) = r
  <2> SUFFICES ASSUME NEW other \in Nat, limit <= other PROVE decodeUnsigned(d, pos, other) = r
    OBVIOUS
  <2> HIDE DEF v, used, r
  <2>1. ~(v >= other)
    BY <1>1, <1>9
  <2> QED
    BY <1>1, <2>1, DecodeIs DEF v, used, end
<1>12. v < limit
  BY <1>1, <1>9
<1> HIDE DEF v, used, r
<1>13. r.value = v /\ r.used = used
  BY <1>1
<1> QED
  BY <1>4, <1>8, <1>9, <1>10, <1>11, <1>12, <1>13 DEF r

-----------------------------------------------------------------------------
(* Big integers: magnitudes and their digits. *)

LEMMA BasePowers ==
    /\ Power(Base, 0) = 1
    /\ \A k \in Nat : /\ Power(Base, k) \in Nat /\ Power(Base, k) > 0
                      /\ Power(Base, k + 1) = Base * Power(Base, k)
<1>1. Base \in Nat \ {0}
  BY SizesAre
<1> QED
  BY <1>1, PowerIs

LEMMA ByteIs == \A b : b \in Byte <=> b \in Nat /\ b < Base
BY SizesAre DEF Byte

Mags(f, s) == f = [k \in 0 .. Len(s) |-> IF k = 0 THEN 0 ELSE f[k - 1] * Base + s[k]]

LEMMA MagsExist ==
    ASSUME NEW s \in Seq(Nat)
    PROVE  \E f : Mags(f, s) /\ f \in [0 .. Len(s) -> Nat]
<1> DEFINE K == 0 .. Len(s)
           stop == {0}
           base == [k \in K |-> 0]
           before == [k \in K |-> k - 1]
           step == [k \in K |-> [v \in Nat |-> v * Base + s[k]]]
<1>0. Base \in Nat /\ K \subseteq Nat
  BY SizesAre
<1>1. Descends(K, stop, before)
  BY DEF Descends
<1>2. \A k \in K : k # 0 => s[k] \in Nat /\ k - 1 \in K
  OBVIOUS
<1>3. \A k \in K \cap stop : base[k] \in Nat
  OBVIOUS
<1>4. \A k \in K \ stop : \A v \in Nat : step[k][v] \in Nat
  <2> SUFFICES ASSUME NEW k \in K, k # 0, NEW v \in Nat PROVE v * Base + s[k] \in Nat
    OBVIOUS
  <2>1. v * Base \in Nat /\ s[k] \in Nat
    BY <1>0, <1>2
  <2> QED
    BY <2>1
<1>5. \A k \in K : \A v \in Nat : base[k] = 0 /\ step[k][v] = v * Base + s[k]
  OBVIOUS
<1>6. \A k \in K : (k \in stop <=> k = 0) /\ before[k] = k - 1
  OBVIOUS
<1> HIDE DEF base, step, stop, before, K
<1>7. Grounded(K, Nat, stop, base, before, step)
  BY <1>0, <1>1, <1>3, <1>4 DEF Grounded
<1>8. PICK f : Solves(f, K, Nat, stop, base, before, step)
  BY <1>7, SolutionExists DEF Solved
<1>9. f \in [K -> Nat] /\ \A k \in K : f[k] = IF k \in stop THEN base[k] ELSE step[k][f[before[k]]]
  BY <1>8 DEF Solves
<1>10. \A k \in K : f[k] = IF k = 0 THEN 0 ELSE f[k - 1] * Base + s[k]
  <2> SUFFICES ASSUME NEW k \in K PROVE f[k] = IF k = 0 THEN 0 ELSE f[k - 1] * Base + s[k]
    OBVIOUS
  <2>1. f[k] = IF k = 0 THEN 0 ELSE step[k][f[k - 1]]
    BY <1>5, <1>6, <1>9
  <2>2. k # 0 => step[k][f[k - 1]] = f[k - 1] * Base + s[k]
    <3>1. k # 0 => f[k - 1] \in Nat
      BY <1>2, <1>9
    <3> QED
      BY <1>5, <3>1
  <2> QED
    BY <2>1, <2>2
<1>11. f = [k \in K |-> f[k]]
  BY <1>9
<1>12. Mags(f, s)
  BY <1>10, <1>11, Zenon DEF Mags, K
<1> QED
  BY <1>9, <1>12 DEF K

LEMMA MagsOfPrefix ==
    ASSUME NEW s \in Seq(Nat), NEW t \in Seq(Nat), NEW f, NEW g, Mags(f, s), Mags(g, t),
           Len(s) <= Len(t), \A i \in 1 .. Len(s) : s[i] = t[i]
    PROVE  \A k \in 0 .. Len(s) : f[k] = g[k]
<1> DEFINE Good == {k \in Nat : k <= Len(s) => f[k] = g[k]}
<1>0. Len(s) \in Nat /\ Len(t) \in Nat
  OBVIOUS
<1>1. \A k \in 0 .. Len(s) : f[k] = IF k = 0 THEN 0 ELSE f[k - 1] * Base + s[k]
  BY Zenon DEF Mags
<1>2. \A k \in 0 .. Len(t) : g[k] = IF k = 0 THEN 0 ELSE g[k - 1] * Base + t[k]
  BY Zenon DEF Mags
<1>3. 0 \in Good
  BY <1>0, <1>1, <1>2
<1>4. ASSUME NEW k \in Nat, k \in Good PROVE k + 1 \in Good
  <2> SUFFICES ASSUME k + 1 <= Len(s) PROVE f[k + 1] = g[k + 1]
    OBVIOUS
  <2>1. k + 1 \in 0 .. Len(s) /\ k + 1 \in 0 .. Len(t) /\ k + 1 # 0 /\ (k + 1) - 1 = k
        /\ k <= Len(s) /\ s[k + 1] = t[k + 1]
    BY <1>0
  <2>2. f[k + 1] = f[k] * Base + s[k + 1]
    BY <1>1, <2>1
  <2>3. g[k + 1] = g[k] * Base + t[k + 1]
    BY <1>2, <2>1
  <2>4. f[k] = g[k]
    BY <1>4, <2>1
  <2> QED
    BY <2>1, <2>2, <2>3, <2>4
<1> HIDE DEF Good
<1>5. Nat \subseteq Good
  BY <1>3, <1>4, SetInduction
<1> QED
  BY <1>0, <1>5 DEF Good

LEMMA MagnitudeOf ==
    ASSUME NEW s \in Seq(Nat)
    PROVE  \E f : Mags(f, s) /\ f \in [0 .. Len(s) -> Nat] /\ Magnitude(s) = f[Len(s)]
<1> DEFINE g == CHOOSE f : Mags(f, s)
<1>1. PICK f : Mags(f, s) /\ f \in [0 .. Len(s) -> Nat]
  BY MagsExist
<1>2. Mags(g, s)
  BY <1>1
<1>3. Magnitude(s) = g[Len(s)]
  BY Zenon DEF Magnitude, Mags
<1> HIDE DEF g
<1>4. \A k \in 0 .. Len(s) : f[k] = g[k]
  BY <1>1, <1>2, MagsOfPrefix
<1>5. Len(s) \in 0 .. Len(s)
  OBVIOUS
<1> QED
  BY <1>1, <1>3, <1>4, <1>5

LEMMA MagnitudeTyped == ASSUME NEW s \in Seq(Nat) PROVE Magnitude(s) \in Nat
<1>1. PICK f : Mags(f, s) /\ f \in [0 .. Len(s) -> Nat] /\ Magnitude(s) = f[Len(s)]
  BY MagnitudeOf
<1>2. Len(s) \in 0 .. Len(s)
  OBVIOUS
<1> QED
  BY <1>1, <1>2

LEMMA MagnitudeEmpty == Magnitude(<<>>) = 0
<1>1. <<>> \in Seq(Nat) /\ Len(<<>>) = 0
  OBVIOUS
<1>2. PICK f : Mags(f, <<>>) /\ Magnitude(<<>>) = f[Len(<<>>)]
  BY <1>1, MagnitudeOf
<1>3. \A k \in 0 .. Len(<<>>) : f[k] = IF k = 0 THEN 0 ELSE f[k - 1] * Base + <<>>[k]
  BY <1>2, Zenon DEF Mags
<1>4. 0 \in 0 .. Len(<<>>)
  BY <1>1
<1>5. f[0] = 0
  BY <1>3, <1>4
<1> QED
  BY <1>1, <1>2, <1>5

LEMMA MagnitudeAppend ==
    ASSUME NEW s \in Seq(Nat), NEW b \in Nat
    PROVE  Magnitude(Append(s, b)) = Magnitude(s) * Base + b
<1> DEFINE t == Append(s, b)
           n == Len(s)
<1>1. /\ t \in Seq(Nat) /\ Len(t) = n + 1 /\ n \in Nat /\ t[n + 1] = b
      /\ \A i \in 1 .. Len(s) : s[i] = t[i]
  OBVIOUS
<1> HIDE DEF t
<1>2. PICK f : Mags(f, s) /\ Magnitude(s) = f[Len(s)]
  BY MagnitudeOf
<1>3. PICK g : Mags(g, t) /\ Magnitude(t) = g[Len(t)]
  BY <1>1, MagnitudeOf
<1>4. Len(s) <= Len(t)
  BY <1>1
<1>5. \A k \in 0 .. Len(s) : f[k] = g[k]
  BY <1>1, <1>2, <1>3, <1>4, MagsOfPrefix
<1>6. \A k \in 0 .. Len(t) : g[k] = IF k = 0 THEN 0 ELSE g[k - 1] * Base + t[k]
  BY <1>3, Zenon DEF Mags
<1>7. n + 1 \in 0 .. Len(t) /\ n + 1 # 0 /\ (n + 1) - 1 = n /\ n \in 0 .. Len(s)
  BY <1>1
<1>8. g[n + 1] = g[n] * Base + t[n + 1]
  BY <1>6, <1>7
<1>9. Magnitude(t) = g[n + 1]
  BY <1>1, <1>3
<1>10. g[n] = Magnitude(s)
  BY <1>2, <1>5, <1>7
<1> QED
  BY <1>1, <1>8, <1>9, <1>10 DEF t

LEMMA AppendedIs ==
    ASSUME NEW S, NEW k \in Nat, NEW s \in Seq(S), Len(s) = k + 1
    PROVE  /\ SubSeq(s, 1, k) \in Seq(S) /\ Len(SubSeq(s, 1, k)) = k /\ s[k + 1] \in S
           /\ s = Append(SubSeq(s, 1, k), s[k + 1])
           /\ \A i \in 1 .. k : SubSeq(s, 1, k)[i] = s[i]
<1> DEFINE t == SubSeq(s, 1, k)
<1>1. t \in Seq(S) /\ Len(t) = k /\ s[k + 1] \in S /\ \A i \in 1 .. k : t[i] = s[i]
  OBVIOUS
<1> HIDE DEF t
<1>2. Append(t, s[k + 1]) = s
  <2>1. /\ Append(t, s[k + 1]) \in Seq(S) /\ Len(Append(t, s[k + 1])) = k + 1
        /\ \A i \in 1 .. k + 1 : Append(t, s[k + 1])[i] = IF i <= k THEN t[i] ELSE s[k + 1]
    BY <1>1
  <2> QED
    BY <1>1, <2>1
<1> QED
  BY <1>1, <1>2 DEF t

\* A magnitude of n bytes is below Base to the n-th.
LEMMA MagnitudeBelow ==
    ASSUME NEW s \in Seq(Byte)
    PROVE  Magnitude(s) \in Nat /\ Magnitude(s) < Power(Base, Len(s))
<1> DEFINE Good == {k \in Nat : \A x \in Seq(Byte) : Len(x) = k => Magnitude(x) < Power(Base, k)}
<1>0. Base \in Nat /\ \A x \in Seq(Byte) : x \in Seq(Nat)
  BY SizesAre DEF Byte
<1>1. 0 \in Good
  <2> SUFFICES ASSUME NEW x \in Seq(Byte), Len(x) = 0 PROVE Magnitude(x) < Power(Base, 0)
    OBVIOUS
  <2>1. x = <<>>
    OBVIOUS
  <2> QED
    BY <2>1, MagnitudeEmpty, BasePowers
<1>2. ASSUME NEW k \in Nat, k \in Good PROVE k + 1 \in Good
  <2> SUFFICES ASSUME NEW x \in Seq(Byte), Len(x) = k + 1
               PROVE  Magnitude(x) < Power(Base, k + 1)
    OBVIOUS
  <2> DEFINE t == SubSeq(x, 1, k)
             b == x[k + 1]
             m == Magnitude(t)
             p == Power(Base, k)
  <2>1. t \in Seq(Byte) /\ Len(t) = k /\ b \in Byte /\ x = Append(t, b)
    BY AppendedIs
  <2> HIDE DEF t, b
  <2>2. b \in Nat /\ b < Base
    BY <2>1, ByteIs
  <2>3. Magnitude(x) = m * Base + b
    BY <1>0, <2>1, <2>2, MagnitudeAppend
  <2>4. m \in Nat
    BY <1>0, <2>1, MagnitudeTyped
  <2>5. m < p
    BY <1>2, <2>1
  <2>6. p \in Nat /\ Power(Base, k + 1) = Base * p
    BY BasePowers
  <2> HIDE DEF m, p
  <2>7. (m + 1) * Base <= p * Base /\ m * Base \in Nat /\ (m + 1) * Base = m * Base + Base
    BY <1>0, <2>4, <2>5, <2>6
  <2>8. p * Base = Base * p
    BY <1>0, <2>6
  <2> QED
    BY <1>0, <2>2, <2>3, <2>6, <2>7, <2>8
<1> HIDE DEF Good
<1>3. Nat \subseteq Good
  BY <1>1, <1>2, SetInduction
<1>4. Len(s) \in Nat
  OBVIOUS
<1>5. Magnitude(s) < Power(Base, Len(s))
  BY <1>3, <1>4 DEF Good
<1>6. Magnitude(s) \in Nat
  BY <1>0, MagnitudeTyped
<1> QED
  BY <1>5, <1>6

LEMMA MagnitudeJoins ==
    ASSUME NEW s \in Seq(Nat), NEW t \in Seq(Nat)
    PROVE  Magnitude(s \o t) = Magnitude(s) * Power(Base, Len(t)) + Magnitude(t)
<1> DEFINE Good == {k \in Nat : \A x \in Seq(Nat) : Len(x) = k =>
                       Magnitude(s \o x) = Magnitude(s) * Power(Base, k) + Magnitude(x)}
<1>0. Base \in Nat /\ Magnitude(s) \in Nat
  BY SizesAre, MagnitudeTyped
<1>1. 0 \in Good
  <2> SUFFICES ASSUME NEW x \in Seq(Nat), Len(x) = 0
               PROVE  Magnitude(s \o x) = Magnitude(s) * Power(Base, 0) + Magnitude(x)
    OBVIOUS
  <2>1. x = <<>> /\ s \o x = s
    OBVIOUS
  <2> QED
    BY <1>0, <2>1, MagnitudeEmpty, BasePowers
<1>2. ASSUME NEW k \in Nat, k \in Good PROVE k + 1 \in Good
  <2> SUFFICES ASSUME NEW x \in Seq(Nat), Len(x) = k + 1
               PROVE  Magnitude(s \o x) = Magnitude(s) * Power(Base, k + 1) + Magnitude(x)
    OBVIOUS
  <2> DEFINE y == SubSeq(x, 1, k)
             b == x[k + 1]
             m == Magnitude(s)
             n == Magnitude(y)
             p == Power(Base, k)
  <2>1. y \in Seq(Nat) /\ Len(y) = k /\ b \in Nat /\ x = Append(y, b)
    BY AppendedIs
  <2> HIDE DEF y, b
  <2>2. s \o x = Append(s \o y, b) /\ s \o y \in Seq(Nat)
    BY <2>1
  <2>3. Magnitude(x) = n * Base + b
    BY <2>1, MagnitudeAppend
  <2>4. Magnitude(s \o x) = Magnitude(s \o y) * Base + b
    BY <2>1, <2>2, MagnitudeAppend
  <2>5. Magnitude(s \o y) = m * p + n
    BY <1>2, <2>1
  <2>6. p \in Nat /\ Power(Base, k + 1) = Base * p
    BY BasePowers
  <2>7. n \in Nat /\ m \in Nat
    BY <2>1, MagnitudeTyped
  <2> HIDE DEF m, n, p
  <2>8. (m * p + n) * Base = m * (Base * p) + n * Base
    BY <1>0, <2>6, <2>7
  <2>9. m * (Base * p) \in Nat /\ n * Base \in Nat
    BY <1>0, <2>6, <2>7
  <2> QED
    BY <2>1, <2>3, <2>4, <2>5, <2>6, <2>8, <2>9 DEF m
<1> HIDE DEF Good
<1>3. Nat \subseteq Good
  BY <1>1, <1>2, SetInduction
<1>4. Len(t) \in Nat
  OBVIOUS
<1> QED
  BY <1>3, <1>4 DEF Good

\* Two magnitudes of n bytes are the same number only when they are the same bytes.
LEMMA MagnitudesApart ==
    ASSUME NEW s \in Seq(Byte), NEW t \in Seq(Byte), Len(s) = Len(t),
           Magnitude(s) = Magnitude(t)
    PROVE  s = t
<1> DEFINE Good == {k \in Nat : \A x, y \in Seq(Byte) :
               Len(x) = k /\ Len(y) = k /\ Magnitude(x) = Magnitude(y) => x = y}
<1>0. Base \in Nat /\ Base > 7 /\ \A x \in Seq(Byte) : x \in Seq(Nat)
  BY SizesAre DEF Byte
<1>1. 0 \in Good
  OBVIOUS
<1>2. ASSUME NEW k \in Nat, k \in Good PROVE k + 1 \in Good
  <2> SUFFICES ASSUME NEW x \in Seq(Byte), NEW y \in Seq(Byte), Len(x) = k + 1,
                      Len(y) = k + 1, Magnitude(x) = Magnitude(y)
               PROVE  x = y
    OBVIOUS
  <2> DEFINE u == SubSeq(x, 1, k)
             a == x[k + 1]
             v == SubSeq(y, 1, k)
             b == y[k + 1]
             m == Magnitude(u)
             n == Magnitude(v)
  <2>1. u \in Seq(Byte) /\ Len(u) = k /\ a \in Byte /\ x = Append(u, a)
    BY AppendedIs
  <2>2. v \in Seq(Byte) /\ Len(v) = k /\ b \in Byte /\ y = Append(v, b)
    BY AppendedIs
  <2> HIDE DEF u, v, a, b
  <2>3. a \in Nat /\ a < Base /\ b \in Nat /\ b < Base
    BY <2>1, <2>2, ByteIs
  <2>4. m \in Nat /\ n \in Nat
    BY <1>0, <2>1, <2>2, MagnitudeTyped
  <2>5. Magnitude(x) = m * Base + a
    BY <1>0, <2>1, <2>3, MagnitudeAppend
  <2>6. Magnitude(y) = n * Base + b
    BY <1>0, <2>2, <2>3, MagnitudeAppend
  <2> HIDE DEF m, n
  <2>7. m * Base + a = n * Base + b
    BY <2>5, <2>6
  <2>8. m = n /\ a = b
    <3>1. ASSUME NEW i \in Nat, NEW j \in Nat, NEW e \in Nat, NEW f \in Nat, e < Base,
                 f < Base, i * Base + e = j * Base + f, i < j
          PROVE  FALSE
      <4>1. (i + 1) * Base <= j * Base
        BY <1>0, <3>1
      <4>2. (i + 1) * Base = i * Base + Base /\ i * Base \in Nat /\ j * Base \in Nat
        BY <1>0
      <4> DEFINE p == i * Base
                 q == j * Base
      <4>3. p + Base <= q /\ p \in Nat /\ q \in Nat /\ p + e = q + f
        BY <3>1, <4>1, <4>2
      <4> HIDE DEF p, q
      <4> QED
        BY <1>0, <3>1, <4>3
    <3>2. ~(m < n)
      BY <2>3, <2>4, <2>7, <3>1
    <3>3. ~(n < m)
      BY <2>3, <2>4, <2>7, <3>1
    <3>4. m = n
      BY <2>4, <3>2, <3>3
    <3>5. m * Base \in Nat
      BY <1>0, <2>4
    <3> QED
      BY <2>3, <2>7, <3>4, <3>5
  <2>9. u = v
    BY <1>2, <2>1, <2>2, <2>8 DEF m, n
  <2> QED
    BY <2>1, <2>2, <2>8, <2>9
<1> HIDE DEF Good
<1>3. Nat \subseteq Good
  BY <1>1, <1>2, SetInduction
<1>4. Len(s) \in Nat
  OBVIOUS
<1> QED
  BY <1>3, <1>4 DEF Good

\* What the digits of n end with, and what comes before.
DigitsForm(f) == f = [n \in Nat |-> IF n = 0 THEN <<>> ELSE Append(f[n \div Base], n % Base)]

LEMMA DigitsExist == \E f : DigitsForm(f) /\ f \in [Nat -> Seq(Byte)]
<1> DEFINE V == Seq(Byte)
           stop == {0}
           base == [n \in Nat |-> <<>>]
           before == [n \in Nat |-> n \div Base]
           step == [n \in Nat |-> [s \in V |-> Append(s, n % Base)]]
<1>0. Base \in Nat /\ Base > 7
  BY SizesAre
<1>1. \A n \in Nat : n \div Base \in Nat /\ n % Base \in Byte /\ (n # 0 => n \div Base < n)
  BY <1>0, ByteIs, DivIs
<1>2. Descends(Nat, stop, before)
  BY <1>1 DEF Descends
<1>3. \A n \in Nat \cap stop : base[n] \in V
  OBVIOUS
<1>4. \A n \in Nat \ stop : \A s \in V : step[n][s] \in V
  <2> SUFFICES ASSUME NEW n \in Nat, NEW s \in V PROVE Append(s, n % Base) \in V
    OBVIOUS
  <2>1. n % Base \in Byte
    BY <1>1
  <2> QED
    BY <2>1
<1>5. \A n \in Nat : \A s \in V : base[n] = <<>> /\ step[n][s] = Append(s, n % Base)
  OBVIOUS
<1>6. \A n \in Nat : (n \in stop <=> n = 0) /\ before[n] = n \div Base
  OBVIOUS
<1> HIDE DEF base, step, V, stop, before
<1>7. Grounded(Nat, V, stop, base, before, step)
  BY <1>2, <1>3, <1>4 DEF Grounded
<1>8. PICK f : Solves(f, Nat, V, stop, base, before, step)
  BY <1>7, SolutionExists DEF Solved
<1>9. f \in [Nat -> V] /\ \A n \in Nat : f[n] = IF n \in stop THEN base[n] ELSE step[n][f[before[n]]]
  BY <1>8 DEF Solves
<1>10. \A n \in Nat : f[n] = IF n = 0 THEN <<>> ELSE Append(f[n \div Base], n % Base)
  <2> SUFFICES ASSUME NEW n \in Nat
               PROVE  f[n] = IF n = 0 THEN <<>> ELSE Append(f[n \div Base], n % Base)
    OBVIOUS
  <2>1. f[n] = IF n \in stop THEN base[n] ELSE step[n][f[before[n]]]
    BY <1>9
  <2>2. f[n \div Base] \in V
    BY <1>1, <1>9
  <2>3. (n \in stop <=> n = 0) /\ before[n] = n \div Base /\ base[n] = <<>>
    BY <1>5, <1>6, <2>2
  <2>4. step[n][f[n \div Base]] = Append(f[n \div Base], n % Base)
    BY <1>5, <2>2
  <2> QED
    BY <2>1, <2>3, <2>4
<1>11. f = [n \in Nat |-> f[n]]
  BY <1>9
<1>12. DigitsForm(f)
  BY <1>10, <1>11, Zenon DEF DigitsForm
<1> QED
  BY <1>9, <1>12 DEF V

LEMMA DigitsAre ==
    /\ Digits[0] = <<>>
    /\ \A n \in Nat : /\ Digits[n] \in Seq(Byte)
                      /\ n # 0 => Digits[n] = Append(Digits[n \div Base], n % Base)
<1>0. Base \in Nat /\ Base > 7
  BY SizesAre
<1>1. PICK f : DigitsForm(f) /\ f \in [Nat -> Seq(Byte)]
  BY DigitsExist
<1>2. Digits = CHOOSE g : DigitsForm(g)
  BY Zenon DEF Digits, DigitsForm
<1>3. DigitsForm(Digits)
  BY <1>1, <1>2
<1>4. \A n \in Nat : Digits[n] = IF n = 0 THEN <<>> ELSE Append(Digits[n \div Base], n % Base)
  BY <1>3, Zenon DEF DigitsForm
<1>5. \A n \in Nat : f[n] = IF n = 0 THEN <<>> ELSE Append(f[n \div Base], n % Base)
  BY <1>1, Zenon DEF DigitsForm
<1> DEFINE Bad == {n \in Nat : Digits[n] # f[n]}
<1>6. Bad = {}
  <2> SUFFICES ASSUME Bad # {} PROVE FALSE
    OBVIOUS
  <2>1. PICK n \in Bad : \A m \in Bad : n <= m
    BY SmallestExists
  <2>2. n \in Nat /\ Digits[n] # f[n]
    BY <2>1
  <2>3. n # 0
    BY <1>4, <1>5, <2>2
  <2>4. n \div Base \in Nat /\ n \div Base < n
    BY <1>0, <2>2, <2>3, DivIs
  <2>5. Digits[n \div Base] = f[n \div Base]
    BY <2>1, <2>2, <2>4
  <2>6. Digits[n] = Append(Digits[n \div Base], n % Base)
    BY <1>4, <2>2, <2>3, Zenon
  <2>7. f[n] = Append(f[n \div Base], n % Base)
    BY <1>5, <2>2, <2>3, Zenon
  <2> QED
    BY <2>2, <2>5, <2>6, <2>7
<1>7. \A n \in Nat : Digits[n] \in Seq(Byte)
  BY <1>1, <1>6
<1>8. Digits[0] = <<>>
  BY <1>4
<1> QED
  BY <1>4, <1>7, <1>8

\* The digits of a number are its own, and the first is none too many.
LEMMA DigitsSpell ==
    ASSUME NEW n \in Nat
    PROVE  /\ Magnitude(Digits[n]) = n
           /\ n # 0 => Len(Digits[n]) >= 1 /\ Digits[n][1] # 0
<1> DEFINE Right(m) == /\ Magnitude(Digits[m]) = m
                       /\ m # 0 => Len(Digits[m]) >= 1 /\ Digits[m][1] # 0
           Bad == {m \in Nat : ~Right(m)}
<1>0. Base \in Nat /\ Base > 7 /\ \A x \in Seq(Byte) : x \in Seq(Nat)
  BY SizesAre DEF Byte
<1> SUFFICES ASSUME Bad # {} PROVE FALSE
  OBVIOUS
<1>1. PICK m \in Bad : \A j \in Bad : m <= j
  BY SmallestExists
<1>2. m \in Nat /\ ~Right(m)
  BY <1>1
<1>3. m # 0
  <2>1. Right(0)
    BY DigitsAre, MagnitudeEmpty
  <2> QED
    BY <1>2, <2>1
<1> DEFINE h == m \div Base
           r == m % Base
           s == Digits[h]
<1>4. h \in Nat /\ h < m /\ r \in Nat /\ r < Base /\ m = Base * h + r
  BY <1>0, <1>2, <1>3, DivIs
<1>5. Digits[m] = Append(s, r) /\ s \in Seq(Byte)
  BY <1>2, <1>3, <1>4, DigitsAre
<1>6. Right(h)
  <2>1. h \notin Bad
    <3>1. ~(m <= h)
      BY <1>2, <1>4
    <3> HIDE DEF Bad
    <3> QED
      BY <1>1, <3>1
  <2> QED
    BY <1>4, <2>1
<1>7. h = 0 => s = <<>>
  BY DigitsAre
<1>8. Magnitude(s) = h /\ (h # 0 => Len(s) >= 1 /\ s[1] # 0)
  BY <1>6
<1> HIDE DEF h, r, s
<1>9. s \in Seq(Nat)
  BY <1>0, <1>5
<1>10. Magnitude(Digits[m]) = m
  <2>1. Magnitude(Append(s, r)) = h * Base + r
    BY <1>4, <1>8, <1>9, MagnitudeAppend
  <2> QED
    BY <1>0, <1>4, <1>5, <2>1
<1>11. Len(Append(s, r)) >= 1 /\ Append(s, r)[1] # 0
  <2>1. CASE h = 0
    <3>1. m = r
      BY <1>0, <1>4, <2>1
    <3>2. r # 0 /\ s = <<>>
      BY <1>3, <1>7, <2>1, <3>1
    <3> QED
      BY <3>2
  <2>2. CASE h # 0
    BY <1>8, <1>9, <2>2
  <2> QED
    BY <2>1, <2>2
<1> QED
  BY <1>2, <1>5, <1>10, <1>11

\* A sequence of bytes that begins with a is between a and a + 1 at the place of its
\* first byte.
LEMMA MagnitudeStarts ==
    ASSUME NEW k \in Nat, NEW s \in Seq(Byte), Len(s) = k + 1
    PROVE  /\ Magnitude(s) \in Nat /\ s[1] \in Nat
           /\ s[1] * Power(Base, k) <= Magnitude(s)
           /\ Magnitude(s) < (s[1] + 1) * Power(Base, k)
<1> DEFINE t == Tail(s)
           a == s[1]
<1>0. \A x \in Seq(Byte) : x \in Seq(Nat)
  BY SizesAre DEF Byte
<1>1. t \in Seq(Byte) /\ Len(t) = k /\ a \in Byte /\ s = <<a>> \o t
  OBVIOUS
<1> HIDE DEF t, a
<1>2. a \in Nat /\ <<a>> \in Seq(Nat) /\ t \in Seq(Nat)
  BY <1>0, <1>1, ByteIs
<1>3. Magnitude(<<a>>) = a
  <2>1. <<a>> = Append(<<>>, a) /\ <<>> \in Seq(Nat)
    OBVIOUS
  <2>2. Magnitude(<<a>>) = Magnitude(<<>>) * Base + a
    BY <1>2, <2>1, MagnitudeAppend
  <2> QED
    BY <1>2, <2>2, MagnitudeEmpty, SizesAre
<1>4. Magnitude(s) = a * Power(Base, k) + Magnitude(t)
  BY <1>1, <1>2, <1>3, MagnitudeJoins
<1>5. Magnitude(t) \in Nat /\ Magnitude(t) < Power(Base, k)
  BY <1>1, MagnitudeBelow
<1>6. Power(Base, k) \in Nat
  BY BasePowers
<1> DEFINE p == Power(Base, k)
           q == a * p
<1>7. (a + 1) * p = q + p /\ q \in Nat
  BY <1>2, <1>6
<1> HIDE DEF p, q
<1> QED
  BY <1>2, <1>4, <1>5, <1>6, <1>7 DEF p, q, a

\* The number u in n bytes.
Padded(n, u) == [i \in 1 .. n - Len(Digits[u]) |-> 0] \o Digits[u]

LEMMA ZerosAre ==
    ASSUME NEW n \in Nat
    PROVE  /\ [i \in 1 .. n |-> 0] \in Seq(Byte) /\ Len([i \in 1 .. n |-> 0]) = n
           /\ Magnitude([i \in 1 .. n |-> 0]) = 0
<1> DEFINE Z(k) == [i \in 1 .. k |-> 0]
           Good == {k \in Nat : Magnitude(Z(k)) = 0}
<1>0. Base \in Nat /\ 0 \in Byte
  BY SizesAre, ByteIs
<1>1. \A k \in Nat : Z(k) \in Seq(Byte) /\ Z(k) \in Seq(Nat) /\ Len(Z(k)) = k
  BY <1>0
<1>2. 0 \in Good
  <2>1. Z(0) = <<>>
    OBVIOUS
  <2> HIDE DEF Z
  <2> QED
    BY <2>1, MagnitudeEmpty
<1>3. ASSUME NEW k \in Nat, k \in Good PROVE k + 1 \in Good
  <2>1. Z(k + 1) = Append(Z(k), 0)
    OBVIOUS
  <2> HIDE DEF Z
  <2>2. Magnitude(Append(Z(k), 0)) = Magnitude(Z(k)) * Base + 0
    BY <1>1, MagnitudeAppend
  <2>3. Magnitude(Z(k)) = 0
    BY <1>3
  <2>4. Magnitude(Append(Z(k), 0)) = 0
    BY <1>0, <2>2, <2>3
  <2>5. Magnitude(Z(k + 1)) = 0
    BY <2>1, <2>4
  <2> QED
    BY <2>5
<1> HIDE DEF Good
<1>4. Nat \subseteq Good
  BY <1>2, <1>3, SetInduction
<1>5. Magnitude(Z(n)) = 0
  BY <1>4 DEF Good
<1> QED
  BY <1>1, <1>5

LEMMA PaddedIs ==
    ASSUME NEW n \in Nat, NEW u \in Nat, u < Power(Base, n)
    PROVE  Padded(n, u) \in Seq(Byte) /\ Len(Padded(n, u)) = n /\ Magnitude(Padded(n, u)) = u
<1> DEFINE s == Digits[u]
           k == n - Len(s)
           z == [i \in 1 .. k |-> 0]
<1>0. Base \in Nat \ {0} /\ \A x \in Seq(Byte) : x \in Seq(Nat)
  BY SizesAre DEF Byte
<1>1. s \in Seq(Byte) /\ Magnitude(s) = u /\ (u # 0 => Len(s) >= 1 /\ s[1] # 0)
      /\ (u = 0 => s = <<>>)
  BY DigitsAre, DigitsSpell
<1> HIDE DEF s
<1>2. Len(s) \in Nat /\ Len(s) <= n
  <2>1. CASE u = 0
    BY <1>1, <2>1
  <2>2. CASE u # 0
    <3> DEFINE j == Len(s) - 1
               p == Power(Base, j)
    <3>1. j \in Nat /\ Len(s) = j + 1
      BY <1>1, <2>2
    <3> HIDE DEF j
    <3>2. s[1] \in Nat /\ s[1] * p <= u
      BY <1>1, <3>1, MagnitudeStarts
    <3>3. s[1] >= 1
      BY <1>1, <2>2, <3>2
    <3>4. p \in Nat
      BY <3>1, BasePowers
    <3>5. ~(n <= j)
      <4> SUFFICES ASSUME n <= j PROVE FALSE
        OBVIOUS
      <4>1. Power(Base, n) <= p
        BY <1>0, <3>1, PowersGrow
      <4>2. Power(Base, n) \in Nat
        BY BasePowers
      <4> HIDE DEF p
      <4>3. p <= s[1] * p
        BY <3>2, <3>3, <3>4
      <4>4. s[1] * p \in Nat
        BY <3>2, <3>4
      <4> QED
        BY <3>2, <3>4, <4>1, <4>2, <4>3, <4>4
    <3> QED
      BY <3>1, <3>5
  <2> QED
    BY <2>1, <2>2
<1>3. k \in Nat /\ k + Len(s) = n
  BY <1>2
<1> HIDE DEF k
<1>4. z \in Seq(Byte) /\ Len(z) = k /\ Magnitude(z) = 0
  BY <1>3, ZerosAre
<1> HIDE DEF z
<1>5. Padded(n, u) = z \o s
  BY DEF Padded, z, k, s
<1>6. z \o s \in Seq(Byte) /\ Len(z \o s) = n
  BY <1>1, <1>3, <1>4
<1>7. Magnitude(z \o s) = Magnitude(z) * Power(Base, Len(s)) + Magnitude(s)
  BY <1>0, <1>1, <1>4, MagnitudeJoins
<1>8. Power(Base, Len(s)) \in Nat
  BY <1>2, BasePowers
<1> QED
  BY <1>1, <1>4, <1>5, <1>6, <1>7, <1>8

-----------------------------------------------------------------------------
(* The bytes of a number, and the number of some bytes. *)

\* No byte of s is one that the sign makes superfluous.
Minimal(s) == ~(Len(s) > 1 /\ ((s[1] = 0 /\ s[2] < Cont) \/ (s[1] = Base - 1 /\ s[2] >= Cont)))

Negated(v) == Padded(Len(Digits[-v]), Power(Base, Len(Digits[-v])) + v)

LEMMA TcBeIs ==
    ASSUME NEW v \in Int
    PROVE  /\ v = 0 => bigintToTcBe(v) = <<>>
           /\ v > 0 => bigintToTcBe(v) = IF Digits[v][1] >= Cont THEN << 0 >> \o Digits[v]
                                         ELSE Digits[v]
           /\ v < 0 => bigintToTcBe(v) = IF Negated(v)[1] < Cont THEN <<Base - 1>> \o Negated(v)
                                         ELSE Negated(v)
<1>1. v = 0 => bigintToTcBe(v) = <<>>
  BY DEF bigintToTcBe
<1>2. ASSUME v > 0
      PROVE  bigintToTcBe(v) = IF Digits[v][1] >= Cont THEN << 0 >> \o Digits[v] ELSE Digits[v]
  <2>1. ~(v < 0) /\ ~(v = 0)
    BY <1>2
  <2> QED
    BY <1>2, <2>1, Zenon DEF bigintToTcBe
<1>3. ASSUME v < 0
      PROVE  bigintToTcBe(v) = IF Negated(v)[1] < Cont THEN <<Base - 1>> \o Negated(v)
                                         ELSE Negated(v)
  <2>1. ~(v > 0) /\ ~(v = 0)
    BY <1>3
  <2> QED
    BY <1>3, <2>1, Zenon DEF bigintToTcBe, Negated, Padded
<1> QED
  BY <1>1, <1>2, <1>3

LEMMA FirstOf ==
    ASSUME NEW a \in Nat, NEW s \in Seq(Byte), Len(s) >= 1, a < Base
    PROVE  /\ <<a>> \o s \in Seq(Byte) /\ (<<a>> \o s)[1] = a /\ (<<a>> \o s)[2] = s[1]
           /\ Len(<<a>> \o s) = Len(s) + 1
           /\ Magnitude(<<a>> \o s) = a * Power(Base, Len(s)) + Magnitude(s)
<1>0. a \in Byte /\ \A x \in Seq(Byte) : x \in Seq(Nat)
  BY SizesAre, ByteIs DEF Byte
<1>1. <<a>> \in Seq(Byte) /\ <<a>> \in Seq(Nat) /\ Len(<<a>>) = 1 /\ <<a>>[1] = a
      /\ <<a>> = Append(<<>>, a) /\ <<>> \in Seq(Nat)
  BY <1>0
<1>2. Magnitude(<<a>>) = Magnitude(<<>>) * Base + a
  BY <1>1, MagnitudeAppend
<1>3. Magnitude(<<a>>) = a
  BY <1>2, MagnitudeEmpty, SizesAre
<1>4. Magnitude(<<a>> \o s) = Magnitude(<<a>>) * Power(Base, Len(s)) + Magnitude(s)
  BY <1>0, <1>1, MagnitudeJoins
<1> DEFINE h == <<a>>
<1> HIDE DEF h
<1>5. h \in Seq(Byte) /\ Len(h) = 1 /\ h[1] = a
  BY <1>1 DEF h
<1>6. /\ h \o s \in Seq(Byte) /\ (h \o s)[1] = a /\ (h \o s)[2] = s[1]
      /\ Len(h \o s) = Len(s) + 1
  <2>1. Len(h \o s) = Len(h) + Len(s) /\ h \o s \in Seq(Byte)
    BY <1>5, ConcatProperties
  <2>2. \A i \in 1 .. Len(h) + Len(s) :
            (h \o s)[i] = IF i <= Len(h) THEN h[i] ELSE s[i - Len(h)]
    BY <1>5, ConcatProperties
  <2>3. 1 \in 1 .. Len(h) + Len(s) /\ 2 \in 1 .. Len(h) + Len(s)
    BY <1>5
  <2>4. (h \o s)[1] = a /\ (h \o s)[2] = s[1]
    BY <1>5, <2>2, <2>3
  <2> QED
    BY <1>5, <2>1, <2>4
<1> QED
  BY <1>3, <1>4, <1>6 DEF h

\* What a number is written as is read as that number, and has no byte too many.
LEMMA NumberWritten ==
    ASSUME NEW v \in Int
    PROVE  /\ bigintToTcBe(v) \in Seq(Byte) /\ tcBeToBigint(bigintToTcBe(v)) = v
           /\ Minimal(bigintToTcBe(v)) /\ bigintToTcBe(v) # << 0 >>
<1> DEFINE w == bigintToTcBe(v)
<1>0. /\ Base \in Nat /\ Cont \in Nat /\ Cont > 3 /\ Base = 2 * Cont
      /\ \A x \in Seq(Byte) : x \in Seq(Nat)
  BY SizesAre DEF Byte
<1>1. CASE v = 0
  <2>1. w = <<>>
    BY <1>1, TcBeIs
  <2> HIDE DEF w
  <2>2. tcBeToBigint(w) = 0 /\ Len(w) = 0 /\ w \in Seq(Byte) /\ w # << 0 >>
    BY <2>1 DEF tcBeToBigint
  <2>3. Minimal(w)
    BY <2>2 DEF Minimal
  <2> QED
    BY <1>1, <2>2, <2>3 DEF w
<1>2. CASE v > 0
  <2> DEFINE s == Digits[v]
  <2>1. s \in Seq(Byte) /\ Magnitude(s) = v /\ Len(s) >= 1 /\ s[1] # 0
    BY <1>2, DigitsAre, DigitsSpell
  <2>2. w = IF s[1] >= Cont THEN << 0 >> \o s ELSE s
    BY <1>2, TcBeIs
  <2> HIDE DEF s, w
  <2>3. s[1] \in Nat /\ s[1] < Base
    BY <2>1, ByteIs
  <2>4. CASE s[1] >= Cont
    <3>1. w = << 0 >> \o s
      BY <2>2, <2>4
    <3>2. /\ w \in Seq(Byte) /\ w[1] = 0 /\ w[2] = s[1] /\ Len(w) = Len(s) + 1
          /\ Magnitude(w) = 0 * Power(Base, Len(s)) + Magnitude(s)
      BY <1>0, <2>1, <3>1, FirstOf
    <3>3. Power(Base, Len(s)) \in Nat
      BY <2>1, BasePowers
    <3>4. Magnitude(w) = v
      BY <2>1, <3>2, <3>3
    <3>5. Len(w) > 1 /\ w # <<>> /\ ~(w[1] >= Cont) /\ ~(w[1] = Base - 1) /\ ~(w[2] < Cont)
      BY <1>0, <2>1, <2>3, <2>4, <3>2
    <3>6. Minimal(w)
      BY <3>5 DEF Minimal
    <3>7. tcBeToBigint(w) = v
      BY <3>4, <3>5 DEF tcBeToBigint
    <3>8. w # << 0 >>
      BY <3>5
    <3> QED
      BY <3>2, <3>6, <3>7, <3>8 DEF w
  <2>5. CASE ~(s[1] >= Cont)
    <3>1. w = s
      BY <2>2, <2>5
    <3>2. w # <<>> /\ ~(w[1] >= Cont) /\ ~(w[1] = Base - 1) /\ ~(w[1] = 0)
      BY <1>0, <2>1, <2>3, <2>5, <3>1
    <3>3. Minimal(w)
      BY <3>2 DEF Minimal
    <3>4. tcBeToBigint(w) = v
      BY <2>1, <3>1, <3>2 DEF tcBeToBigint
    <3>5. w # << 0 >>
      BY <3>2
    <3> QED
      BY <2>1, <3>1, <3>3, <3>4, <3>5 DEF w
  <2> QED
    BY <2>4, <2>5
<1>3. CASE v < 0
  <2> DEFINE m == Digits[-v]
             n == Len(m)
             p == Power(Base, n)
             u == p + v
             s == Negated(v)
             k == n - 1
             q == Power(Base, k)
  <2>1. -v \in Nat /\ -v # 0
    BY <1>3
  <2>2. m \in Seq(Byte) /\ Magnitude(m) = -v /\ n >= 1 /\ m[1] # 0
    <3> DEFINE x == -v
    <3> HIDE DEF x
    <3>1. x \in Nat /\ x # 0
      BY <2>1 DEF x
    <3>2. Digits[x] \in Seq(Byte) /\ Magnitude(Digits[x]) = x /\ Len(Digits[x]) >= 1
          /\ Digits[x][1] # 0
      BY <3>1, DigitsAre, DigitsSpell
    <3> QED
      BY <3>2 DEF x
  <2>3. w = IF s[1] < Cont THEN <<Base - 1>> \o s ELSE s
    BY <1>3, TcBeIs
  <2>4. s = Padded(n, u)
    BY DEF Negated
  <2> HIDE DEF m, s, w
  <2>5. n \in Nat /\ k \in Nat /\ n = k + 1
    BY <2>2
  <2> HIDE DEF n, k
  <2>6. p \in Nat /\ q \in Nat /\ q > 0 /\ p = Base * q
    BY <2>5, BasePowers
  <2>7. -v < p /\ q <= -v
    <3>1. -v < p
      BY <2>2, MagnitudeBelow DEF n
    <3>2. Len(m) = k + 1
      BY <2>5 DEF n
    <3>3. m[1] \in Nat /\ m[1] * q <= -v
      BY <2>2, <2>5, <3>2, MagnitudeStarts
    <3> HIDE DEF q
    <3>4. q <= m[1] * q /\ m[1] * q \in Nat
      BY <2>2, <2>6, <3>3
    <3> QED
      BY <2>6, <3>1, <3>3, <3>4
  <2> HIDE DEF p, q
  <2>8. u \in Nat /\ u < p
    BY <1>3, <2>6, <2>7
  <2>9. s \in Seq(Byte) /\ Len(s) = n /\ Magnitude(s) = u
    BY <2>4, <2>5, <2>8, PaddedIs DEF p
  <2>10. s[1] \in Nat /\ s[1] < Base
    BY <2>5, <2>9, ByteIs
  <2>11. CASE s[1] < Cont
    <3> DEFINE a == Base - 1
    <3>0. a \in Nat /\ a < Base /\ a >= Cont /\ a # 0
      BY <1>0
    <3>1. w = <<a>> \o s
      BY <2>3, <2>11
    <3>2. /\ w \in Seq(Byte) /\ w[1] = a /\ w[2] = s[1] /\ Len(w) = n + 1
          /\ Magnitude(w) = a * p + u
      <4> HIDE DEF a
      <4>1. Len(s) >= 1
        BY <2>5, <2>9
      <4>2. /\ w \in Seq(Byte) /\ w[1] = a /\ w[2] = s[1] /\ Len(w) = Len(s) + 1
            /\ Magnitude(w) = a * Power(Base, Len(s)) + Magnitude(s)
        BY <2>9, <3>0, <3>1, <4>1, FirstOf
      <4> QED
        BY <2>9, <4>2 DEF p
    <3>3. Len(w) > 1 /\ w # <<>> /\ w[1] >= Cont /\ ~(w[1] = 0) /\ ~(w[2] >= Cont)
      BY <1>0, <2>5, <2>10, <2>11, <3>0, <3>2
    <3>4. Minimal(w)
      BY <3>3 DEF Minimal
    <3>5. Power(Base, n + 1) = Base * p
      BY <2>5, BasePowers DEF p
    <3>6. (a * p + u) - Base * p = v
      <4>1. a * p = Base * p - p
        BY <1>0, <2>6
      <4>2. Base * p \in Nat
        BY <1>0, <2>6
      <4> QED
        BY <2>6, <4>1, <4>2
    <3>7. tcBeToBigint(w) = Magnitude(w) - Power(Base, Len(w))
      BY <3>3 DEF tcBeToBigint
    <3>8. tcBeToBigint(w) = v
      <4>1. Power(Base, Len(w)) = Base * p
        BY <3>2, <3>5
      <4>2. tcBeToBigint(w) = (a * p + u) - Base * p
        BY <3>2, <3>7, <4>1
      <4> QED
        BY <3>6, <4>2
    <3>9. w # << 0 >>
      BY <3>3
    <3> QED
      BY <3>2, <3>4, <3>8, <3>9 DEF w
  <2>12. CASE ~(s[1] < Cont)
    <3>1. w = s
      BY <2>3, <2>12
    <3>2. w # <<>> /\ w[1] >= Cont /\ ~(w[1] = 0)
      BY <1>0, <2>5, <2>9, <2>10, <2>12, <3>1
    <3>3. tcBeToBigint(w) = Magnitude(w) - Power(Base, Len(w))
      BY <3>2 DEF tcBeToBigint
    <3>4. tcBeToBigint(w) = v
      <4>1. tcBeToBigint(w) = u - p
        BY <2>9, <3>1, <3>3 DEF p
      <4> QED
        BY <2>6, <4>1
    <3>5. Minimal(w)
      <4> SUFFICES ASSUME Len(w) > 1, w[1] = Base - 1, w[2] >= Cont PROVE FALSE
        BY <3>2 DEF Minimal
      <4> DEFINE t == Tail(s)
                 j == k - 1
                 o == Power(Base, j)
      <4>1. j \in Nat /\ k = j + 1
        BY <2>5, <2>9, <3>1
      <4> HIDE DEF j
      <4>2. t \in Seq(Byte) /\ Len(t) = j + 1 /\ t[1] = s[2] /\ s = <<Base - 1>> \o t
        BY <2>5, <2>9, <3>1, <4>1
      <4> HIDE DEF t
      <4>3. t[1] \in Nat /\ t[1] * o <= Magnitude(t) /\ Magnitude(t) \in Nat
        BY <4>1, <4>2, MagnitudeStarts
      <4>4. o \in Nat /\ o > 0 /\ q = Base * o
        BY <4>1, BasePowers DEF q
      <4>5. u = (Base - 1) * q + Magnitude(t)
        <5> DEFINE a == Base - 1
        <5>0. a \in Nat /\ a < Base
          BY <1>0
        <5> HIDE DEF a
        <5>1. Len(t) >= 1 /\ Len(t) = k
          BY <4>1, <4>2
        <5>2. Magnitude(<<a>> \o t) = a * Power(Base, Len(t)) + Magnitude(t)
          BY <4>2, <5>0, <5>1, FirstOf
        <5> QED
          BY <2>9, <4>2, <5>1, <5>2 DEF a, q
      <4> HIDE DEF o
      <4>6. (Base - 1) * q = p - q
        BY <1>0, <2>6
      <4>7. -v = q - Magnitude(t)
        BY <2>6, <4>3, <4>5, <4>6
      <4>8. t[1] >= Cont
        BY <3>1, <4>2
      <4>9. o <= t[1] * o /\ t[1] * o \in Nat
        BY <1>0, <4>3, <4>4, <4>8
      <4> QED
        BY <2>6, <2>7, <4>3, <4>4, <4>7, <4>9
    <3>6. w # << 0 >>
      BY <3>2
    <3> QED
      BY <2>9, <3>1, <3>4, <3>5, <3>6 DEF w
  <2> QED
    BY <2>11, <2>12
<1> QED
  BY <1>1, <1>2, <1>3

\* One more than the largest number of k + 1 bytes.
Half(k) == Cont * Power(Base, k)

LEMMA HalfGrows ==
    ASSUME NEW j \in Nat, NEW k \in Nat, j <= k
    PROVE  Half(j) \in Nat /\ Half(k) \in Nat /\ Half(j) <= Half(k)
<1>1. Cont \in Nat /\ Base \in Nat \ {0}
  BY SizesAre
<1> DEFINE p == Power(Base, j)
           q == Power(Base, k)
<1>2. p \in Nat /\ q \in Nat /\ p <= q
  BY <1>1, BasePowers, PowersGrow
<1> HIDE DEF p, q
<1>3. Cont * p \in Nat /\ Cont * q \in Nat /\ Cont * p <= Cont * q
  BY <1>1, <1>2
<1> QED
  BY <1>3 DEF Half, p, q

LEMMA MagnitudeStartsTwo ==
    ASSUME NEW k \in Nat, NEW s \in Seq(Byte), Len(s) = k + 2
    PROVE  /\ Magnitude(s) \in Nat /\ s[1] \in Nat /\ s[2] \in Nat
           /\ s[1] < Base /\ s[2] < Base
           /\ (s[1] * Base + s[2]) * Power(Base, k) <= Magnitude(s)
           /\ Magnitude(s) < (s[1] * Base + s[2] + 1) * Power(Base, k)
<1> DEFINE t == Tail(s)
           a == s[1]
           b == s[2]
           p == Power(Base, k)
           q == Power(Base, k + 1)
<1>0. Base \in Nat
  BY SizesAre
<1>1. t \in Seq(Byte) /\ Len(t) = k + 1 /\ t[1] = b /\ s = <<a>> \o t /\ a \in Byte /\ b \in Byte
  OBVIOUS
<1> HIDE DEF t, a, b
<1>2. a \in Nat /\ a < Base /\ b \in Nat /\ b < Base
  BY <1>1, ByteIs
<1>3. Magnitude(s) = a * q + Magnitude(t)
  <2>1. Len(t) >= 1
    BY <1>1
  <2>2. Magnitude(<<a>> \o t) = a * Power(Base, Len(t)) + Magnitude(t)
    BY <1>1, <1>2, <2>1, FirstOf
  <2> QED
    BY <1>1, <2>2
<1>4. Magnitude(t) \in Nat /\ b * p <= Magnitude(t) /\ Magnitude(t) < (b + 1) * p
  BY <1>1, MagnitudeStarts
<1>5. p \in Nat /\ q = Base * p
  BY BasePowers
<1> HIDE DEF p, q
<1>6. a * q \in Nat /\ (a * Base + b) * p = a * q + b * p
      /\ ((a * Base + b) + 1) * p = a * q + (b + 1) * p
  <2>1. a * q = (a * Base) * p /\ a * Base \in Nat
    BY <1>0, <1>2, <1>5
  <2> QED
    BY <1>2, <1>5, <2>1
<1>7. b * p \in Nat /\ (b + 1) * p \in Nat
  BY <1>2, <1>5
<1>8. (a * Base + b) * p <= Magnitude(s) /\ Magnitude(s) < ((a * Base + b) + 1) * p /\ Magnitude(s) \in Nat
  BY <1>3, <1>4, <1>6, <1>7
<1> QED
  BY <1>2, <1>8 DEF a, b, p

\* The number that minimal bytes spell is one that takes so many.
Takes(v, k) ==
    \/ v >= 1 /\ v < Half(k) /\ (k = 0 \/ v >= Half(k - 1))
    \/ v <= -1 /\ -v <= Half(k) /\ (k = 0 \/ -v > Half(k - 1))

LEMMA MinimalTakes ==
    ASSUME NEW k \in Nat, NEW s \in Seq(Byte), Len(s) = k + 1, Minimal(s), s # << 0 >>
    PROVE  /\ tcBeToBigint(s) \in Int /\ Takes(tcBeToBigint(s), k)
           /\ IF s[1] >= Cont THEN /\ tcBeToBigint(s) = Magnitude(s) - Power(Base, Len(s))
                                   /\ tcBeToBigint(s) <= -1
              ELSE tcBeToBigint(s) = Magnitude(s) /\ tcBeToBigint(s) >= 1
<1> DEFINE m == Magnitude(s)
           v == tcBeToBigint(s)
           c == Cont
           a == s[1]
<1>0. c \in Nat /\ c > 3 /\ Base = 2 * c
  BY SizesAre
<1>1. s # <<>>
  OBVIOUS
<1>2. v = IF a >= c THEN m - Power(Base, k + 1) ELSE m
  BY <1>1 DEF tcBeToBigint
<1>3. a \in Nat /\ a < Base
  <2>1. a \in Byte
    OBVIOUS
  <2> QED
    BY <2>1, ByteIs
<1>4. CASE k = 0
  <2>1. m = a
    <3>1. a * Power(Base, k) <= m /\ m < (a + 1) * Power(Base, k) /\ m \in Nat
      BY MagnitudeStarts
    <3>2. Power(Base, k) = 1
      BY <1>4, BasePowers
    <3> HIDE DEF m, a
    <3> QED
      BY <1>3, <3>1, <3>2
  <2>2. a # 0
    <3> SUFFICES ASSUME a = 0 PROVE s = << 0 >>
      OBVIOUS
    <3> QED
      BY <1>4
  <2>3. Half(0) = c /\ Power(Base, k + 1) = Base
    <3>1. Power(Base, 0) = 1 /\ Power(Base, 0 + 1) = Base * Power(Base, 0) /\ k + 1 = 0 + 1
      BY <1>4, BasePowers
    <3> QED
      BY <1>0, <1>4, <3>1 DEF Half
  <2> HIDE DEF m, v, c, a
  <2>4. CASE a >= c
    <3>1. v = a - 2 * c
      BY <1>0, <1>2, <2>1, <2>3, <2>4
    <3>2. v \in Int /\ v <= -1 /\ -v <= c
      BY <1>0, <1>3, <2>4, <3>1
    <3>3. Takes(v, k)
      BY <1>4, <2>3, <3>2 DEF Takes
    <3> QED
      BY <1>2, <2>4, <3>2, <3>3 DEF v, a, c, m
  <2>5. CASE ~(a >= c)
    <3>1. v = a /\ v \in Int /\ v >= 1 /\ v < c
      BY <1>0, <1>2, <1>3, <2>1, <2>2, <2>5
    <3>2. Takes(v, k)
      BY <1>4, <2>3, <3>1 DEF Takes
    <3> QED
      BY <1>2, <2>5, <3>1, <3>2 DEF v, a, c, m
  <2> QED
    BY <2>4, <2>5
<1>5. CASE k > 0
  <2> DEFINE j == k - 1
             b == s[2]
             p == Power(Base, j)
             x == a * Base + b
             d == c * c
  <2>1. j \in Nat /\ k = j + 1 /\ Len(s) = j + 2
    BY <1>5
  <2> HIDE DEF j
  <2>2. b \in Nat /\ b < Base /\ m \in Nat /\ x * p <= m /\ m < (x + 1) * p
    BY <2>1, MagnitudeStartsTwo
  <2>3. p \in Nat /\ p > 0 /\ Power(Base, k) = Base * p
        /\ Power(Base, k + 1) = Base * Power(Base, k)
    BY <2>1, BasePowers
  <2>4. ~((a = 0 /\ b < c) \/ (a = Base - 1 /\ b >= c))
    <3>1. Len(s) > 1
      BY <2>1
    <3> QED
      BY <3>1 DEF Minimal
  <2>5. Half(k - 1) = c * p
    BY <2>1 DEF Half, j
  <2>6. Half(k) = 2 * (d * p) /\ Power(Base, k + 1) = 4 * (d * p)
    <3> HIDE DEF p, c
    <3>1. Half(k) = c * (Base * p)
      BY <2>3 DEF Half, c
    <3>2. c * ((2 * c) * p) = 2 * ((c * c) * p)
      BY <1>0, <2>3
    <3>3. (2 * c) * ((2 * c) * p) = 4 * ((c * c) * p)
      BY <1>0, <2>3
    <3> QED
      BY <1>0, <2>3, <3>1, <3>2, <3>3
  <2> HIDE DEF m, v, c, a, b, p
  <2>7. x \in Nat /\ d \in Nat
    BY <1>0, <1>3, <2>2
  <2>8. d * p \in Nat /\ c * p \in Nat /\ c * p > 0
    BY <1>0, <2>3, <2>7
  <2>9. x = 2 * (c * a) + b
    BY <1>0, <1>3, <2>2
  <2>10. CASE a >= c
    <3>1. 2 * d <= x
      <4>1. c * c <= c * a
        BY <1>0, <1>3, <2>10
      <4>2. d <= c * a /\ c * a \in Nat
        BY <1>0, <1>3, <4>1
      <4> HIDE DEF x, d
      <4> QED
        BY <2>2, <2>7, <2>9, <4>2
    <3>2. (x + 1) + c <= 4 * d
      <4>1. CASE a = Base - 1
        <5>1. b + 1 <= c
          BY <1>0, <2>2, <2>4, <4>1
        <5>2. c * a = 2 * d - c
          <6>1. c * (2 * c - 1) = 2 * (c * c) - c
            BY <1>0
          <6> QED
            BY <1>0, <4>1, <6>1
        <5> HIDE DEF x, d
        <5> QED
          BY <1>0, <2>2, <2>7, <2>9, <5>1, <5>2
      <4>2. CASE a + 2 <= Base
        <5>1. c * (a + 2) <= c * (2 * c)
          BY <1>0, <1>3, <4>2
        <5>2. c * (a + 2) = c * a + 2 * c /\ c * (2 * c) = 2 * (c * c) /\ c * a \in Nat
          BY <1>0, <1>3
        <5>3. c * a + 2 * c <= 2 * d
          BY <5>1, <5>2
        <5> DEFINE y == c * a
        <5>4. y \in Nat /\ y + 2 * c <= 2 * d /\ x = 2 * y + b /\ b < 2 * c /\ b \in Nat
              /\ c \in Nat
          BY <1>0, <2>2, <2>9, <5>2, <5>3
        <5> HIDE DEF x, d, y
        <5> QED
          BY <2>7, <5>4
      <4> QED
        BY <1>0, <1>3, <4>1, <4>2
    <3> HIDE DEF x, d
    <3>3. (2 * d) * p <= x * p /\ (2 * d) * p = 2 * (d * p) /\ x * p \in Nat
      BY <2>3, <2>7, <3>1
    <3>4. ((x + 1) + c) * p <= (4 * d) * p /\ (4 * d) * p = 4 * (d * p)
      BY <1>0, <2>3, <2>7, <3>2
    <3>5. ((x + 1) + c) * p = (x + 1) * p + c * p /\ (x + 1) * p \in Nat
      BY <1>0, <2>3, <2>7
    <3>6. v = m - 4 * (d * p)
      BY <1>2, <2>6, <2>10
    <3> DEFINE e == d * p
               f == c * p
               g == (x + 1) * p
               h == x * p
    <3>7. /\ e \in Nat /\ f \in Nat /\ f > 0 /\ g \in Nat /\ h \in Nat
          /\ 2 * e <= h /\ g + f <= 4 * e /\ v = m - 4 * e /\ h <= m /\ m < g
      BY <2>2, <2>8, <3>3, <3>4, <3>5, <3>6
    <3>8. Half(k) = 2 * e /\ Half(k - 1) = f
      BY <2>5, <2>6
    <3> HIDE DEF e, f, g, h
    <3>9. v \in Int /\ v <= -1 /\ -v <= 2 * e /\ -v > f
      BY <2>2, <3>7
    <3>10. Takes(v, k)
      BY <3>8, <3>9 DEF Takes
    <3> QED
      BY <1>2, <2>10, <3>9, <3>10 DEF v, a, c, m
  <2>11. CASE ~(a >= c)
    <3>1. c <= x
      <4>1. CASE a = 0
        BY <1>0, <2>2, <2>4, <2>9, <4>1
      <4>2. CASE a >= 1
        <5>1. c <= c * a /\ c * a \in Nat
          BY <1>0, <1>3, <4>2
        <5> HIDE DEF x
        <5> QED
          BY <1>0, <2>2, <2>9, <5>1
      <4> QED
        BY <1>3, <4>1, <4>2
    <3>2. x + 1 <= 2 * d
      <4>1. c * (a + 1) <= c * c
        BY <1>0, <1>3, <2>11
      <4>2. c * (a + 1) = c * a + c /\ c * a \in Nat
        BY <1>0, <1>3
      <4>3. c * a + c <= d
        BY <4>1, <4>2
      <4> HIDE DEF x, d
      <4> QED
        BY <1>0, <2>2, <2>7, <2>9, <4>2, <4>3
    <3> HIDE DEF x, d
    <3>3. c * p <= x * p /\ x * p \in Nat
      BY <1>0, <2>3, <2>7, <3>1
    <3>4. (x + 1) * p <= (2 * d) * p /\ (2 * d) * p = 2 * (d * p) /\ (x + 1) * p \in Nat
      BY <2>3, <2>7, <3>2
    <3>5. v = m
      BY <1>2, <2>11
    <3>6. v \in Int /\ v >= 1 /\ v < 2 * (d * p) /\ v >= c * p
      BY <2>2, <2>8, <3>3, <3>4, <3>5
    <3>7. Takes(v, k)
      BY <2>5, <2>6, <3>6 DEF Takes
    <3> QED
      BY <1>2, <2>11, <3>6, <3>7 DEF v, a, c, m
  <2> QED
    BY <2>10, <2>11
<1> QED
  BY <1>4, <1>5

\* No number has two forms without a byte too many.
LEMMA MinimalApart ==
    ASSUME NEW s \in Seq(Byte), NEW t \in Seq(Byte), Len(s) >= 1, Len(t) >= 1,
           Minimal(s), Minimal(t), s # << 0 >>, t # << 0 >>, tcBeToBigint(s) = tcBeToBigint(t)
    PROVE  s = t
<1> DEFINE j == Len(s) - 1
           k == Len(t) - 1
           v == tcBeToBigint(s)
<1>1. j \in Nat /\ k \in Nat /\ Len(s) = j + 1 /\ Len(t) = k + 1
  OBVIOUS
<1> HIDE DEF j, k
<1>2. v \in Int /\ Takes(v, j) /\ Takes(v, k)
  BY <1>1, MinimalTakes
<1>3. ASSUME NEW i \in Nat, NEW n \in Nat, i < n, NEW w \in Int, Takes(w, i), Takes(w, n)
      PROVE  FALSE
  <2> DEFINE o == n - 1
  <2>1. o \in Nat /\ i <= o /\ n # 0
    BY <1>3
  <2> HIDE DEF o
  <2>2. Half(i) \in Nat /\ Half(o) \in Nat /\ Half(i) <= Half(o)
    BY <2>1, HalfGrows
  <2>3. \/ w >= 1 /\ w < Half(i)
        \/ w <= -1 /\ -w <= Half(i)
    BY <1>3 DEF Takes
  <2>4. \/ w >= 1 /\ w >= Half(o)
        \/ w <= -1 /\ -w > Half(o)
    BY <1>3, <2>1 DEF Takes, o
  <2> QED
    BY <2>2, <2>3, <2>4
<1>4. ~(j < k) /\ ~(k < j)
  BY <1>1, <1>2, <1>3
<1>5. j = k /\ Len(s) = Len(t)
  BY <1>1, <1>4
<1>6. IF s[1] >= Cont THEN v = Magnitude(s) - Power(Base, Len(s)) /\ v <= -1
      ELSE v = Magnitude(s) /\ v >= 1
  BY <1>1, MinimalTakes
<1>7. IF t[1] >= Cont THEN v = Magnitude(t) - Power(Base, Len(t)) /\ v <= -1
      ELSE v = Magnitude(t) /\ v >= 1
  BY <1>1, MinimalTakes
<1>8. Magnitude(s) \in Nat /\ Magnitude(t) \in Nat
  BY MagnitudeBelow
<1>9. Power(Base, Len(s)) \in Nat
  BY <1>1, BasePowers
<1> HIDE DEF v
<1>10. Magnitude(s) = Magnitude(t)
  BY <1>2, <1>5, <1>6, <1>7, <1>8, <1>9
<1> QED
  BY <1>5, <1>10, MagnitudesApart

LEMMA BytesAreNats == \A s \in Seq(Byte) : s \in Seq(Nat)
BY SizesAre DEF Byte

\* The wallet's limit and the recorder's, and what lies between.
Limit(limit) == limit \in Nat /\ U64 <= limit /\ limit <= Unbounded

LEMMA LimitsAre == Limit(U64) /\ Limit(Unbounded)
BY SizesAre DEF Limit

\* What is written behind its length is read.
LEMMA SizeRead ==
    ASSUME NEW s \in Seq(Nat), NEW d \in Seq(Nat), NEW pos \in Nat, pos > 0,
           NEW limit, Limit(limit), Len(s) < U64,
           Occurs(encodeUnsigned[Len(s)] \o s, d, pos)
    PROVE  /\ decodeUnsigned(d, pos, limit) =
                  [value |-> Len(s), used |-> Len(encodeUnsigned[Len(s)])]
           /\ Len(encodeUnsigned[Len(s)]) \in Nat /\ Len(encodeUnsigned[Len(s)]) >= 1
           /\ Occurs(s, d, pos + Len(encodeUnsigned[Len(s)]))
<1> DEFINE k == Len(s)
<1>1. k \in Nat
  OBVIOUS
<1> HIDE DEF k
<1>2. /\ encodeUnsigned[k] \in Seq(Nat) /\ Len(encodeUnsigned[k]) \in Nat
      /\ Len(encodeUnsigned[k]) >= 1
  BY <1>1, FieldIs, FieldShort
<1>3. Occurs(encodeUnsigned[k], d, pos) /\ Occurs(s, d, pos + Len(encodeUnsigned[k]))
  BY <1>2, OccursParts DEF k
<1>4. limit \in Nat /\ limit <= Unbounded /\ k < limit
  BY <1>1, SizesAre DEF Limit, k
<1>5. decodeUnsigned(d, pos, limit) = [value |-> k, used |-> Len(encodeUnsigned[k])]
  BY <1>1, <1>3, <1>4, WrittenIsRead
<1> QED
  BY <1>2, <1>3, <1>5 DEF k

LEMMA AmountRead ==
    ASSUME NEW n \in Int, Len(bigintToTcBe(n)) < U64
    PROVE  decodeBigint(encodeBigint(n), 1, U64) # Refused
           /\ decodeBigint(encodeBigint(n), 1, U64).value = n
<1> DEFINE w == bigintToTcBe(n)
           e == encodeUnsigned[Len(w)]
           d == encodeBigint(n)
           size == decodeUnsigned(d, 1, U64)
           start == 1 + Len(e)
           mag == SubSeq(d, start, start + Len(w) - 1)
<1>1. w \in Seq(Nat) /\ tcBeToBigint(w) = n /\ Minimal(w)
  BY NumberWritten, BytesAreNats
<1>2. d = e \o w
  BY DEF encodeBigint
<1>3. Len(w) \in Nat
  BY <1>1
<1>4. e \in Seq(Nat)
  BY <1>3, FieldIs
<1> HIDE DEF w, d
<1>5. d \in Seq(Nat)
  BY <1>1, <1>2, <1>4
<1>6. Occurs(d, d, 1)
  BY <1>5, OccursWhole
<1>7. size = [value |-> Len(w), used |-> Len(e)] /\ Len(e) \in Nat /\ Occurs(w, d, start)
  <2>1. Len(w) < U64
    BY DEF w
  <2>2. Occurs(e \o w, d, 1)
    BY <1>2, <1>6
  <2> QED
    BY <1>1, <1>5, <2>1, <2>2, SizeRead, LimitsAre
<1> HIDE DEF e
<1>8. start \in Nat /\ start > 0 /\ start = 1 + size.used
  BY <1>7
<1>9. mag = w
  BY <1>1, <1>5, <1>7, <1>8, OccursIs
<1>10. start + Len(w) - 1 <= Len(d)
  BY <1>7 DEF Occurs
<1>11. size # Refused
  <2>1. DOMAIN Refused = {"refused"} /\ DOMAIN size = {"value", "used"}
    BY <1>7 DEF Refused
  <2> QED
    BY <2>1
<1>12. size.value = Len(w) /\ size.used = Len(e)
  BY <1>7
<1> HIDE DEF size
<1>13. decodeBigint(d, 1, U64) = [value |-> n, used |-> Len(e) + Len(w)]
  <2> DEFINE bad == \/ size = Refused
                    \/ start + Len(w) - 1 > Len(d)
                    \/ Len(w) > 1 /\ \/ mag[1] = 0 /\ mag[2] < Cont
                                     \/ mag[1] = Base - 1 /\ mag[2] >= Cont
  <2>1. decodeBigint(d, 1, U64) = IF bad THEN Refused
                 ELSE [value |-> tcBeToBigint(mag), used |-> Len(e) + Len(w)]
    BY <1>12, Zenon DEF decodeBigint, size
  <2>2. ~bad
    <3>1. ~(start + Len(w) - 1 > Len(d))
      BY <1>3, <1>5, <1>8, <1>10
    <3> HIDE DEF mag
    <3> QED
      BY <1>1, <1>9, <1>11, <3>1 DEF Minimal
  <2> HIDE DEF mag
  <2> QED
    BY <1>1, <1>9, <2>1, <2>2
<1>14. decodeBigint(d, 1, U64) # Refused
  <2>1. DOMAIN Refused = {"refused"} /\ DOMAIN [value |-> n, used |-> Len(e) + Len(w)] = {"value", "used"}
    BY DEF Refused
  <2> QED
    BY <1>13, <2>1
<1> QED
  BY <1>13, <1>14 DEF d

\* An amount that the recorder accepts from any bytes has the magnitude that the wallet would
\* write for it: no number has two.
THEOREM AmountAccepted ==
    ASSUME NEW d \in Seq(Byte), NEW r, r = decodeBigint(d, 1, U64), r # Refused
    PROVE  SubSeq(d, r.used - Len(bigintToTcBe(r.value)) + 1, r.used) = bigintToTcBe(r.value)
<1> DEFINE size == decodeUnsigned(d, 1, U64)
           start == 1 + size.used
           L == size.value
           s == SubSeq(d, start, start + L - 1)
           bad == \/ size = Refused
                  \/ start + L - 1 > Len(d)
                  \/ L > 1 /\ \/ s[1] = 0 /\ s[2] < Cont
                              \/ s[1] = Base - 1 /\ s[2] >= Cont
<1>1. r = IF bad THEN Refused ELSE [value |-> tcBeToBigint(s), used |-> size.used + L]
  BY Zenon DEF decodeBigint
<1>2. ~bad /\ r.value = tcBeToBigint(s) /\ r.used = size.used + L
  <2> HIDE DEF bad, size, s, L
  <2> QED
    BY <1>1
<1>3. d \in Seq(Nat)
  BY BytesAreNats
<1>4. L \in Nat /\ size.used \in Nat /\ size.used >= 1
  <2>1. size # Refused
    BY <1>2
  <2> QED
    BY <1>3, <2>1, ReadIsWritten, SizesAre
<1>5. Len(d) \in Nat /\ ~(start + L - 1 > Len(d))
  BY <1>2
<1> HIDE DEF size, L
<1>6. start \in Nat /\ start >= 1 /\ start + L - 1 \in Int /\ start + L - 1 <= Len(d)
      /\ r.used = start + L - 1 /\ r.used - L + 1 = start /\ r.used \in Nat
  <2> DEFINE u == size.used
             q == r.used
             n == Len(d)
  <2>1. q = u + L /\ u \in Nat /\ u >= 1 /\ L \in Nat /\ n \in Nat /\ ~(1 + u + L - 1 > n)
    BY <1>2, <1>4, <1>5
  <2> HIDE DEF u, q, n
  <2>2. /\ 1 + u \in Nat /\ 1 + u >= 1 /\ 1 + u + L - 1 \in Int /\ 1 + u + L - 1 <= n
        /\ q = 1 + u + L - 1 /\ q - L + 1 = 1 + u /\ q \in Nat
    BY <2>1
  <2> QED
    BY <2>2 DEF u, q, n
<1>7. s \in Seq(Byte) /\ Len(s) = L
  <2> DEFINE z == start + L - 1
  <2>1. start \in Nat /\ start >= 1 /\ z \in Int /\ z <= Len(d) /\ z - start + 1 = L /\ (L > 0 => z >= start)
    <3> HIDE DEF start
    <3> QED
      BY <1>4, <1>6
  <2> HIDE DEF start, z
  <2>2. SubSeq(d, start, z) \in Seq(Byte) /\ Len(SubSeq(d, start, z)) = L
    <3>1. \A i \in start .. z : i \in 1 .. Len(d)
      BY <1>5, <2>1
    <3> QED
      BY <1>4, <2>1, <3>1
  <2> QED
    BY <2>2 DEF z
<1>8. Minimal(s)
  <2> HIDE DEF s
  <2> QED
    BY <1>2, <1>7 DEF Minimal
<1>9. s = SubSeq(d, r.used - L + 1, r.used)
  BY <1>6
<1> HIDE DEF s, start, bad
<1> DEFINE v == tcBeToBigint(s)
           w == bigintToTcBe(v)
<1>10. CASE s = <<>> \/ s = << 0 >>
  <2>1. v = 0
    <3>1. s = <<>> => v = 0
      BY DEF tcBeToBigint
    <3>2. s = << 0 >> => v = 0
      <4> SUFFICES ASSUME s = << 0 >> PROVE v = 0
        OBVIOUS
      <4>1. << 0 >> # <<>> /\ << 0 >>[1] = 0 /\ ~(0 >= Cont)
        BY SizesAre
      <4>2. v = Magnitude(<< 0 >>)
        BY <4>1 DEF tcBeToBigint
      <4>3. << 0 >> = Append(<<>>, 0) /\ <<>> \in Seq(Nat)
        OBVIOUS
      <4>4. Magnitude(<< 0 >>) = Magnitude(<<>>) * Base + 0
        BY <4>3, MagnitudeAppend
      <4> QED
        BY <4>2, <4>4, MagnitudeEmpty, SizesAre
    <3> QED
      BY <1>10, <3>1, <3>2
  <2>2. w = <<>>
    BY <2>1, TcBeIs
  <2>3. Len(w) = 0 /\ r.value = v
    BY <1>2, <2>2
  <2> DEFINE u == r.used
  <2>4. u \in Nat /\ u - 0 + 1 = u + 1
    BY <1>6
  <2> HIDE DEF u
  <2>5. SubSeq(d, u + 1, u) = <<>>
    BY <2>4
  <2> HIDE DEF v, w
  <2>6. SubSeq(d, u - Len(w) + 1, u) = w
    BY <2>2, <2>3, <2>4, <2>5
  <2> QED
    BY <2>3, <2>6 DEF u, v, w
<1>11. CASE ~(s = <<>> \/ s = << 0 >>)
  <2>1. Len(s) >= 1
    BY <1>7, <1>11
  <2>2. v \in Int /\ v # 0
    <3> DEFINE k == Len(s) - 1
    <3>1. k \in Nat /\ Len(s) = k + 1
      BY <2>1
    <3> HIDE DEF k
    <3>2. v \in Int /\ IF s[1] >= Cont THEN v <= -1 ELSE v >= 1
      BY <1>7, <1>8, <1>11, <3>1, MinimalTakes
    <3> QED
      BY <3>2
  <2> HIDE DEF v
  <2>3. w \in Seq(Byte) /\ tcBeToBigint(w) = v /\ Minimal(w) /\ w # << 0 >>
    BY <2>2, NumberWritten
  <2> HIDE DEF w
  <2>4. Len(w) >= 1
    <3>1. w # <<>>
      BY <2>2, <2>3 DEF tcBeToBigint
    <3> QED
      BY <2>3, <3>1
  <2>5. s = w
    BY <1>7, <1>8, <1>11, <2>1, <2>3, <2>4, MinimalApart DEF v
  <2>6. r.value = v /\ Len(w) = L
    BY <1>2, <1>7, <2>5 DEF v
  <2> QED
    BY <1>9, <2>5, <2>6 DEF w
<1> QED
  BY <1>10, <1>11

LEMMA FieldsAreNot ==
    ASSUME NEW v, NEW u PROVE [value |-> v, used |-> u] # Refused
<1>1. DOMAIN Refused = {"refused"} /\ DOMAIN [value |-> v, used |-> u] = {"value", "used"}
  BY DEF Refused
<1> QED
  BY <1>1

LEMMA BidRead ==
    ASSUME NEW num \in Int, NEW den \in Int, den > 0, Len(encodeRational(num, den)) < U64
    PROVE  LET r == decodeRational(encodeRational(num, den), 1, U64)
           IN r # Refused /\ r.num = num /\ r.den = den
<1> DEFINE n == bigintToTcBe(num)
           m == bigintToTcBe(den)
           e == encodeUnsigned[Len(n)]
           body == e \o n \o m
           f == encodeUnsigned[Len(body)]
           d == encodeRational(num, den)
           total == decodeUnsigned(d, 1, U64)
           start == 1 + Len(f)
           nSize == decodeUnsigned(d, start, U64)
           numStart == start + Len(e)
           denStart == numStart + Len(n)
           last == start + Len(body) - 1
<1>1. /\ n \in Seq(Nat) /\ tcBeToBigint(n) = num /\ m \in Seq(Nat) /\ tcBeToBigint(m) = den
  BY NumberWritten, BytesAreNats
<1>2. d = f \o body /\ body = (e \o n) \o m
  BY DEF encodeRational
<1>3. Len(d) < U64
  OBVIOUS
<1> HIDE DEF n, m, d
<1>4. Len(n) \in Nat /\ Len(m) \in Nat /\ e \in Seq(Nat) /\ Len(e) \in Nat
  <2>1. Len(n) \in Nat /\ Len(m) \in Nat
    BY <1>1
  <2> QED
    BY <2>1, FieldIs, FieldShort
<1> HIDE DEF e, body
<1>5. e \o n \in Seq(Nat) /\ Len(e \o n) = Len(e) + Len(n) /\ body \in Seq(Nat)
      /\ Len(body) = Len(e) + Len(n) + Len(m) /\ Len(body) \in Nat
  <2>1. e \o n \in Seq(Nat) /\ Len(e \o n) = Len(e) + Len(n)
    BY <1>1, <1>4
  <2> DEFINE x == e \o n
  <2> HIDE DEF x
  <2>2. x \o m \in Seq(Nat) /\ Len(x \o m) = Len(x) + Len(m)
    BY <1>1, <2>1 DEF x
  <2> QED
    BY <1>2, <1>4, <2>1, <2>2 DEF x
<1>6. f \in Seq(Nat) /\ Len(f) \in Nat
  BY <1>5, FieldIs, FieldShort
<1> HIDE DEF f
<1>7. d \in Seq(Nat) /\ Len(d) = Len(f) + Len(body)
  BY <1>2, <1>5, <1>6
<1>8. Occurs(d, d, 1)
  BY <1>7, OccursWhole
<1>9. Len(body) < U64 /\ Len(n) < U64
  BY <1>3, <1>4, <1>5, <1>6, <1>7, SizesAre
<1>10. /\ total = [value |-> Len(body), used |-> Len(f)] /\ Occurs(body, d, start)
  <2>1. Occurs(encodeUnsigned[Len(body)] \o body, d, 1)
    BY <1>2, <1>8 DEF f
  <2>2. /\ decodeUnsigned(d, 1, U64) =
               [value |-> Len(body), used |-> Len(encodeUnsigned[Len(body)])]
        /\ Occurs(body, d, 1 + Len(encodeUnsigned[Len(body)]))
    <3>1. body \in Seq(Nat) /\ d \in Seq(Nat) /\ Len(body) < U64 /\ Limit(U64)
      BY <1>5, <1>7, <1>9, LimitsAre
    <3>2. 1 \in Nat /\ 1 > 0
      OBVIOUS
    <3> QED
      BY <2>1, <3>1, <3>2, SizeRead
  <2> QED
    BY <2>2 DEF f
<1>11. start \in Nat /\ start > 0
  BY <1>6
<1>12. Occurs(e \o n, d, start) /\ Occurs(m, d, start + Len(e \o n))
  BY <1>1, <1>2, <1>5, <1>7, <1>10, <1>11, OccursParts
<1>13. nSize = [value |-> Len(n), used |-> Len(e)] /\ Occurs(n, d, numStart)
  <2> HIDE DEF start
  <2> QED
    BY <1>1, <1>7, <1>9, <1>11, <1>12, SizeRead, LimitsAre DEF e
<1>14. /\ numStart \in Nat /\ numStart > 0 /\ denStart \in Nat /\ denStart > 0
       /\ denStart = start + Len(e \o n) /\ last = denStart + Len(m) - 1
       /\ denStart - 1 = numStart + Len(n) - 1
  BY <1>4, <1>5, <1>11
<1>15. last <= Len(d)
  BY <1>10 DEF Occurs
<1>16. SubSeq(d, numStart, denStart - 1) = n
  <2> HIDE DEF numStart, denStart
  <2> QED
    BY <1>1, <1>7, <1>13, <1>14, OccursIs
<1>17. SubSeq(d, denStart, last) = m
  <2> HIDE DEF denStart, last
  <2> QED
    BY <1>1, <1>7, <1>12, <1>14, OccursIs
<1>18. Len(m) >= 1
  <2>1. m # <<>>
    BY <1>1 DEF tcBeToBigint
  <2> QED
    BY <1>1, <2>1
<1>19. total.used = Len(f) /\ total.value = Len(body) /\ nSize.used = Len(e)
       /\ nSize.value = Len(n) /\ total # Refused /\ nSize # Refused
  BY <1>10, <1>13, FieldsAreNot
<1>20. last \in Nat /\ ~(last > Len(d)) /\ ~(denStart > last)
  <2>1. last \in Nat /\ ~(denStart > last)
    BY <1>14, <1>18
  <2>2. Len(d) \in Nat
    BY <1>7
  <2> HIDE DEF last, denStart
  <2> QED
    BY <1>15, <2>1, <2>2
<1>21. ~(tcBeToBigint(SubSeq(d, denStart, last)) <= 0)
  <2> HIDE DEF denStart, last
  <2> QED
    BY <1>1, <1>17
<1> HIDE DEF total
<1>22. decodeRational(d, 1, U64) = [num |-> num, den |-> den, used |-> total.used + total.value]
  <2> DEFINE at == 1 + total.used
             size == decodeUnsigned(d, at, U64)
             from == at + size.used
             to == from + size.value
             z == at + total.value - 1
  <2>1. decodeRational(d, 1, U64) =
            IF total = Refused THEN Refused
            ELSE IF z > Len(d) \/ size = Refused THEN Refused
            ELSE IF to > z \/ tcBeToBigint(SubSeq(d, to, z)) <= 0 THEN Refused
            ELSE [num |-> tcBeToBigint(SubSeq(d, from, to - 1)),
                  den |-> tcBeToBigint(SubSeq(d, to, z)), used |-> total.used + total.value]
    BY Zenon DEF decodeRational, total
  <2>2. at = start
    BY <1>19
  <2> HIDE DEF at
  <2>3. size = nSize
    BY <2>2
  <2> HIDE DEF size
  <2>4. from = start + Len(e) /\ z = start + Len(body) - 1
    BY <1>19, <2>2, <2>3
  <2> HIDE DEF from, z
  <2>5. to = denStart
    BY <1>19, <2>3, <2>4
  <2> HIDE DEF to
  <2>6. from = numStart /\ z = last
    BY <2>4
  <2> HIDE DEF nSize, start, numStart, denStart, last
  <2> QED
    BY <1>1, <1>16, <1>17, <1>19, <1>20, <1>21, <2>1, <2>3, <2>5, <2>6
<1> DEFINE r == decodeRational(d, 1, U64)
<1>23. r # Refused
  <2>1. DOMAIN Refused = {"refused"} /\ DOMAIN r = {"num", "den", "used"}
    BY <1>22 DEF Refused
  <2> QED
    BY <2>1
<1>24. r.num = num /\ r.den = den
  BY <1>22
<1> QED
  BY <1>23, <1>24 DEF d

-----------------------------------------------------------------------------
(* Items and forms of every height. *)

Ground == [trees |-> Flat, forms |-> FlatForms]
Nest(S) == [typeCode : CodesOf("container"), children : Seq(S)]
NestForms(S) == [code : CodesOf("container"), items : Seq(S)]
Raised(b) == [trees |-> Flat \cup Nest(b.trees), forms |-> FlatForms \cup NestForms(b.forms)]

HeightsForm(f, D) == f = [n \in D |-> IF n = 0 THEN Ground ELSE Raised(f[n - 1])]

LEMMA HeightsUpTo == \A m \in Nat : \E f : HeightsForm(f, 0 .. m)
<1> DEFINE Good == {m \in Nat : \E f : HeightsForm(f, 0 .. m)}
<1>1. 0 \in Good
  <2> DEFINE f == [n \in 0 .. 0 |-> Ground]
  <2>1. \A n \in 0 .. 0 : n = 0
    OBVIOUS
  <2>2. HeightsForm(f, 0 .. 0)
    BY <2>1 DEF HeightsForm
  <2> QED
    BY <2>2
<1>2. ASSUME NEW m \in Nat, m \in Good PROVE m + 1 \in Good
  <2>1. PICK f : HeightsForm(f, 0 .. m)
    BY <1>2
  <2> DEFINE D == 0 .. m + 1
             g == [n \in D |-> IF n = m + 1 THEN Raised(f[m]) ELSE f[n]]
  <2>2. \A n \in 0 .. m : f[n] = IF n = 0 THEN Ground ELSE Raised(f[n - 1])
    BY <2>1, Zenon DEF HeightsForm
  <2>3. \A n \in D : /\ n = m + 1 => n - 1 = m /\ n # 0 /\ m \in D /\ m # m + 1
                     /\ n # m + 1 => n \in 0 .. m
                     /\ n # 0 => n - 1 \in D /\ n - 1 # m + 1
    OBVIOUS
  <2> HIDE DEF D
  <2>4. \A n \in D : g[n] = IF n = m + 1 THEN Raised(f[m]) ELSE f[n]
    OBVIOUS
  <2>5. g = [n \in D |-> g[n]]
    OBVIOUS
  <2> HIDE DEF g
  <2>6. ASSUME NEW n \in D PROVE g[n] = IF n = 0 THEN Ground ELSE Raised(g[n - 1])
    <3>1. n # 0 => g[n - 1] = f[n - 1]
      BY <2>3, <2>4
    <3>2. CASE n = m + 1
      BY <2>3, <2>4, <3>1, <3>2
    <3>3. CASE n # m + 1
      BY <2>2, <2>3, <2>4, <3>1, <3>3
    <3> QED
      BY <3>2, <3>3
  <2>7. HeightsForm(g, D)
    BY <2>5, <2>6, Zenon DEF HeightsForm
  <2> QED
    BY <2>7 DEF D
<1> HIDE DEF Good
<1>3. Nat \subseteq Good
  BY <1>1, <1>2, SetInduction
<1> QED
  BY <1>3 DEF Good

LEMMA HeightsSame ==
    ASSUME NEW m \in Nat, NEW k \in Nat, m <= k, NEW f, NEW g, HeightsForm(f, 0 .. m),
           HeightsForm(g, 0 .. k)
    PROVE  \A n \in 0 .. m : f[n] = g[n]
<1> DEFINE Good == {n \in Nat : n <= m => f[n] = g[n]}
<1>1. \A n \in 0 .. m : f[n] = IF n = 0 THEN Ground ELSE Raised(f[n - 1])
  BY Zenon DEF HeightsForm
<1>2. \A n \in 0 .. k : g[n] = IF n = 0 THEN Ground ELSE Raised(g[n - 1])
  BY Zenon DEF HeightsForm
<1>3. 0 \in Good
  <2>1. 0 \in 0 .. m /\ 0 \in 0 .. k
    OBVIOUS
  <2> QED
    BY <1>1, <1>2, <2>1
<1>4. ASSUME NEW n \in Nat, n \in Good PROVE n + 1 \in Good
  <2> SUFFICES ASSUME n + 1 <= m PROVE f[n + 1] = g[n + 1]
    OBVIOUS
  <2>1. n + 1 \in 0 .. m /\ n + 1 \in 0 .. k /\ n + 1 # 0 /\ (n + 1) - 1 = n /\ n <= m
    OBVIOUS
  <2>2. f[n + 1] = Raised(f[n])
    BY <1>1, <2>1
  <2>3. g[n + 1] = Raised(g[n])
    BY <1>2, <2>1
  <2>4. f[n] = g[n]
    BY <1>4, <2>1
  <2> QED
    BY <2>2, <2>3, <2>4
<1> HIDE DEF Good
<1>5. Nat \subseteq Good
  BY <1>3, <1>4, SetInduction
<1> QED
  BY <1>5 DEF Good

LEMMA HeightsAre ==
    /\ Heights[0] = Ground
    /\ \A n \in Nat : Heights[n + 1] = Raised(Heights[n])
<1> DEFINE Sol(m) == CHOOSE f : HeightsForm(f, 0 .. m)
           g == [n \in Nat |-> Sol(n)[n]]
<1>1. ASSUME NEW m \in Nat PROVE HeightsForm(Sol(m), 0 .. m)
  BY HeightsUpTo
<1> HIDE DEF Sol
<1>2. ASSUME NEW n \in Nat PROVE g[n] = IF n = 0 THEN Ground ELSE Raised(g[n - 1])
  <2>1. \A i \in 0 .. n : Sol(n)[i] = IF i = 0 THEN Ground ELSE Raised(Sol(n)[i - 1])
    BY <1>1, Zenon DEF HeightsForm
  <2>2. n \in 0 .. n
    OBVIOUS
  <2>3. n # 0 => Sol(n)[n - 1] = g[n - 1]
    <3> SUFFICES ASSUME n # 0 PROVE Sol(n)[n - 1] = g[n - 1]
      OBVIOUS
    <3> DEFINE k == n - 1
    <3>1. k \in Nat /\ k <= n /\ k \in 0 .. k
      OBVIOUS
    <3> HIDE DEF k
    <3>2. HeightsForm(Sol(k), 0 .. k) /\ HeightsForm(Sol(n), 0 .. n)
      BY <1>1, <3>1
    <3>3. \A i \in 0 .. k : Sol(k)[i] = Sol(n)[i]
      BY <3>1, <3>2, HeightsSame
    <3>4. g[k] = Sol(k)[k]
      BY <3>1
    <3> QED
      BY <3>1, <3>3, <3>4 DEF k
  <2>4. g[n] = Sol(n)[n]
    OBVIOUS
  <2> QED
    BY <2>1, <2>2, <2>3, <2>4
<1>3. g = [n \in Nat |-> g[n]]
  OBVIOUS
<1> HIDE DEF g
<1>4. HeightsForm(g, Nat)
  BY <1>2, <1>3, Zenon DEF HeightsForm
<1>5. Heights = CHOOSE f : HeightsForm(f, Nat)
  BY Zenon DEF Heights, HeightsForm, Ground, Raised, Nest, NestForms
<1>6. HeightsForm(Heights, Nat)
  BY <1>4, <1>5
<1>7. \A n \in Nat : Heights[n] = IF n = 0 THEN Ground ELSE Raised(Heights[n - 1])
  BY <1>6, Zenon DEF HeightsForm
<1>8. \A n \in Nat : n + 1 \in Nat /\ n + 1 # 0 /\ (n + 1) - 1 = n
  OBVIOUS
<1> QED
  BY <1>7, <1>8

Trees(n) == Heights[n].trees
Forms(n) == Heights[n].forms

LEMMA TreesAre ==
    /\ Trees(0) = Flat /\ Forms(0) = FlatForms
    /\ \A n \in Nat : /\ Trees(n + 1) = Flat \cup Nest(Trees(n))
                      /\ Forms(n + 1) = FlatForms \cup NestForms(Forms(n))
<1>1. Ground.trees = Flat /\ Ground.forms = FlatForms
  BY DEF Ground
<1>2. \A b : Raised(b).trees = Flat \cup Nest(b.trees) /\ Raised(b).forms = FlatForms \cup NestForms(b.forms)
  BY DEF Raised
<1> QED
  BY <1>1, <1>2, HeightsAre DEF Trees, Forms

LEMMA SeqsOfMore == ASSUME NEW S, NEW T, S \subseteq T PROVE Seq(S) \subseteq Seq(T)
OBVIOUS

LEMMA TreesGrow ==
    \A m, n \in Nat : m <= n => Trees(m) \subseteq Trees(n) /\ Forms(m) \subseteq Forms(n)
<1> DEFINE Good == {n \in Nat : Trees(n) \subseteq Trees(n + 1) /\ Forms(n) \subseteq Forms(n + 1)}
<1>1. 0 \in Good
  <2>1. Trees(0 + 1) = Flat \cup Nest(Trees(0)) /\ Forms(0 + 1) = FlatForms \cup NestForms(Forms(0))
    BY TreesAre
  <2>2. Trees(0) = Flat /\ Forms(0) = FlatForms
    BY TreesAre
  <2> QED
    BY <2>1, <2>2
<1>2. ASSUME NEW n \in Nat, n \in Good PROVE n + 1 \in Good
  <2> DEFINE m == n + 1
  <2>1. m \in Nat
    OBVIOUS
  <2> HIDE DEF m
  <2>2. Trees(m) \subseteq Trees(m + 1)
    <3>1. Trees(m) = Flat \cup Nest(Trees(n)) /\ Trees(m + 1) = Flat \cup Nest(Trees(m))
      BY <2>1, TreesAre DEF m
    <3>2. Seq(Trees(n)) \subseteq Seq(Trees(m))
      BY <1>2, SeqsOfMore DEF m
    <3>3. Nest(Trees(n)) \subseteq Nest(Trees(m))
      BY <3>2 DEF Nest
    <3> QED
      BY <3>1, <3>3
  <2>3. Forms(m) \subseteq Forms(m + 1)
    <3>1. Forms(m) = FlatForms \cup NestForms(Forms(n))
          /\ Forms(m + 1) = FlatForms \cup NestForms(Forms(m))
      BY <2>1, TreesAre DEF m
    <3>2. Seq(Forms(n)) \subseteq Seq(Forms(m))
      BY <1>2, SeqsOfMore DEF m
    <3>3. NestForms(Forms(n)) \subseteq NestForms(Forms(m))
      BY <3>2 DEF NestForms
    <3> QED
      BY <3>1, <3>3
  <2> QED
    BY <2>1, <2>2, <2>3 DEF m
<1> HIDE DEF Good
<1>3. Nat \subseteq Good
  BY <1>1, <1>2, SetInduction
<1>4. ASSUME NEW m \in Nat
      PROVE  \A k \in Nat : Trees(m) \subseteq Trees(m + k) /\ Forms(m) \subseteq Forms(m + k)
  <2> DEFINE Far == {k \in Nat : Trees(m) \subseteq Trees(m + k) /\ Forms(m) \subseteq Forms(m + k)}
  <2>1. 0 \in Far
    <3>1. m + 0 = m
      OBVIOUS
    <3> QED
      BY <3>1
  <2>2. ASSUME NEW k \in Nat, k \in Far PROVE k + 1 \in Far
    <3> DEFINE j == m + k
    <3>1. j \in Nat /\ m + (k + 1) = j + 1
      OBVIOUS
    <3> HIDE DEF j
    <3>2. Trees(j) \subseteq Trees(j + 1) /\ Forms(j) \subseteq Forms(j + 1)
      BY <1>3, <3>1 DEF Good
    <3>3. Trees(m) \subseteq Trees(j) /\ Forms(m) \subseteq Forms(j)
      BY <2>2 DEF j
    <3>4. Trees(m) \subseteq Trees(m + (k + 1)) /\ Forms(m) \subseteq Forms(m + (k + 1))
      BY <3>1, <3>2, <3>3
    <3> QED
      BY <3>4
  <2> HIDE DEF Far
  <2>3. Nat \subseteq Far
    BY <2>1, <2>2, SetInduction
  <2> QED
    BY <2>3 DEF Far
<1>5. ASSUME NEW m \in Nat, NEW n \in Nat, m <= n
      PROVE  Trees(m) \subseteq Trees(n) /\ Forms(m) \subseteq Forms(n)
  <2> DEFINE k == n - m
  <2>1. k \in Nat /\ m + k = n
    BY <1>5
  <2> HIDE DEF k
  <2> QED
    BY <1>4, <2>1
<1> QED
  BY <1>5

\* The categories and the numbers of the codes.
LEMMA CodesAre ==
    /\ \A c \in Codes : /\ c \in Int /\ c # 0 /\ c > -34 /\ c < 34
                        /\ sizeCategory(c) \in {"fixed", "variable", "vbcValue", "container"}
    /\ \A k : \A c \in CodesOf(k) : c \in Codes /\ sizeCategory(c) = k
<1>1. ASSUME NEW c \in Codes
      PROVE  /\ c \in Int /\ c # 0 /\ c > -34 /\ c < 34
             /\ sizeCategory(c) \in {"fixed", "variable", "vbcValue", "container"}
  BY DEF Codes, sizeCategory, EXPIRY_MODE, TAX_PARAMS, SHA256, AMOUNT, SEQ_ID, PARTICIPANT,
         RECORDING_BID, NOTE, DATA_BLOB
<1> QED
  BY <1>1 DEF CodesOf

IsFixed(it) == /\ sizeCategory(it.typeCode) = "fixed" /\ it.data \in [1 .. FixedSize -> Nat]
               /\ it = bytesItem(it.typeCode, it.data)
IsVariable(it) == /\ sizeCategory(it.typeCode) = "variable" /\ it.data \in Seq(Nat)
                  /\ it = bytesItem(it.typeCode, it.data)
IsVbc(it) == /\ sizeCategory(it.typeCode) = "vbcValue" /\ it.value \in 0 .. U64 - 1
             /\ it = vbcItem(it.typeCode, it.value)
IsContainer(it, S) == /\ sizeCategory(it.typeCode) = "container" /\ it.children \in Seq(S)
                      /\ it = containerItem(it.typeCode, it.children)

LEMMA FlatKinds ==
    ASSUME NEW it \in Flat
    PROVE  it.typeCode \in Codes /\ (IsFixed(it) \/ IsVariable(it) \/ IsVbc(it))
<1>1. CASE it \in [typeCode : CodesOf("fixed"), data : [1 .. FixedSize -> Nat]]
  <2>1. it.typeCode \in CodesOf("fixed") /\ it.data \in [1 .. FixedSize -> Nat]
        /\ it = [typeCode |-> it.typeCode, data |-> it.data]
    BY <1>1
  <2> QED
    BY <2>1, CodesAre DEF IsFixed, bytesItem
<1>2. CASE it \in [typeCode : CodesOf("variable"), data : Seq(Nat)]
  <2>1. it.typeCode \in CodesOf("variable") /\ it.data \in Seq(Nat)
        /\ it = [typeCode |-> it.typeCode, data |-> it.data]
    BY <1>2
  <2> QED
    BY <2>1, CodesAre DEF IsVariable, bytesItem
<1>3. CASE it \in [typeCode : CodesOf("vbcValue"), value : 0 .. U64 - 1]
  <2>1. it.typeCode \in CodesOf("vbcValue") /\ it.value \in 0 .. U64 - 1
        /\ it = [typeCode |-> it.typeCode, value |-> it.value]
    BY <1>3
  <2> QED
    BY <2>1, CodesAre DEF IsVbc, vbcItem
<1> QED
  BY <1>1, <1>2, <1>3 DEF Flat

LEMMA NestKinds ==
    ASSUME NEW S, NEW it \in Nest(S)
    PROVE  it.typeCode \in Codes /\ IsContainer(it, S)
<1>1. it.typeCode \in CodesOf("container") /\ it.children \in Seq(S)
      /\ it = [typeCode |-> it.typeCode, children |-> it.children]
  BY DEF Nest
<1> QED
  BY <1>1, CodesAre DEF IsContainer, containerItem

\* What an item of some height is.
LEMMA KindOf ==
    ASSUME NEW n \in Nat, NEW it \in Trees(n)
    PROVE  /\ it.typeCode \in Codes
           /\ \/ it \in Flat /\ (IsFixed(it) \/ IsVariable(it) \/ IsVbc(it))
              \/ n # 0 /\ IsContainer(it, Trees(n - 1))
<1>1. CASE n = 0
  BY <1>1, TreesAre, FlatKinds
<1>2. CASE n # 0
  <2> DEFINE m == n - 1
  <2>1. m \in Nat /\ n = m + 1
    BY <1>2
  <2> HIDE DEF m
  <2>2. it \in Flat \/ it \in Nest(Trees(m))
    BY <2>1, TreesAre
  <2>3. it \in Flat => it.typeCode \in Codes /\ (IsFixed(it) \/ IsVariable(it) \/ IsVbc(it))
    BY FlatKinds
  <2>4. it \in Nest(Trees(m)) => it.typeCode \in Codes /\ IsContainer(it, Trees(m))
    BY NestKinds
  <2> QED
    BY <1>2, <2>2, <2>3, <2>4 DEF m
<1> QED
  BY <1>1, <1>2

LEMMA FlatMade ==
    /\ \A c \in CodesOf("fixed") : \A s \in [1 .. FixedSize -> Nat] : bytesItem(c, s) \in Flat
    /\ \A c \in CodesOf("variable") : \A s \in Seq(Nat) : bytesItem(c, s) \in Flat
    /\ \A c \in CodesOf("vbcValue") : \A v \in 0 .. U64 - 1 : vbcItem(c, v) \in Flat
BY DEF Flat, bytesItem, vbcItem

LEMMA FlatIsTree == \A n \in Nat : Flat \subseteq Trees(n)
<1>1. \A n \in Nat : Trees(0) \subseteq Trees(n)
  BY TreesGrow
<1> QED
  BY <1>1, TreesAre

LEMMA ContainerMade ==
    ASSUME NEW n \in Nat, NEW c \in CodesOf("container"), NEW s \in Seq(Trees(n))
    PROVE  containerItem(c, s) \in Trees(n + 1)
<1>1. containerItem(c, s) \in Nest(Trees(n))
  BY DEF containerItem, Nest
<1> QED
  BY <1>1, TreesAre

\* What a form of some height is.
LEMMA FormKinds ==
    ASSUME NEW n \in Nat, NEW j \in Forms(n)
    PROVE  \/ sizeCategory(j.code) \in {"fixed", "variable", "vbcValue"}
           \/ n # 0 /\ sizeCategory(j.code) = "container" /\ j.items \in Seq(Forms(n - 1))
<1>0. ASSUME NEW i \in FlatForms PROVE sizeCategory(i.code) \in {"fixed", "variable", "vbcValue"}
  BY CodesAre DEF FlatForms
<1>1. CASE n = 0
  BY <1>0, <1>1, TreesAre
<1>2. CASE n # 0
  <2> DEFINE m == n - 1
  <2>1. m \in Nat /\ n = m + 1
    BY <1>2
  <2> HIDE DEF m
  <2>2. j \in FlatForms \/ j \in NestForms(Forms(m))
    BY <2>1, TreesAre
  <2>3. j \in NestForms(Forms(m)) =>
            sizeCategory(j.code) = "container" /\ j.items \in Seq(Forms(m))
    BY CodesAre DEF NestForms
  <2> QED
    BY <1>0, <1>2, <2>2, <2>3 DEF m
<1> QED
  BY <1>1, <1>2

-----------------------------------------------------------------------------
(* The functions over items. *)

Each(f, s) == [i \in 1 .. Len(s) |-> f[s[i]]]

LEMMA EachSame ==
    ASSUME NEW S, NEW s \in Seq(S), NEW f, NEW g, \A c \in S : f[c] = g[c]
    PROVE  Each(f, s) = Each(g, s)
<1>1. \A i \in 1 .. Len(s) : s[i] \in S
  OBVIOUS
<1> QED
  BY <1>1 DEF Each

Sized(s) == encodeUnsigned[Len(s)] \o s

EncodeBody(f, it) ==
    encodeSigned(it.typeCode) \o
        (IF sizeCategory(it.typeCode) = "fixed" THEN it.data
         ELSE IF sizeCategory(it.typeCode) = "variable" THEN Sized(it.data)
         ELSE IF sizeCategory(it.typeCode) = "vbcValue" THEN encodeUnsigned[it.value]
         ELSE Sized(FlattenSeq(Each(f, it.children))))
EncodeForm(f, S) == f = [it \in S |-> EncodeBody(f, it)]

SubstituteBody(f, it) ==
    IF isSeparable(it.typeCode) THEN bytesItem(SHA256, sha256Sync(encodeDataItem[it]))
    ELSE IF sizeCategory(it.typeCode) = "container"
    THEN containerItem(it.typeCode, Each(f, it.children))
    ELSE it
SubstituteForm(f, S) == f = [it \in S |-> SubstituteBody(f, it)]

JsonBody(f, it) ==
    IF sizeCategory(it.typeCode) \in {"fixed", "variable"}
    THEN [code |-> it.typeCode, hex |-> bytesToHex(it.data)]
    ELSE IF sizeCategory(it.typeCode) = "vbcValue"
    THEN [code |-> it.typeCode, number |-> Number(it.value)]
    ELSE [code |-> it.typeCode, items |-> Each(f, it.children)]
JsonForm(f, S) == f = [it \in S |-> JsonBody(f, it)]

ReadBody(f, j) ==
    IF sizeCategory(j.code) \in {"fixed", "variable"} THEN bytesItem(j.code, hexToBytes(j.hex))
    ELSE IF sizeCategory(j.code) = "vbcValue" THEN vbcItem(j.code, j.number)
    ELSE containerItem(j.code, Each(f, j.items))
ReadForm(f, S) == f = [j \in S |-> ReadBody(f, j)]

LEMMA DepthIs == Depth \in Nat /\ Depth >= 2 /\ MaxLen <= 2 * Depth + 1 /\ Tree = Trees(Depth)
                 /\ Form = Forms(Depth)
<1>1. MaxLen \in Nat
  BY SizesAre
<1>2. MaxLen \div 2 \in Nat /\ MaxLen <= 2 * (MaxLen \div 2) + 1
  BY <1>1
<1>3. Depth = 2 + (MaxLen \div 2)
  BY DEF Depth
<1> DEFINE h == MaxLen \div 2
<1> HIDE DEF h
<1>4. h \in Nat /\ MaxLen <= 2 * h + 1 /\ Depth = 2 + h
  BY <1>2, <1>3 DEF h
<1>5. Depth \in Nat /\ Depth >= 2 /\ MaxLen <= 2 * Depth + 1
  BY <1>1, <1>4
<1> QED
  BY <1>5 DEF Tree, Form, Trees, Forms

LEMMA EncodeSame ==
    ASSUME NEW n \in Nat, NEW it \in Trees(n), NEW f, NEW g,
           n # 0 => \A c \in Trees(n - 1) : f[c] = g[c]
    PROVE  EncodeBody(f, it) = EncodeBody(g, it)
<1>1. CASE it \in Flat /\ (IsFixed(it) \/ IsVariable(it) \/ IsVbc(it))
  <2>1. sizeCategory(it.typeCode) \in {"fixed", "variable", "vbcValue"}
    BY <1>1 DEF IsFixed, IsVariable, IsVbc
  <2> QED
    BY <2>1 DEF EncodeBody
<1>2. CASE n # 0 /\ IsContainer(it, Trees(n - 1))
  <2>1. it.children \in Seq(Trees(n - 1)) /\ \A c \in Trees(n - 1) : f[c] = g[c]
    BY <1>2 DEF IsContainer
  <2>2. Each(f, it.children) = Each(g, it.children)
    BY <2>1, EachSame
  <2> QED
    BY <2>2, Zenon DEF EncodeBody
<1> QED
  BY <1>1, <1>2, KindOf

LEMMA EncodeExist == \A n \in Nat : \E f : EncodeForm(f, Trees(n))
<1> DEFINE Good == {n \in Nat : \E f : EncodeForm(f, Trees(n))}
<1>1. 0 \in Good
  <2> DEFINE g == [it \in Trees(0) |-> EncodeBody(0, it)]
  <2>1. g = [it \in Trees(0) |-> EncodeBody(0, it)]
    OBVIOUS
  <2> HIDE DEF g
  <2>2. \A it \in Trees(0) : EncodeBody(0, it) = EncodeBody(g, it)
    BY EncodeSame
  <2>3. EncodeForm(g, Trees(0))
    BY <2>1, <2>2, Zenon DEF EncodeForm
  <2> QED
    BY <2>3
<1>2. ASSUME NEW n \in Nat, n \in Good PROVE n + 1 \in Good
  <2>1. PICK f : EncodeForm(f, Trees(n))
    BY <1>2
  <2> DEFINE m == n + 1
             g == [it \in Trees(m) |-> EncodeBody(f, it)]
  <2>2. m \in Nat /\ m # 0 /\ m - 1 = n /\ n <= m
    OBVIOUS
  <2>3. g = [it \in Trees(m) |-> EncodeBody(f, it)]
    OBVIOUS
  <2> HIDE DEF m, g
  <2>4. Trees(n) \subseteq Trees(m)
    BY <2>2, TreesGrow
  <2>5. \A c \in Trees(n) : f[c] = EncodeBody(f, c)
    BY <2>1, Zenon DEF EncodeForm
  <2>6. \A c \in Trees(n) : f[c] = g[c]
    BY <2>3, <2>4, <2>5
  <2>7. \A it \in Trees(m) : EncodeBody(f, it) = EncodeBody(g, it)
    BY <2>2, <2>6, EncodeSame
  <2>8. EncodeForm(g, Trees(m))
    BY <2>3, <2>7, Zenon DEF EncodeForm
  <2> QED
    BY <2>2, <2>8 DEF m
<1> HIDE DEF Good
<1>3. Nat \subseteq Good
  BY <1>1, <1>2, SetInduction
<1> QED
  BY <1>3 DEF Good

LEMMA EncodeIs == \A it \in Tree : encodeDataItem[it] = EncodeBody(encodeDataItem, it)
<1>1. encodeDataItem = CHOOSE f : EncodeForm(f, Tree)
  BY Zenon DEF encodeDataItem, EncodeForm, EncodeBody, Each, Sized
<1>2. Depth \in Nat /\ Tree = Trees(Depth)
  BY DepthIs
<1>3. \E f : EncodeForm(f, Tree)
  BY <1>2, EncodeExist
<1>4. EncodeForm(encodeDataItem, Tree)
  BY <1>1, <1>3
<1> QED
  BY <1>4, Zenon DEF EncodeForm

LEMMA SubstituteSame ==
    ASSUME NEW n \in Nat, NEW it \in Trees(n), NEW f, NEW g,
           n # 0 => \A c \in Trees(n - 1) : f[c] = g[c]
    PROVE  SubstituteBody(f, it) = SubstituteBody(g, it)
<1>1. CASE it \in Flat /\ (IsFixed(it) \/ IsVariable(it) \/ IsVbc(it))
  <2>1. sizeCategory(it.typeCode) \in {"fixed", "variable", "vbcValue"}
    BY <1>1 DEF IsFixed, IsVariable, IsVbc
  <2> QED
    BY <2>1 DEF SubstituteBody
<1>2. CASE n # 0 /\ IsContainer(it, Trees(n - 1))
  <2>1. it.children \in Seq(Trees(n - 1)) /\ \A c \in Trees(n - 1) : f[c] = g[c]
    BY <1>2 DEF IsContainer
  <2>2. Each(f, it.children) = Each(g, it.children)
    BY <2>1, EachSame
  <2> QED
    BY <2>2, Zenon DEF SubstituteBody
<1> QED
  BY <1>1, <1>2, KindOf

LEMMA SubstituteExist == \A n \in Nat : \E f : SubstituteForm(f, Trees(n))
<1> DEFINE Good == {n \in Nat : \E f : SubstituteForm(f, Trees(n))}
<1>1. 0 \in Good
  <2> DEFINE g == [it \in Trees(0) |-> SubstituteBody(0, it)]
  <2>1. g = [it \in Trees(0) |-> SubstituteBody(0, it)]
    OBVIOUS
  <2> HIDE DEF g
  <2>2. \A it \in Trees(0) : SubstituteBody(0, it) = SubstituteBody(g, it)
    BY SubstituteSame
  <2>3. SubstituteForm(g, Trees(0))
    BY <2>1, <2>2, Zenon DEF SubstituteForm
  <2> QED
    BY <2>3
<1>2. ASSUME NEW n \in Nat, n \in Good PROVE n + 1 \in Good
  <2>1. PICK f : SubstituteForm(f, Trees(n))
    BY <1>2
  <2> DEFINE m == n + 1
             g == [it \in Trees(m) |-> SubstituteBody(f, it)]
  <2>2. m \in Nat /\ m # 0 /\ m - 1 = n /\ n <= m
    OBVIOUS
  <2>3. g = [it \in Trees(m) |-> SubstituteBody(f, it)]
    OBVIOUS
  <2> HIDE DEF m, g
  <2>4. Trees(n) \subseteq Trees(m)
    BY <2>2, TreesGrow
  <2>5. \A c \in Trees(n) : f[c] = SubstituteBody(f, c)
    BY <2>1, Zenon DEF SubstituteForm
  <2>6. \A c \in Trees(n) : f[c] = g[c]
    BY <2>3, <2>4, <2>5
  <2>7. \A it \in Trees(m) : SubstituteBody(f, it) = SubstituteBody(g, it)
    BY <2>2, <2>6, SubstituteSame
  <2>8. SubstituteForm(g, Trees(m))
    BY <2>3, <2>7, Zenon DEF SubstituteForm
  <2> QED
    BY <2>2, <2>8 DEF m
<1> HIDE DEF Good
<1>3. Nat \subseteq Good
  BY <1>1, <1>2, SetInduction
<1> QED
  BY <1>3 DEF Good

LEMMA SubstituteIs == \A it \in Tree : substituteSeparable[it] = SubstituteBody(substituteSeparable, it)
<1>1. substituteSeparable = CHOOSE f : SubstituteForm(f, Tree)
  BY Zenon DEF substituteSeparable, SubstituteForm, SubstituteBody, Each
<1>2. Depth \in Nat /\ Tree = Trees(Depth)
  BY DepthIs
<1>3. \E f : SubstituteForm(f, Tree)
  BY <1>2, SubstituteExist
<1>4. SubstituteForm(substituteSeparable, Tree)
  BY <1>1, <1>3
<1> QED
  BY <1>4, Zenon DEF SubstituteForm

LEMMA JsonSame ==
    ASSUME NEW n \in Nat, NEW it \in Trees(n), NEW f, NEW g,
           n # 0 => \A c \in Trees(n - 1) : f[c] = g[c]
    PROVE  JsonBody(f, it) = JsonBody(g, it)
<1>1. CASE it \in Flat /\ (IsFixed(it) \/ IsVariable(it) \/ IsVbc(it))
  <2>1. sizeCategory(it.typeCode) \in {"fixed", "variable", "vbcValue"}
    BY <1>1 DEF IsFixed, IsVariable, IsVbc
  <2> QED
    BY <2>1 DEF JsonBody
<1>2. CASE n # 0 /\ IsContainer(it, Trees(n - 1))
  <2>1. it.children \in Seq(Trees(n - 1)) /\ \A c \in Trees(n - 1) : f[c] = g[c]
    BY <1>2 DEF IsContainer
  <2>2. Each(f, it.children) = Each(g, it.children)
    BY <2>1, EachSame
  <2> QED
    BY <2>2, Zenon DEF JsonBody
<1> QED
  BY <1>1, <1>2, KindOf

LEMMA JsonExist == \A n \in Nat : \E f : JsonForm(f, Trees(n))
<1> DEFINE Good == {n \in Nat : \E f : JsonForm(f, Trees(n))}
<1>1. 0 \in Good
  <2> DEFINE g == [it \in Trees(0) |-> JsonBody(0, it)]
  <2>1. g = [it \in Trees(0) |-> JsonBody(0, it)]
    OBVIOUS
  <2> HIDE DEF g
  <2>2. \A it \in Trees(0) : JsonBody(0, it) = JsonBody(g, it)
    BY JsonSame
  <2>3. JsonForm(g, Trees(0))
    BY <2>1, <2>2, Zenon DEF JsonForm
  <2> QED
    BY <2>3
<1>2. ASSUME NEW n \in Nat, n \in Good PROVE n + 1 \in Good
  <2>1. PICK f : JsonForm(f, Trees(n))
    BY <1>2
  <2> DEFINE m == n + 1
             g == [it \in Trees(m) |-> JsonBody(f, it)]
  <2>2. m \in Nat /\ m # 0 /\ m - 1 = n /\ n <= m
    OBVIOUS
  <2>3. g = [it \in Trees(m) |-> JsonBody(f, it)]
    OBVIOUS
  <2> HIDE DEF m, g
  <2>4. Trees(n) \subseteq Trees(m)
    BY <2>2, TreesGrow
  <2>5. \A c \in Trees(n) : f[c] = JsonBody(f, c)
    BY <2>1, Zenon DEF JsonForm
  <2>6. \A c \in Trees(n) : f[c] = g[c]
    BY <2>3, <2>4, <2>5
  <2>7. \A it \in Trees(m) : JsonBody(f, it) = JsonBody(g, it)
    BY <2>2, <2>6, JsonSame
  <2>8. JsonForm(g, Trees(m))
    BY <2>3, <2>7, Zenon DEF JsonForm
  <2> QED
    BY <2>2, <2>8 DEF m
<1> HIDE DEF Good
<1>3. Nat \subseteq Good
  BY <1>1, <1>2, SetInduction
<1> QED
  BY <1>3 DEF Good

LEMMA JsonIs == \A it \in Tree : toJson[it] = JsonBody(toJson, it)
<1>1. toJson = CHOOSE f : JsonForm(f, Tree)
  BY Zenon DEF toJson, JsonForm, JsonBody, Each
<1>2. Depth \in Nat /\ Tree = Trees(Depth)
  BY DepthIs
<1>3. \E f : JsonForm(f, Tree)
  BY <1>2, JsonExist
<1>4. JsonForm(toJson, Tree)
  BY <1>1, <1>3
<1> QED
  BY <1>4, Zenon DEF JsonForm

LEMMA ReadSame ==
    ASSUME NEW n \in Nat, NEW it \in Forms(n), NEW f, NEW g,
           n # 0 => \A c \in Forms(n - 1) : f[c] = g[c]
    PROVE  ReadBody(f, it) = ReadBody(g, it)
<1>1. CASE sizeCategory(it.code) \in {"fixed", "variable", "vbcValue"}
  BY <1>1 DEF ReadBody
<1>2. CASE n # 0 /\ sizeCategory(it.code) = "container" /\ it.items \in Seq(Forms(n - 1))
  <2>1. it.items \in Seq(Forms(n - 1)) /\ \A c \in Forms(n - 1) : f[c] = g[c]
    BY <1>2
  <2>2. Each(f, it.items) = Each(g, it.items)
    BY <2>1, EachSame
  <2> QED
    BY <2>2, Zenon DEF ReadBody
<1> QED
  BY <1>1, <1>2, FormKinds

LEMMA ReadExist == \A n \in Nat : \E f : ReadForm(f, Forms(n))
<1> DEFINE Good == {n \in Nat : \E f : ReadForm(f, Forms(n))}
<1>1. 0 \in Good
  <2> DEFINE g == [it \in Forms(0) |-> ReadBody(0, it)]
  <2>1. g = [it \in Forms(0) |-> ReadBody(0, it)]
    OBVIOUS
  <2> HIDE DEF g
  <2>2. \A it \in Forms(0) : ReadBody(0, it) = ReadBody(g, it)
    BY ReadSame
  <2>3. ReadForm(g, Forms(0))
    BY <2>1, <2>2, Zenon DEF ReadForm
  <2> QED
    BY <2>3
<1>2. ASSUME NEW n \in Nat, n \in Good PROVE n + 1 \in Good
  <2>1. PICK f : ReadForm(f, Forms(n))
    BY <1>2
  <2> DEFINE m == n + 1
             g == [it \in Forms(m) |-> ReadBody(f, it)]
  <2>2. m \in Nat /\ m # 0 /\ m - 1 = n /\ n <= m
    OBVIOUS
  <2>3. g = [it \in Forms(m) |-> ReadBody(f, it)]
    OBVIOUS
  <2> HIDE DEF m, g
  <2>4. Forms(n) \subseteq Forms(m)
    BY <2>2, TreesGrow
  <2>5. \A c \in Forms(n) : f[c] = ReadBody(f, c)
    BY <2>1, Zenon DEF ReadForm
  <2>6. \A c \in Forms(n) : f[c] = g[c]
    BY <2>3, <2>4, <2>5
  <2>7. \A it \in Forms(m) : ReadBody(f, it) = ReadBody(g, it)
    BY <2>2, <2>6, ReadSame
  <2>8. ReadForm(g, Forms(m))
    BY <2>3, <2>7, Zenon DEF ReadForm
  <2> QED
    BY <2>2, <2>8 DEF m
<1> HIDE DEF Good
<1>3. Nat \subseteq Good
  BY <1>1, <1>2, SetInduction
<1> QED
  BY <1>3 DEF Good

LEMMA ReadIs == \A it \in Form : fromJson[it] = ReadBody(fromJson, it)
<1>1. fromJson = CHOOSE f : ReadForm(f, Form)
  BY Zenon DEF fromJson, ReadForm, ReadBody, Each
<1>2. Depth \in Nat /\ Form = Forms(Depth)
  BY DepthIs
<1>3. \E f : ReadForm(f, Form)
  BY <1>2, ReadExist
<1>4. ReadForm(fromJson, Form)
  BY <1>1, <1>3
<1> QED
  BY <1>4, Zenon DEF ReadForm

-----------------------------------------------------------------------------
(* Contents one behind the other. *)

\* J[i] is what the first i parts make.
Joined(J, p) ==
    /\ J \in [0 .. Len(p) -> Seq(Nat)] /\ J[0] = <<>>
    /\ \A i \in 1 .. Len(p) : J[i] = J[i - 1] \o p[i]

FlattenForm(f, p) == f = [i \in 1 .. Len(p) |-> IF i = 1 THEN p[i] ELSE f[i - 1] \o p[i]]

LEMMA FlattenExists ==
    ASSUME NEW p \in Seq(Seq(Nat)) PROVE \E f : FlattenForm(f, p)
<1> DEFINE K == 1 .. Len(p)
           V == Seq(Nat)
           stop == {1}
           base == [i \in K |-> p[i]]
           before == [i \in K |-> i - 1]
           step == [i \in K |-> [s \in V |-> s \o p[i]]]
<1>1. \A i \in K : p[i] \in V
  OBVIOUS
<1>2. K \subseteq Nat /\ Descends(K, stop, before)
  BY DEF Descends
<1>3. \A i \in K \ stop : \A s \in V : step[i][s] \in V
  <2> SUFFICES ASSUME NEW i \in K, NEW s \in V PROVE s \o p[i] \in V
    OBVIOUS
  <2>1. p[i] \in V
    BY <1>1
  <2> QED
    BY <2>1
<1>4. \A i \in K : \A s \in V : base[i] = p[i] /\ step[i][s] = s \o p[i]
  OBVIOUS
<1>5. \A i \in K : (i \in stop <=> i = 1) /\ before[i] = i - 1 /\ base[i] = p[i]
                   /\ (i # 1 => i - 1 \in K)
  OBVIOUS
<1>6. \A i \in K \cap stop : base[i] \in V
  BY <1>1
<1> HIDE DEF K, V, stop, base, before, step
<1>7. Grounded(K, V, stop, base, before, step)
  BY <1>2, <1>3, <1>6 DEF Grounded
<1>8. PICK f : Solves(f, K, V, stop, base, before, step)
  BY <1>7, SolutionExists DEF Solved
<1>9. f \in [K -> V] /\ \A i \in K : f[i] = IF i \in stop THEN base[i] ELSE step[i][f[before[i]]]
  BY <1>8 DEF Solves
<1>10. \A i \in K : f[i] = IF i = 1 THEN p[i] ELSE f[i - 1] \o p[i]
  <2> SUFFICES ASSUME NEW i \in K PROVE f[i] = IF i = 1 THEN p[i] ELSE f[i - 1] \o p[i]
    OBVIOUS
  <2>1. f[i] = IF i = 1 THEN p[i] ELSE step[i][f[i - 1]]
    BY <1>5, <1>9
  <2>2. i # 1 => step[i][f[i - 1]] = f[i - 1] \o p[i]
    <3>1. i # 1 => f[i - 1] \in V
      BY <1>5, <1>9
    <3> QED
      BY <1>4, <3>1
  <2> QED
    BY <2>1, <2>2
<1>11. f = [i \in K |-> f[i]]
  BY <1>9
<1>12. FlattenForm(f, p)
  BY <1>10, <1>11, Zenon DEF FlattenForm, K
<1> QED
  BY <1>12

LEMMA FlattenIs ==
    ASSUME NEW p \in Seq(Seq(Nat))
    PROVE  \E J : Joined(J, p) /\ J[Len(p)] = FlattenSeq(p)
<1> DEFINE n == Len(p)
           f == CHOOSE g : FlattenForm(g, p)
           J == [i \in 0 .. n |-> IF i = 0 THEN <<>> ELSE f[i]]
<1>0. n \in Nat /\ \A i \in 1 .. n : p[i] \in Seq(Nat)
  OBVIOUS
<1>1. FlattenForm(f, p)
  BY FlattenExists
<1>2. FlattenSeq(p) = IF n = 0 THEN p ELSE f[n]
  BY Zenon DEF FlattenSeq, FlattenForm
<1> HIDE DEF f
<1>3. \A i \in 1 .. n : f[i] = IF i = 1 THEN p[i] ELSE f[i - 1] \o p[i]
  BY <1>1, Zenon DEF FlattenForm
<1>31. n = 0 => p = <<>>
  OBVIOUS
<1> HIDE DEF n
<1>4. \A i \in 1 .. n : f[i] \in Seq(Nat)
  <2> DEFINE Bad == {i \in 1 .. n : f[i] \notin Seq(Nat)}
  <2> SUFFICES ASSUME Bad # {} PROVE FALSE
    OBVIOUS
  <2>1. Bad \in SUBSET Nat
    BY <1>0
  <2>2. PICK i \in Bad : \A k \in Bad : i <= k
    BY <2>1, SmallestExists
  <2>3. i \in 1 .. n /\ f[i] \notin Seq(Nat) /\ p[i] \in Seq(Nat)
    BY <1>0, <2>2
  <2>4. i # 1
    BY <1>3, <2>3
  <2>5. i - 1 \in 1 .. n /\ ~(i <= i - 1)
    BY <1>0, <2>3, <2>4
  <2>6. f[i - 1] \in Seq(Nat)
    BY <2>2, <2>5
  <2>7. f[i] = f[i - 1] \o p[i]
    BY <1>3, <2>3, <2>4
  <2> QED
    BY <2>3, <2>6, <2>7
<1>5. \A i \in 0 .. n : i = 0 \/ i \in 1 .. n
  BY <1>0
<1>6. J \in [0 .. n -> Seq(Nat)] /\ J[0] = <<>> /\ \A i \in 1 .. n : J[i] = f[i]
  <2>1. \A i \in 0 .. n : J[i] \in Seq(Nat)
    BY <1>4, <1>5
  <2>2. 0 \in 0 .. n /\ \A i \in 1 .. n : i \in 0 .. n /\ i # 0
    BY <1>0
  <2> QED
    BY <2>1, <2>2
<1> HIDE DEF J
<1>7. ASSUME NEW i \in 1 .. n PROVE J[i] = J[i - 1] \o p[i]
  <2>1. CASE i = 1
    <3>1. J[i] = p[i] /\ J[i - 1] = <<>>
      BY <1>3, <1>6, <2>1
    <3> QED
      BY <1>0, <3>1
  <2>2. CASE i # 1
    <3>1. i - 1 \in 1 .. n
      BY <1>0, <2>2
    <3> QED
      BY <1>3, <1>6, <2>2, <3>1
  <2> QED
    BY <2>1, <2>2
<1>8. J[n] = FlattenSeq(p)
  <2>1. n # 0 => n \in 1 .. n
    BY <1>0
  <2> QED
    BY <1>2, <1>31, <1>6, <2>1
<1>9. Joined(J, p)
  BY <1>6, <1>7 DEF Joined, n
<1> QED
  BY <1>8, <1>9 DEF n

LEMMA JoinedGrow ==
    ASSUME NEW p \in Seq(Seq(Nat)), NEW J, Joined(J, p)
    PROVE  /\ \A i \in 0 .. Len(p) : J[i] \in Seq(Nat) /\ Len(J[i]) \in Nat
           /\ \A i \in 1 .. Len(p) : /\ Len(p[i]) \in Nat /\ i - 1 \in 0 .. Len(p)
                                     /\ Len(J[i]) = Len(J[i - 1]) + Len(p[i])
           /\ \A i \in 0 .. Len(p) : Len(J[i]) <= Len(J[Len(p)])
<1> DEFINE n == Len(p)
<1>0. n \in Nat /\ \A i \in 1 .. n : p[i] \in Seq(Nat) /\ Len(p[i]) \in Nat
  OBVIOUS
<1>1. \A i \in 0 .. n : J[i] \in Seq(Nat) /\ Len(J[i]) \in Nat
  <2>1. \A i \in 0 .. n : J[i] \in Seq(Nat)
    BY DEF Joined
  <2> QED
    BY <2>1
<1>2. ASSUME NEW i \in 1 .. n
      PROVE  i - 1 \in 0 .. n /\ i \in 0 .. n /\ Len(J[i]) = Len(J[i - 1]) + Len(p[i])
  <2>1. i - 1 \in 0 .. n /\ i \in 0 .. n
    BY <1>0
  <2>2. J[i] = J[i - 1] \o p[i] /\ J[i - 1] \in Seq(Nat) /\ p[i] \in Seq(Nat)
    BY <1>0, <1>1, <2>1 DEF Joined
  <2>3. Len(J[i]) = Len(J[i - 1]) + Len(p[i])
    BY <2>2
  <2> QED
    BY <2>1, <2>3
<1> HIDE DEF n
<1>3. \A i \in 0 .. n : Len(J[i]) <= Len(J[n])
  <2> DEFINE Good == {k \in Nat : k <= n => Len(J[n - k]) <= Len(J[n])}
  <2>1. 0 \in Good
    <3>1. n - 0 = n /\ n \in 0 .. n
      BY <1>0
    <3> QED
      BY <1>1, <3>1
  <2>2. ASSUME NEW k \in Nat, k \in Good PROVE k + 1 \in Good
    <3> SUFFICES ASSUME k + 1 <= n PROVE Len(J[n - (k + 1)]) <= Len(J[n])
      OBVIOUS
    <3> DEFINE i == n - k
    <3>1. i \in 1 .. n /\ i - 1 = n - (k + 1) /\ k <= n /\ n \in 0 .. n
      BY <1>0
    <3> HIDE DEF i
    <3>2. Len(J[i]) = Len(J[i - 1]) + Len(p[i]) /\ Len(J[i - 1]) \in Nat /\ Len(p[i]) \in Nat
          /\ Len(J[n]) \in Nat
      BY <1>0, <1>1, <1>2, <3>1
    <3>3. Len(J[i]) <= Len(J[n])
      BY <2>2, <3>1 DEF i
    <3>4. Len(J[i - 1]) <= Len(J[n])
      <4> DEFINE a == Len(J[i - 1])
                 b == Len(p[i])
                 c == Len(J[n])
      <4>1. a \in Nat /\ b \in Nat /\ c \in Nat /\ a + b <= c
        BY <3>2, <3>3
      <4> HIDE DEF a, b, c
      <4>2. a <= c
        BY <4>1
      <4> QED
        BY <4>2 DEF a, c
    <3> QED
      BY <3>1, <3>4
  <2> HIDE DEF Good
  <2>3. Nat \subseteq Good
    BY <2>1, <2>2, SetInduction
  <2>4. ASSUME NEW i \in 0 .. n PROVE Len(J[i]) <= Len(J[n])
    <3> DEFINE k == n - i
    <3>1. k \in Nat /\ k <= n /\ n - k = i
      BY <1>0
    <3> HIDE DEF k
    <3>2. Len(J[n - k]) <= Len(J[n])
      BY <2>3, <3>1 DEF Good
    <3> QED
      BY <3>1, <3>2
  <2> QED
    BY <2>4
<1> QED
  BY <1>0, <1>1, <1>2, <1>3 DEF n

LEMMA JoinedOccur ==
    ASSUME NEW p \in Seq(Seq(Nat)), NEW J, Joined(J, p), NEW d \in Seq(Nat), NEW pos \in Nat,
           Occurs(J[Len(p)], d, pos)
    PROVE  \A i \in 1 .. Len(p) : Occurs(p[i], d, pos + Len(J[i - 1]))
<1> DEFINE n == Len(p)
<1>0. n \in Nat /\ \A i \in 1 .. n : p[i] \in Seq(Nat) /\ Len(p[i]) \in Nat
  OBVIOUS
<1>1. \A i \in 0 .. n : J[i] \in Seq(Nat) /\ Len(J[i]) \in Nat
  BY JoinedGrow
<1>2. \A i \in 1 .. n : J[i] = J[i - 1] \o p[i] /\ i - 1 \in 0 .. n
  BY JoinedGrow DEF Joined
<1>3. Occurs(J[n], d, pos)
  OBVIOUS
<1> HIDE DEF n
<1>4. ASSUME NEW i \in 1 .. n, Occurs(J[i], d, pos)
      PROVE  Occurs(J[i - 1], d, pos) /\ Occurs(p[i], d, pos + Len(J[i - 1]))
  <2>1. J[i] = J[i - 1] \o p[i] /\ J[i - 1] \in Seq(Nat) /\ p[i] \in Seq(Nat)
    BY <1>0, <1>1, <1>2
  <2>2. Occurs(J[i - 1] \o p[i], d, pos)
    BY <1>4, <2>1
  <2> QED
    BY <2>1, <2>2, OccursParts
<1> DEFINE Good == {k \in Nat : k <= n => Occurs(J[n - k], d, pos)}
<1>5. 0 \in Good
  <2>1. n - 0 = n
    BY <1>0
  <2> QED
    BY <1>3, <2>1
<1>6. ASSUME NEW k \in Nat, k \in Good PROVE k + 1 \in Good
  <2> SUFFICES ASSUME k + 1 <= n PROVE Occurs(J[n - (k + 1)], d, pos)
    OBVIOUS
  <2> DEFINE i == n - k
  <2>1. i \in 1 .. n /\ i - 1 = n - (k + 1) /\ k <= n
    BY <1>0
  <2>2. Occurs(J[i], d, pos)
    BY <1>6, <2>1
  <2> HIDE DEF i
  <2>3. Occurs(J[i - 1], d, pos)
    BY <1>4, <2>1, <2>2
  <2> QED
    BY <2>1, <2>3
<1> HIDE DEF Good
<1>7. Nat \subseteq Good
  BY <1>5, <1>6, SetInduction
<1>8. ASSUME NEW i \in 1 .. n PROVE Occurs(p[i], d, pos + Len(J[i - 1]))
  <2> DEFINE k == n - i
  <2>1. k \in Nat /\ k <= n /\ n - k = i
    BY <1>0
  <2> HIDE DEF k
  <2>2. Occurs(J[n - k], d, pos)
    BY <1>7, <2>1 DEF Good
  <2>3. Occurs(J[i], d, pos)
    BY <2>1, <2>2
  <2> QED
    BY <1>4, <2>3
<1> QED
  BY <1>8 DEF n

\* The code as it is written: twice its amount, and one more when it is negative.
Wire(c) == IF c >= 0 THEN 2 * c ELSE 2 * (-c) + 1

LEMMA SignedIs ==
    ASSUME NEW c \in Codes
    PROVE  /\ encodeSigned(c) = encodeUnsigned[Wire(c)] /\ Wire(c) \in Nat /\ Wire(c) < U64
           /\ Wire(c) # 1 /\ (IF Wire(c) % 2 = 0 THEN Wire(c) \div 2 ELSE -(Wire(c) \div 2)) = c
           /\ encodeSigned(c) \in Seq(Nat) /\ Len(encodeSigned(c)) \in Nat
           /\ Len(encodeSigned(c)) >= 1
<1>1. c \in Int /\ c # 0 /\ c > -34 /\ c < 34 /\ U64 \in Nat /\ U64 > 127
  BY CodesAre, SizesAre
<1>2. encodeSigned(c) = encodeUnsigned[Wire(c)]
  BY DEF encodeSigned, Wire
<1>3. Wire(c) \in Nat /\ Wire(c) < U64 /\ Wire(c) # 1
  BY <1>1 DEF Wire
<1>4. (IF Wire(c) % 2 = 0 THEN Wire(c) \div 2 ELSE -(Wire(c) \div 2)) = c
  <2>1. CASE c >= 0
    <3>1. Wire(c) = 2 * c
      BY <2>1 DEF Wire
    <3>2. (2 * c) % 2 = 0 /\ (2 * c) \div 2 = c
      BY <1>1, <2>1
    <3> QED
      BY <3>1, <3>2
  <2>2. CASE ~(c >= 0)
    <3> DEFINE b == -c
    <3>0. b \in Nat /\ -b = c
      BY <1>1, <2>2
    <3>1. Wire(c) = 2 * b + 1
      BY <2>2 DEF Wire
    <3> HIDE DEF b
    <3>2. (2 * b + 1) % 2 = 1 /\ (2 * b + 1) \div 2 = b
      BY <3>0
    <3> QED
      BY <3>0, <3>1, <3>2
  <2> QED
    BY <2>1, <2>2
<1> DEFINE w == Wire(c)
<1> HIDE DEF w
<1>5. encodeUnsigned[w] \in Seq(Nat) /\ Len(encodeUnsigned[w]) \in Nat /\ Len(encodeUnsigned[w]) >= 1
  BY <1>3, FieldIs, FieldShort DEF w
<1> QED
  BY <1>2, <1>3, <1>4, <1>5 DEF w

LEMMA CodeRead ==
    ASSUME NEW c \in Codes, NEW d \in Seq(Nat), NEW pos \in Nat, pos > 0, NEW limit, Limit(limit),
           Occurs(encodeSigned(c), d, pos)
    PROVE  decodeSigned(d, pos, limit) = [value |-> c, used |-> Len(encodeSigned(c))]
<1> DEFINE w == Wire(c)
           r == decodeUnsigned(d, pos, limit)
<1>1. /\ encodeSigned(c) = encodeUnsigned[w] /\ w \in Nat /\ w < U64 /\ w # 1
      /\ (IF w % 2 = 0 THEN w \div 2 ELSE -(w \div 2)) = c
  BY SignedIs
<1> HIDE DEF w
<1>2. limit \in Nat /\ limit <= Unbounded /\ w < limit
  BY <1>1, SizesAre DEF Limit
<1>3. r = [value |-> w, used |-> Len(encodeUnsigned[w])]
  BY <1>1, <1>2, WrittenIsRead
<1>4. r # Refused
  BY <1>3, FieldsAreNot
<1> HIDE DEF r
<1>5. r.value = w
  BY <1>3
<1>6. decodeSigned(d, pos, limit) =
          [r EXCEPT !.value = IF @ % 2 = 0 THEN @ \div 2 ELSE -(@ \div 2)]
  BY <1>1, <1>4, <1>5, Zenon DEF decodeSigned, r
<1>7. [r EXCEPT !.value = IF @ % 2 = 0 THEN @ \div 2 ELSE -(@ \div 2)] = [r EXCEPT !.value = c]
  BY <1>1, <1>5
<1>8. [r EXCEPT !.value = c] = [value |-> c, used |-> Len(encodeUnsigned[w])]
  BY <1>3
<1> QED
  BY <1>1, <1>6, <1>7, <1>8

LEMMA SizedLength ==
    ASSUME NEW s \in Seq(Nat)
    PROVE  /\ Sized(s) \in Seq(Nat) /\ Len(Sized(s)) = Len(encodeUnsigned[Len(s)]) + Len(s)
           /\ Len(encodeUnsigned[Len(s)]) \in Nat /\ Len(encodeUnsigned[Len(s)]) >= 1
<1> DEFINE k == Len(s)
           e == encodeUnsigned[k]
<1>1. k \in Nat
  OBVIOUS
<1> HIDE DEF k
<1>2. e \in Seq(Nat) /\ Len(e) \in Nat /\ Len(e) >= 1
  BY <1>1, FieldIs, FieldShort
<1> HIDE DEF e
<1>3. e \o s \in Seq(Nat) /\ Len(e \o s) = Len(e) + Len(s)
  BY <1>2
<1> QED
  BY <1>2, <1>3 DEF Sized, e, k

\* What a container holds.
Contents(it) == FlattenSeq(Each(encodeDataItem, it.children))

LEMMA EncodeFixed ==
    ASSUME NEW it \in Tree, IsFixed(it) PROVE encodeDataItem[it] = encodeSigned(it.typeCode) \o it.data
BY EncodeIs DEF EncodeBody, IsFixed

LEMMA EncodeVariable ==
    ASSUME NEW it \in Tree, IsVariable(it)
    PROVE  encodeDataItem[it] = encodeSigned(it.typeCode) \o Sized(it.data)
BY EncodeIs DEF EncodeBody, IsVariable

LEMMA EncodeVbc ==
    ASSUME NEW it \in Tree, IsVbc(it)
    PROVE  encodeDataItem[it] = encodeSigned(it.typeCode) \o encodeUnsigned[it.value]
BY EncodeIs DEF EncodeBody, IsVbc

LEMMA EncodeContainer ==
    ASSUME NEW it \in Tree, NEW S, IsContainer(it, S)
    PROVE  encodeDataItem[it] = encodeSigned(it.typeCode) \o Sized(Contents(it))
<1>1. encodeDataItem[it] = EncodeBody(encodeDataItem, it)
  BY EncodeIs
<1>2. sizeCategory(it.typeCode) = "container"
  BY DEF IsContainer
<1>3. EncodeBody(encodeDataItem, it) = encodeSigned(it.typeCode) \o Sized(Contents(it))
  BY <1>2 DEF EncodeBody, Contents
<1> QED
  BY <1>1, <1>3

LEMMA EachTyped ==
    ASSUME NEW S, NEW W, NEW s \in Seq(S), NEW f, \A c \in S : f[c] \in W
    PROVE  Each(f, s) \in Seq(W) /\ Len(Each(f, s)) = Len(s)
           /\ \A i \in 1 .. Len(s) : Each(f, s)[i] = f[s[i]]
<1>1. \A i \in 1 .. Len(s) : f[s[i]] \in W
  OBVIOUS
<1> DEFINE n == Len(s)
<1>2. n \in Nat
  OBVIOUS
<1> HIDE DEF n
<1>3. Each(f, s) = [i \in 1 .. n |-> f[s[i]]]
  BY DEF Each, n
<1> QED
  BY <1>1, <1>2, <1>3 DEF n

LEMMA SingleIs ==
    ASSUME NEW s \in [1 .. FixedSize -> Nat]
    PROVE  s \in Seq(Nat) /\ Len(s) = 1
<1>1. s \in [1 .. 1 -> Nat] /\ 1 \in Nat
  BY DEF FixedSize
<1>2. s \in Seq(Nat)
  BY <1>1, SeqDef
<1> DEFINE n == Len(s)
<1>3. DOMAIN s = 1 .. 1 /\ DOMAIN s = 1 .. n /\ n \in Nat
  BY <1>1, <1>2, LenProperties
<1> HIDE DEF n
<1>4. 1 \in 1 .. n /\ (n >= 1 => n \in 1 .. 1)
  BY <1>3
<1>5. n = 1
  BY <1>3, <1>4
<1> QED
  BY <1>2, <1>5 DEF n

LEMMA JoinedIs ==
    ASSUME NEW e \in Seq(Nat), NEW s \in Seq(Nat), NEW t, t = e \o s
    PROVE  /\ t \in Seq(Nat) /\ Len(e) \in Nat /\ Len(s) \in Nat /\ Len(t) \in Nat
           /\ Len(t) = Len(e) + Len(s)
BY ConcatProperties

\* What an item's code and contents make.
Written(it, s) == s \in Seq(Nat) /\ encodeDataItem[it] = encodeSigned(it.typeCode) \o s

LEMMA WrittenTyped ==
    ASSUME NEW it, it.typeCode \in Codes, NEW s, Written(it, s)
    PROVE  /\ encodeDataItem[it] \in Seq(Nat) /\ encodeSigned(it.typeCode) \in Seq(Nat)
           /\ Len(encodeDataItem[it]) \in Nat /\ Len(encodeSigned(it.typeCode)) \in Nat
           /\ Len(s) \in Nat /\ Len(encodeSigned(it.typeCode)) >= 1
           /\ Len(encodeDataItem[it]) = Len(encodeSigned(it.typeCode)) + Len(s)
<1> DEFINE e == encodeSigned(it.typeCode)
           t == encodeDataItem[it]
<1>1. e \in Seq(Nat) /\ Len(e) >= 1
  BY SignedIs
<1>2. s \in Seq(Nat) /\ t = e \o s
  BY DEF Written
<1> HIDE DEF e, t
<1>3. /\ t \in Seq(Nat) /\ Len(e) \in Nat /\ Len(s) \in Nat /\ Len(t) \in Nat
      /\ Len(t) = Len(e) + Len(s)
  BY <1>1, <1>2, JoinedIs
<1> QED
  BY <1>1, <1>3 DEF e, t

LEMMA FixedWritten ==
    ASSUME NEW it \in Tree, IsFixed(it) PROVE Written(it, it.data) /\ Len(it.data) = 1
<1>1. it.data \in [1 .. FixedSize -> Nat]
  BY DEF IsFixed
<1>2. it.data \in Seq(Nat) /\ Len(it.data) = 1
  BY <1>1, SingleIs
<1> QED
  BY <1>2, EncodeFixed DEF Written

LEMMA SizedWritten ==
    ASSUME NEW s \in Seq(Nat) PROVE Sized(s) \in Seq(Nat) /\ Len(Sized(s)) >= 1
<1> DEFINE a == Len(Sized(s))
           b == Len(encodeUnsigned[Len(s)])
           c == Len(s)
<1>1. Sized(s) \in Seq(Nat) /\ a = b + c /\ b \in Nat /\ b >= 1 /\ c \in Nat
  BY SizedLength
<1> HIDE DEF a, b, c
<1>2. a >= 1
  BY <1>1
<1> QED
  BY <1>1, <1>2 DEF a

LEMMA VariableWritten ==
    ASSUME NEW it \in Tree, IsVariable(it)
    PROVE  Written(it, Sized(it.data)) /\ it.data \in Seq(Nat)
<1>1. it.data \in Seq(Nat)
  BY DEF IsVariable
<1>2. Sized(it.data) \in Seq(Nat)
  BY <1>1, SizedWritten
<1> QED
  BY <1>1, <1>2, EncodeVariable DEF Written

LEMMA VbcWritten ==
    ASSUME NEW it \in Tree, IsVbc(it)
    PROVE  /\ Written(it, encodeUnsigned[it.value]) /\ it.value \in Nat /\ it.value < U64
           /\ Len(encodeUnsigned[it.value]) \in Nat /\ Len(encodeUnsigned[it.value]) >= 1
<1>1. it.value \in Nat /\ it.value < U64
  BY SizesAre DEF IsVbc
<1> DEFINE v == it.value
<1> HIDE DEF v
<1>2. encodeUnsigned[v] \in Seq(Nat) /\ Len(encodeUnsigned[v]) \in Nat
      /\ Len(encodeUnsigned[v]) >= 1
  BY <1>1, FieldIs, FieldShort DEF v
<1> QED
  BY <1>1, <1>2, EncodeVbc DEF Written, v

LEMMA ContainerWritten ==
    ASSUME NEW it \in Tree, NEW S, IsContainer(it, S),
           \A c \in S : encodeDataItem[c] \in Seq(Nat)
    PROVE  Contents(it) \in Seq(Nat) /\ Written(it, Sized(Contents(it)))
<1> DEFINE p == Each(encodeDataItem, it.children)
<1>1. it.children \in Seq(S)
  BY DEF IsContainer
<1>2. p \in Seq(Seq(Nat))
  BY <1>1, EachTyped
<1> HIDE DEF p
<1>3. PICK J : Joined(J, p) /\ J[Len(p)] = FlattenSeq(p)
  BY <1>2, FlattenIs
<1>4. Len(p) \in 0 .. Len(p)
  BY <1>2
<1>5. J[Len(p)] \in Seq(Nat)
  BY <1>3, <1>4 DEF Joined
<1>6. Contents(it) \in Seq(Nat)
  BY <1>3, <1>5 DEF Contents, p
<1>7. Sized(Contents(it)) \in Seq(Nat)
  BY <1>6, SizedWritten
<1>8. encodeDataItem[it] = encodeSigned(it.typeCode) \o Sized(Contents(it))
  BY EncodeContainer
<1> QED
  BY <1>6, <1>7, <1>8 DEF Written

\* Every item of a height within bounds has a written form, of two bytes at least.
LEMMA EncodeTyped ==
    \A it \in Tree : encodeDataItem[it] \in Seq(Nat) /\ Len(encodeDataItem[it]) \in Nat
                     /\ Len(encodeDataItem[it]) >= 2
<1> DEFINE Right(it) == encodeDataItem[it] \in Seq(Nat) /\ Len(encodeDataItem[it]) \in Nat
                        /\ Len(encodeDataItem[it]) >= 2
           Good == {n \in Nat : n <= Depth => \A it \in Trees(n) : Right(it)}
<1>0. Depth \in Nat /\ Tree = Trees(Depth)
  BY DepthIs
<1>1. \A n \in Nat : n <= Depth => Trees(n) \subseteq Tree
  BY <1>0, TreesGrow
<1>a. ASSUME NEW it \in Tree, it.typeCode \in Codes, NEW s, Written(it, s), Len(s) >= 1
      PROVE  Right(it)
  <2> DEFINE a == Len(encodeDataItem[it])
             b == Len(encodeSigned(it.typeCode))
             c == Len(s)
  <2>1. /\ encodeDataItem[it] \in Seq(Nat) /\ a \in Nat /\ b \in Nat /\ c \in Nat /\ b >= 1
        /\ a = b + c /\ c >= 1
    BY <1>a, WrittenTyped
  <2> HIDE DEF a, b, c
  <2>2. a >= 2
    BY <2>1
  <2> QED
    BY <2>1, <2>2 DEF a
<1> HIDE DEF Right
<1>2. ASSUME NEW it \in Tree, it.typeCode \in Codes, IsFixed(it) \/ IsVariable(it) \/ IsVbc(it)
      PROVE  Right(it)
  <2>3. CASE IsFixed(it)
    <3>1. Written(it, it.data) /\ Len(it.data) >= 1
      BY <2>3, FixedWritten
    <3> QED
      BY <1>2, <1>a, <3>1
  <2>4. CASE IsVariable(it)
    <3>1. Written(it, Sized(it.data)) /\ Len(Sized(it.data)) >= 1
      BY <2>4, VariableWritten, SizedWritten
    <3> QED
      BY <1>2, <1>a, <3>1
  <2>5. CASE IsVbc(it)
    <3>1. Written(it, encodeUnsigned[it.value]) /\ Len(encodeUnsigned[it.value]) >= 1
      BY <2>5, VbcWritten
    <3> QED
      BY <1>2, <1>a, <3>1
  <2> QED
    BY <1>2, <2>3, <2>4, <2>5
<1>3. ASSUME NEW it \in Tree, it.typeCode \in Codes, NEW S, IsContainer(it, S),
             \A c \in S : encodeDataItem[c] \in Seq(Nat)
      PROVE  Right(it)
  <2>1. Contents(it) \in Seq(Nat) /\ Written(it, Sized(Contents(it)))
    BY <1>3, ContainerWritten
  <2>2. Len(Sized(Contents(it))) >= 1
    BY <2>1, SizedWritten
  <2> QED
    BY <1>3, <1>a, <2>1, <2>2
<1>4. 0 \in Good
  <2>1. ASSUME NEW it \in Trees(0) PROVE Right(it)
    <3>1. it \in Tree /\ it.typeCode \in Codes /\ (IsFixed(it) \/ IsVariable(it) \/ IsVbc(it))
      BY <1>0, <1>1, KindOf
    <3> QED
      BY <1>2, <3>1
  <2> QED
    BY <2>1
<1>5. ASSUME NEW n \in Nat, n \in Good PROVE n + 1 \in Good
  <2> DEFINE m == n + 1
  <2>1. m \in Nat /\ m - 1 = n /\ m # 0
    OBVIOUS
  <2>2. m <= Depth => n <= Depth
    BY <1>0
  <2> HIDE DEF m
  <2>3. ASSUME m <= Depth, NEW it \in Trees(m) PROVE Right(it)
    <3>1. it \in Tree
      BY <1>1, <2>1, <2>3
    <3>2. /\ it.typeCode \in Codes
          /\ (IsFixed(it) \/ IsVariable(it) \/ IsVbc(it)) \/ IsContainer(it, Trees(n))
      BY <2>1, KindOf
    <3>3. \A c \in Trees(n) : encodeDataItem[c] \in Seq(Nat)
      BY <1>5, <2>2, <2>3 DEF Right
    <3> QED
      BY <1>2, <1>3, <3>1, <3>2, <3>3
  <2> QED
    BY <2>1, <2>3 DEF m
<1> HIDE DEF Good
<1>6. Nat \subseteq Good
  BY <1>4, <1>5, SetInduction
<1>7. \A it \in Tree : Right(it)
  BY <1>0, <1>6 DEF Good
<1> QED
  BY <1>7 DEF Right

-----------------------------------------------------------------------------
(* What a decoder reads, be it written by an encoder or not. *)

LEMMA FieldFits == \A v \in Nat : v < Power(Cont, Len(encodeUnsigned[v]))
<1> DEFINE Good == {n \in Nat : \A v \in Nat : v <= n => v < Power(Cont, Len(encodeUnsigned[v]))}
<1>a. Cont \in Nat /\ Cont > 3
  BY SizesAre
<1>b. Power(Cont, 1) = Cont
  <2>1. Power(Cont, 0) = 1 /\ Power(Cont, 0 + 1) = Cont * Power(Cont, 0)
    BY ContPowers
  <2> QED
    BY <1>a, <2>1
<1>0. ASSUME NEW v \in Nat, v < Cont PROVE v < Power(Cont, Len(encodeUnsigned[v]))
  <2>1. encodeUnsigned[v] = <<v>>
    BY <1>0, FieldIs
  <2>2. Len(encodeUnsigned[v]) = 1
    BY <2>1
  <2> QED
    BY <1>0, <1>b, <2>2
<1>1. 0 \in Good
  BY <1>0, <1>a
<1>2. ASSUME NEW n \in Nat, n \in Good PROVE n + 1 \in Good
  <2>1. ASSUME NEW v \in Nat, v <= n + 1, v >= Cont
        PROVE  v < Power(Cont, Len(encodeUnsigned[v]))
    <3> DEFINE h == Higher(v)
               s == encodeUnsigned[h]
               k == Len(s)
               P == Power(Cont, k)
    <3>1. h \in Nat /\ h < v
      BY <2>1, HigherIs
    <3>2. h <= n
      BY <2>1, <3>1
    <3>3. h < P
      BY <1>2, <3>1, <3>2
    <3>4. s \in Seq(Nat) /\ k \in Nat
      BY <3>1, FieldIs, FieldShort
    <3>5. encodeUnsigned[v] = <<Lowest(v)>> \o s /\ Lowest(v) \in Nat
      BY <2>1, FieldIs, HigherIs
    <3>6. Len(encodeUnsigned[v]) = k + 1
      <4> HIDE DEF s
      <4>1. <<Lowest(v)>> \in Seq(Nat) /\ Len(<<Lowest(v)>>) = 1
        BY <3>5, OneOf
      <4>2. Len(encodeUnsigned[v]) = Len(<<Lowest(v)>>) + Len(s)
        BY <3>4, <3>5, <4>1, JoinedIs
      <4> QED
        BY <3>4, <4>1, <4>2
    <3>7. P \in Nat /\ Power(Cont, k + 1) = Cont * P
      BY <3>4, ContPowers
    <3>8. v = (v % Cont) + Cont * h /\ v % Cont \in Nat /\ v % Cont < Cont
      BY <1>a, DivIs DEF Higher
    <3> DEFINE l == v % Cont
    <3> HIDE DEF h, s, k, P, l
    <3>9. Cont * h + Cont <= Cont * P
      <4>1. h + 1 <= P
        BY <3>1, <3>3, <3>7
      <4>2. Cont * (h + 1) <= Cont * P
        BY <1>a, <3>1, <3>7, <4>1
      <4> QED
        BY <1>a, <3>1, <4>2
    <3>10. Cont * h \in Nat /\ Cont * P \in Nat
      BY <1>a, <3>1, <3>7
    <3>11. l \in Nat /\ l < Cont /\ v = l + Cont * h
      BY <3>8 DEF l, h
    <3> DEFINE ch == Cont * h
               cp == Cont * P
    <3> HIDE DEF ch, cp
    <3>12. ch + Cont <= cp /\ ch \in Nat /\ cp \in Nat /\ v = l + ch
      BY <3>9, <3>10, <3>11 DEF ch, cp
    <3>13. v < cp
      BY <1>a, <3>11, <3>12
    <3> QED
      BY <3>6, <3>7, <3>13 DEF cp
  <2>2. ASSUME NEW v \in Nat, v <= n + 1 PROVE v < Power(Cont, Len(encodeUnsigned[v]))
    BY <1>0, <1>a, <2>1, <2>2
  <2> QED
    BY <2>2
<1> HIDE DEF Good
<1>3. Nat \subseteq Good
  BY <1>1, <1>2, SetInduction
<1>4. ASSUME NEW v \in Nat PROVE v < Power(Cont, Len(encodeUnsigned[v]))
  <2>1. v \in Good /\ v <= v
    BY <1>3
  <2> QED
    BY <2>1 DEF Good
<1> QED
  BY <1>4

\* A greater number is not written shorter.
LEMMA FieldsGrow ==
    ASSUME NEW a \in Nat, NEW b \in Nat, a <= b
    PROVE  Len(encodeUnsigned[a]) <= Len(encodeUnsigned[b])
<1> DEFINE k == Len(encodeUnsigned[b])
<1>1. k \in Nat /\ k >= 1
  BY FieldShort
<1>2. b < Power(Cont, k)
  BY FieldFits
<1> DEFINE j == k - 1
<1> HIDE DEF k
<1>3. j \in Nat /\ k = j + 1
  BY <1>1
<1> HIDE DEF j
<1>4. Power(Cont, k) \in Nat
  BY <1>1, ContPowers
<1>5. a < Power(Cont, j + 1)
  BY <1>2, <1>3, <1>4
<1>6. Len(encodeUnsigned[a]) <= j + 1
  BY <1>3, <1>5, FieldShort
<1> QED
  BY <1>3, <1>6 DEF k

\* A code is read with the number of bytes that its own encoding takes, or more.
LEMMA SignedRead ==
    ASSUME NEW d \in Seq(Nat), NEW pos \in Nat, pos > 0, NEW limit \in Nat,
           NEW c, c = decodeSigned(d, pos, limit), c # Refused
    PROVE  /\ c.value \in Int /\ c.used \in Nat /\ c.used >= 1 /\ pos + c.used - 1 <= Len(d)
           /\ encodeSigned(c.value) \in Seq(Nat) /\ Len(encodeSigned(c.value)) <= c.used
           /\ \A other \in Nat : limit <= other => decodeSigned(d, pos, other) = c
<1> DEFINE r == decodeUnsigned(d, pos, limit)
           Signed2(w) == IF w % 2 = 0 THEN w \div 2 ELSE -(w \div 2)
           Of(x) == IF x = Refused \/ x.value = 1 THEN Refused
                    ELSE [x EXCEPT !.value = IF @ % 2 = 0 THEN @ \div 2 ELSE -(@ \div 2)]
<1>0. \A lim : decodeSigned(d, pos, lim) = Of(decodeUnsigned(d, pos, lim))
  BY Zenon DEF decodeSigned
<1>1. c = Of(r)
  BY <1>0
<1>2. r # Refused /\ r.value # 1
  BY <1>1
<1>3. /\ r.value \in Nat /\ r.used \in Nat /\ r.used >= 1 /\ pos + r.used - 1 <= Len(d)
      /\ Len(encodeUnsigned[r.value]) <= r.used
      /\ \A other \in Nat : limit <= other => decodeUnsigned(d, pos, other) = r
  BY <1>2, ReadIsWritten
<1>4. r = [value |-> r.value, used |-> r.used]
  <2>1. \/ r = Refused
        \/ r = [value |-> Spelt(d, EndOf(d, pos))[EndOf(d, pos) - pos],
                used |-> EndOf(d, pos) - pos + 1]
    BY DecodeIs
  <2>2. ASSUME NEW v, NEW u, r = [value |-> v, used |-> u]
        PROVE  r = [value |-> r.value, used |-> r.used]
    BY <2>2
  <2> HIDE DEF r
  <2> QED
    BY <1>2, <2>1, <2>2
<1> DEFINE w == r.value
           u == r.used
<1>5. c = [r EXCEPT !.value = IF @ % 2 = 0 THEN @ \div 2 ELSE -(@ \div 2)]
  BY <1>1, <1>2
<1>5a. r = [value |-> w, used |-> u]
  BY <1>4
<1>a. \A other \in Nat : limit <= other => decodeSigned(d, pos, other) = c
  BY <1>0, <1>1, <1>3
<1>b. w \in Nat /\ w # 1 /\ u \in Nat /\ u >= 1 /\ pos + u - 1 <= Len(d)
      /\ Len(encodeUnsigned[w]) <= u
  BY <1>2, <1>3
<1> HIDE DEF r, w, u
<1>6. c.value = Signed2(w) /\ c.used = u
  BY <1>5, <1>5a
<1>7. Signed2(w) \in Int /\ encodeSigned(Signed2(w)) = encodeUnsigned[w]
  <2> DEFINE h == w \div 2
  <2>1. h \in Nat /\ (w % 2 = 0 => w = 2 * h) /\ (w % 2 # 0 => w = 2 * h + 1)
    BY <1>b
  <2>2. Signed2(w) = IF w % 2 = 0 THEN h ELSE -h
    OBVIOUS
  <2> HIDE DEF h, Signed2
  <2>3. CASE w % 2 = 0
    <3>1. Signed2(w) = h /\ h >= 0
      BY <2>1, <2>2, <2>3
    <3>2. encodeSigned(h) = encodeUnsigned[2 * h]
      BY <3>1 DEF encodeSigned
    <3> QED
      BY <2>1, <2>3, <3>1, <3>2
  <2>4. CASE w % 2 # 0
    <3>1. Signed2(w) = -h /\ h > 0
      BY <1>b, <2>1, <2>2, <2>4
    <3>2. ~(-h >= 0) /\ -(-h) = h
      BY <2>1, <3>1
    <3>3. encodeSigned(-h) = encodeUnsigned[2 * h + 1]
      BY <3>2 DEF encodeSigned
    <3> QED
      BY <2>1, <2>4, <3>1, <3>3
  <2> QED
    BY <2>3, <2>4
<1>8. encodeUnsigned[w] \in Seq(Nat)
  BY <1>b, FieldIs
<1> HIDE DEF Signed2
<1> QED
  BY <1>6, <1>7, <1>8, <1>a, <1>b

Read(it, next) == [item |-> it, next |-> next]

\* What an item of each kind is read from; c is the code, b the field that follows it.
ReadsFixed(d, code, at, r) ==
    /\ sizeCategory(code) = "fixed" /\ at <= Len(d)
    /\ r = Read(bytesItem(code, SubSeq(d, at, at)), at + 1)
ReadsVbc(d, code, at, limit, b, r) ==
    /\ sizeCategory(code) = "vbcValue" /\ b = decodeUnsigned(d, at, limit) /\ b # Refused
    /\ r = Read(vbcItem(code, b.value), at + b.used)
ReadsVariable(d, code, at, limit, b, r) ==
    /\ sizeCategory(code) = "variable" /\ b = decodeUnsigned(d, at, limit) /\ b # Refused
    /\ at + b.used + b.value <= Len(d) + 1
    /\ r = Read(bytesItem(code, SubSeq(d, at + b.used, (at + b.used + b.value) - 1)),
                at + b.used + b.value)
ReadsContainer(d, code, at, limit, ch, b, r) ==
    /\ sizeCategory(code) = "container" /\ b = decodeUnsigned(d, at, limit) /\ b # Refused
    /\ at + b.used + b.value <= Len(d) + 1
    /\ ch[at + b.used][at + b.used + b.value] # Refused
    /\ r = Read(containerItem(code, ch[at + b.used][at + b.used + b.value].items),
                at + b.used + b.value)

LEMMA ReadIsNot == ASSUME NEW it, NEW next PROVE Read(it, next) # Refused
<1>1. DOMAIN Read(it, next) = {"item", "next"} /\ DOMAIN Refused = {"refused"}
  BY DEF Read, Refused
<1> QED
  BY <1>1

LEMMA CategoriesAre ==
    ASSUME NEW c
    PROVE  sizeCategory(c) \in {"fixed", "variable", "vbcValue", "container", "unknown"}
BY DEF sizeCategory

LEMMA BodyOfFixed ==
    ASSUME NEW d \in Seq(Nat), NEW code, NEW at \in Nat, NEW limit, NEW ch,
           sizeCategory(code) = "fixed"
    PROVE  DecodeBody(d, code, at, limit, ch) =
               IF at <= Len(d) THEN Read(bytesItem(code, SubSeq(d, at, at)), at + 1)
               ELSE Refused
<1>1. DecodeBody(d, code, at, limit, ch) = ReadBytes(d, code, at, at + 1)
  BY DEF DecodeBody, FixedSize
<1>2. (at + 1 > Len(d) + 1 <=> ~(at <= Len(d))) /\ (at + 1) - 1 = at
  OBVIOUS
<1>3. ReadBytes(d, code, at, at + 1) =
          IF at <= Len(d) THEN Read(bytesItem(code, SubSeq(d, at, at)), at + 1) ELSE Refused
  BY <1>2, Zenon DEF ReadBytes, Read
<1> QED
  BY <1>1, <1>3

LEMMA BodyOfVbc ==
    ASSUME NEW d, NEW code, NEW at, NEW limit, NEW ch, sizeCategory(code) = "vbcValue",
           NEW b, b = decodeUnsigned(d, at, limit)
    PROVE  DecodeBody(d, code, at, limit, ch) =
               IF b = Refused THEN Refused ELSE Read(vbcItem(code, b.value), at + b.used)
BY DEF DecodeBody, Read

LEMMA BodyOfVariable ==
    ASSUME NEW d, NEW code, NEW at, NEW limit, NEW ch, sizeCategory(code) = "variable",
           NEW b, b = decodeUnsigned(d, at, limit)
    PROVE  DecodeBody(d, code, at, limit, ch) =
               IF b = Refused THEN Refused
               ELSE ReadBytes(d, code, at + b.used, at + b.used + b.value)
BY DEF DecodeBody

LEMMA BodyOfContainer ==
    ASSUME NEW d, NEW code, NEW at, NEW limit, NEW ch, sizeCategory(code) = "container",
           NEW b, b = decodeUnsigned(d, at, limit)
    PROVE  DecodeBody(d, code, at, limit, ch) =
               IF b = Refused THEN Refused
               ELSE ReadContainer(d, code, at + b.used, at + b.used + b.value, ch)
BY DEF DecodeBody

LEMMA BodyUnknown ==
    ASSUME NEW d, NEW code, NEW at, NEW limit, NEW ch, sizeCategory(code) = "unknown"
    PROVE  DecodeBody(d, code, at, limit, ch) = Refused
BY DEF DecodeBody

LEMMA BodyKinds ==
    ASSUME NEW d \in Seq(Nat), NEW code, NEW at \in Nat, at > 0, NEW limit \in Nat, NEW ch, NEW r,
           r = DecodeBody(d, code, at, limit, ch), r # Refused, NEW b,
           b = decodeUnsigned(d, at, limit)
    PROVE  \/ ReadsFixed(d, code, at, r)
           \/ ReadsVbc(d, code, at, limit, b, r)
           \/ ReadsVariable(d, code, at, limit, b, r)
           \/ ReadsContainer(d, code, at, limit, ch, b, r)
<1>0. b # Refused => at + b.used \in Nat /\ at + b.used + b.value \in Nat
  <2>1. b # Refused => b.used \in Nat /\ b.value \in Nat
    BY ReadIsWritten
  <2> QED
    BY <2>1
<1>1. CASE sizeCategory(code) = "fixed"
  BY <1>1, BodyOfFixed DEF ReadsFixed
<1>2. CASE sizeCategory(code) = "vbcValue"
  BY <1>2, BodyOfVbc DEF ReadsVbc
<1>3. CASE sizeCategory(code) = "variable"
  <2> DEFINE s == at + b.used
             e == at + b.used + b.value
  <2>1. b # Refused /\ r = ReadBytes(d, code, s, e)
    BY <1>3, BodyOfVariable
  <2>2. s \in Nat /\ e \in Nat
    BY <1>0, <2>1
  <2> HIDE DEF s, e
  <2>3. e <= Len(d) + 1 /\ r = Read(bytesItem(code, SubSeq(d, s, e - 1)), e)
    <3>1. ~(e > Len(d) + 1) /\ r = Read(bytesItem(code, SubSeq(d, s, e - 1)), e)
      BY <2>1, Zenon DEF ReadBytes, Read
    <3> QED
      BY <2>2, <3>1
  <2> QED
    BY <1>3, <2>1, <2>3, Zenon DEF ReadsVariable, s, e
<1>4. CASE sizeCategory(code) = "container"
  <2> DEFINE s == at + b.used
             e == at + b.used + b.value
  <2>1. b # Refused /\ r = ReadContainer(d, code, s, e, ch)
    BY <1>4, BodyOfContainer
  <2>2. s \in Nat /\ e \in Nat
    BY <1>0, <2>1
  <2> HIDE DEF s, e
  <2>3. e <= Len(d) + 1 /\ ch[s][e] # Refused
        /\ r = Read(containerItem(code, ch[s][e].items), e)
    <3>1. ~(e > Len(d) + 1) /\ ch[s][e] # Refused
          /\ r = Read(containerItem(code, ch[s][e].items), e)
      BY <2>1, Zenon DEF ReadContainer, Read
    <3> QED
      BY <2>2, <3>1
  <2> QED
    BY <1>4, <2>1, <2>3 DEF ReadsContainer, s, e
<1>5. CASE sizeCategory(code) = "unknown"
  BY <1>5, BodyUnknown
<1> QED
  BY <1>1, <1>2, <1>3, <1>4, <1>5, CategoriesAre

\* An item read ends behind its code and its field, within the string.
LEMMA BodyEnds ==
    ASSUME NEW d \in Seq(Nat), NEW code, NEW at \in Nat, at > 0, NEW limit \in Nat, NEW ch, NEW r,
           r = DecodeBody(d, code, at, limit, ch), r # Refused
    PROVE  r.next \in Nat /\ r.next > at /\ r.next <= Len(d) + 1
<1> DEFINE b == decodeUnsigned(d, at, limit)
           n == r.next
           u == b.used
           v == b.value
<1>1. b # Refused => u \in Nat /\ v \in Nat /\ u >= 1 /\ at + u - 1 <= Len(d)
  BY ReadIsWritten
<1>2. \/ ReadsFixed(d, code, at, r)
      \/ ReadsVbc(d, code, at, limit, b, r)
      \/ ReadsVariable(d, code, at, limit, b, r)
      \/ ReadsContainer(d, code, at, limit, ch, b, r)
  BY BodyKinds
<1> HIDE DEF b
<1>3. \/ at <= Len(d) /\ n = at + 1
      \/ b # Refused /\ n = at + u
      \/ b # Refused /\ at + u + v <= Len(d) + 1 /\ n = at + u + v
  <2>0. \A it, next : Read(it, next).next = next
    BY DEF Read
  <2> HIDE DEF n
  <2>1. ReadsFixed(d, code, at, r) => at <= Len(d) /\ n = at + 1
    BY <2>0, Zenon DEF ReadsFixed, n
  <2>2. ReadsVbc(d, code, at, limit, b, r) => b # Refused /\ n = at + u
    BY <2>0, Zenon DEF ReadsVbc, n
  <2>3. ReadsVariable(d, code, at, limit, b, r) =>
            b # Refused /\ at + u + v <= Len(d) + 1 /\ n = at + u + v
    BY <2>0, Zenon DEF ReadsVariable, n
  <2>4. ReadsContainer(d, code, at, limit, ch, b, r) =>
            b # Refused /\ at + u + v <= Len(d) + 1 /\ n = at + u + v
    BY <2>0, Zenon DEF ReadsContainer, n
  <2> QED
    BY <1>2, <2>1, <2>2, <2>3, <2>4, Zenon
<1>4. Len(d) \in Nat
  OBVIOUS
<1> HIDE DEF n, u, v
<1> DEFINE l == Len(d)
<1>4a. l \in Nat
  BY <1>4
<1>4b. \/ at <= l /\ n = at + 1
       \/ b # Refused /\ n = at + u
       \/ b # Refused /\ at + u + v <= l + 1 /\ n = at + u + v
  BY <1>3
<1> HIDE DEF l
<1>5. n \in Nat /\ n > at /\ n <= l + 1
  <2>1. CASE at <= l /\ n = at + 1
    BY <1>4a, <2>1
  <2>2. CASE b # Refused /\ n = at + u
    BY <1>1, <1>4a, <2>2 DEF l
  <2>3. CASE b # Refused /\ at + u + v <= l + 1 /\ n = at + u + v
    BY <1>1, <1>4a, <2>3
  <2> QED
    BY <1>4b, <2>1, <2>2, <2>3
<1> QED
  BY <1>5 DEF n, l

\* What is read at a place depends on the children behind it only.
LEMMA BodyNear ==
    ASSUME NEW d \in Seq(Nat), NEW code, NEW at \in Nat, at > 0, NEW limit \in Nat, NEW f, NEW g,
           \A q \in at + 1 .. Len(d) + 1 : f[q] = g[q]
    PROVE  DecodeBody(d, code, at, limit, f) = DecodeBody(d, code, at, limit, g)
<1> DEFINE b == decodeUnsigned(d, at, limit)
           s == at + b.used
           e == at + b.used + b.value
<1>1. CASE sizeCategory(code) = "container"
  <2>1. CASE b = Refused
    BY <1>1, <2>1, BodyOfContainer
  <2>2. CASE b # Refused
    <3>1. s \in at + 1 .. Len(d) + 1
      <4>1. b.used \in Nat /\ b.used >= 1 /\ at + b.used - 1 <= Len(d)
        BY <2>2, ReadIsWritten
      <4> DEFINE u == b.used
      <4> HIDE DEF u
      <4>2. u \in Nat /\ u >= 1 /\ at + u - 1 <= Len(d)
        BY <4>1 DEF u
      <4>3. at + u \in at + 1 .. Len(d) + 1
        BY <4>2
      <4> QED
        BY <4>3 DEF u
    <3>2. f[s] = g[s]
      BY <3>1
    <3>3. DecodeBody(d, code, at, limit, f) = ReadContainer(d, code, s, e, f)
      BY <1>1, <2>2, BodyOfContainer
    <3>4. DecodeBody(d, code, at, limit, g) = ReadContainer(d, code, s, e, g)
      BY <1>1, <2>2, BodyOfContainer
    <3> HIDE DEF s, e, b
    <3>5. ReadContainer(d, code, s, e, f) = ReadContainer(d, code, s, e, g)
      BY <3>2 DEF ReadContainer
    <3> QED
      BY <3>3, <3>4, <3>5
  <2> QED
    BY <2>1, <2>2
<1>2. CASE sizeCategory(code) # "container"
  <2>1. sizeCategory(code) \in {"fixed", "variable", "vbcValue", "unknown"}
    BY <1>2, CategoriesAre
  <2>2. CASE sizeCategory(code) = "fixed"
    BY <2>2, BodyOfFixed
  <2>3. CASE sizeCategory(code) = "vbcValue"
    BY <2>3, BodyOfVbc
  <2>4. CASE sizeCategory(code) = "variable"
    BY <2>4, BodyOfVariable
  <2>5. CASE sizeCategory(code) = "unknown"
    BY <2>5, BodyUnknown
  <2> QED
    BY <2>1, <2>2, <2>3, <2>4, <2>5
<1> QED
  BY <1>1, <1>2

LEMMA ItemNear ==
    ASSUME NEW d \in Seq(Nat), NEW pos \in Nat, pos > 0, NEW limit \in Nat, NEW f, NEW g,
           \A q \in pos + 1 .. Len(d) + 1 : f[q] = g[q]
    PROVE  decodeDataItem(d, pos, limit, f) = decodeDataItem(d, pos, limit, g)
<1> DEFINE c == decodeSigned(d, pos, limit)
<1>1. CASE c = Refused
  BY <1>1 DEF decodeDataItem
<1>2. CASE c # Refused
  <2>1. c.used \in Nat /\ c.used >= 1
    BY <1>2, SignedRead
  <2> DEFINE u == c.used
             at == pos + u
  <2>2. u \in Nat /\ u >= 1
    BY <2>1
  <2> HIDE DEF u
  <2>3. at \in Nat /\ at > 0 /\ (\A q \in at + 1 .. Len(d) + 1 : q \in pos + 1 .. Len(d) + 1)
    BY <2>2
  <2>4. DecodeBody(d, c.value, at, limit, f) = DecodeBody(d, c.value, at, limit, g)
    <3> DEFINE k == c.value
    <3> HIDE DEF at, k
    <3>1. \A q \in at + 1 .. Len(d) + 1 : f[q] = g[q]
      BY <2>3
    <3>2. DecodeBody(d, k, at, limit, f) = DecodeBody(d, k, at, limit, g)
      BY <2>3, <3>1, BodyNear
    <3> QED
      BY <3>2 DEF k
  <2> QED
    BY <1>2, <2>4, Zenon DEF decodeDataItem, at, u
<1> QED
  BY <1>1, <1>2

\* An item takes two bytes at least.
LEMMA ItemEnds ==
    ASSUME NEW d \in Seq(Nat), NEW pos \in Nat, pos > 0, NEW limit \in Nat, NEW ch, NEW r,
           r = decodeDataItem(d, pos, limit, ch), r # Refused
    PROVE  r.next \in Nat /\ r.next >= pos + 2 /\ r.next <= Len(d) + 1
<1> DEFINE c == decodeSigned(d, pos, limit)
           u == c.used
           at == pos + u
           n == r.next
<1>1. c # Refused /\ r = DecodeBody(d, c.value, at, limit, ch)
  BY Zenon DEF decodeDataItem
<1>2. u \in Nat /\ u >= 1
  BY <1>1, SignedRead
<1>3. at \in Nat /\ at >= pos + 1 /\ at > 0
  BY <1>2
<1> HIDE DEF at
<1>4. n \in Nat /\ n > at /\ n <= Len(d) + 1
  BY <1>1, <1>3, BodyEnds
<1> HIDE DEF n
<1>5. n \in Nat /\ n >= pos + 2 /\ n <= Len(d) + 1
  BY <1>3, <1>4
<1> QED
  BY <1>5 DEF n

-----------------------------------------------------------------------------
(* The children of a container, from the last one back. *)

Places(d) == 1 .. Len(d) + 1
ChildRow(ch, d, limit, pos) ==
    [end \in Places(d) |->
        IF pos = end THEN [items |-> <<>>]
        ELSE IF pos > end THEN Refused
        ELSE ReadChild(decodeDataItem(d, pos, limit, ch), end, ch)]
ChildrenForm(ch, d, limit) == ch = [pos \in Places(d) |-> ChildRow(ch, d, limit, pos)]

LEMMA RowNear ==
    ASSUME NEW d \in Seq(Nat), NEW pos \in Nat, pos > 0, NEW limit \in Nat, NEW f, NEW g,
           \A q \in pos + 1 .. Len(d) + 1 : f[q] = g[q]
    PROVE  ChildRow(f, d, limit, pos) = ChildRow(g, d, limit, pos)
<1> DEFINE c == decodeDataItem(d, pos, limit, f)
<1>1. decodeDataItem(d, pos, limit, g) = c
  BY ItemNear
<1>2. c # Refused => f[c.next] = g[c.next]
  <2>1. SUFFICES ASSUME c # Refused PROVE c.next \in pos + 1 .. Len(d) + 1
    BY <2>1
  <2> DEFINE n == c.next
  <2>2. n \in Nat /\ n >= pos + 2 /\ n <= Len(d) + 1
    BY <2>1, ItemEnds
  <2> HIDE DEF n
  <2>3. n \in pos + 1 .. Len(d) + 1
    BY <2>2
  <2> QED
    BY <2>3 DEF n
<1>3. \A end : ReadChild(c, end, f) = ReadChild(c, end, g)
  <2> HIDE DEF c
  <2>1. CASE c = Refused
    BY <2>1 DEF ReadChild
  <2>2. CASE c # Refused
    <3>1. f[c.next] = g[c.next]
      BY <1>2, <2>2
    <3> QED
      BY <3>1, Zenon DEF ReadChild
  <2> QED
    BY <2>1, <2>2
<1> HIDE DEF c
<1>4. ChildRow(f, d, limit, pos) =
          [end \in Places(d) |->
              IF pos = end THEN [items |-> <<>>]
              ELSE IF pos > end THEN Refused ELSE ReadChild(c, end, f)]
  BY Zenon DEF ChildRow, c
<1>5. ChildRow(g, d, limit, pos) =
          [end \in Places(d) |->
              IF pos = end THEN [items |-> <<>>]
              ELSE IF pos > end THEN Refused ELSE ReadChild(c, end, g)]
  BY <1>1, Zenon DEF ChildRow
<1> QED
  BY <1>3, <1>4, <1>5, Zenon

LEMMA ChildrenExist ==
    ASSUME NEW d \in Seq(Nat), NEW limit \in Nat
    PROVE  \E ch : ChildrenForm(ch, d, limit)
<1> DEFINE N == Len(d) + 1
           Back(f, m) == /\ f = [pos \in Places(d) |-> f[pos]]
                         /\ \A pos \in Places(d) : pos > N - m => f[pos] = ChildRow(f, d, limit, pos)
           Good == {m \in Nat : m <= N => \E f : Back(f, m)}
<1>0. N \in Nat /\ Places(d) = 1 .. N
  BY DEF Places
<1> HIDE DEF N
<1>1. 0 \in Good
  <2> DEFINE g == [pos \in Places(d) |-> 0]
  <2>1. g = [pos \in Places(d) |-> g[pos]]
    OBVIOUS
  <2> HIDE DEF g
  <2>2. Back(g, 0)
    BY <1>0, <2>1
  <2> QED
    BY <2>2
<1>2. ASSUME NEW m \in Nat, m \in Good PROVE m + 1 \in Good
  <2>1. SUFFICES ASSUME m + 1 <= N PROVE \E f : Back(f, m + 1)
    BY <2>1
  <2>2. m <= N
    BY <1>0, <2>1
  <2>3. PICK f : Back(f, m)
    BY <1>2, <2>2
  <2> DEFINE p == N - m
             row == ChildRow(f, d, limit, p)
             g == [pos \in Places(d) |-> IF pos = p THEN row ELSE f[pos]]
  <2>4. p \in Nat /\ p > 0 /\ p \in Places(d) /\ N - (m + 1) = p - 1
    BY <1>0, <2>1
  <2>5. g = [pos \in Places(d) |-> g[pos]] /\ g[p] = row
        /\ \A pos \in Places(d) : pos # p => g[pos] = f[pos]
    BY <2>4
  <2>6. \A pos \in Places(d) : pos > p => f[pos] = ChildRow(f, d, limit, pos)
    BY <2>3
  <2> HIDE DEF p, row, g
  <2>7. ASSUME NEW pos \in Places(d), pos >= p
        PROVE  ChildRow(g, d, limit, pos) = ChildRow(f, d, limit, pos)
    <3>1. pos \in Nat /\ pos > 0
      BY <1>0
    <3>2. \A q \in pos + 1 .. Len(d) + 1 : q \in Places(d) /\ q # p
      BY <2>4, <2>7, <3>1 DEF Places
    <3>3. \A q \in pos + 1 .. Len(d) + 1 : f[q] = g[q]
      BY <2>5, <3>2
    <3> QED
      BY <3>1, <3>3, RowNear
  <2>8. ASSUME NEW pos \in Places(d), pos > p - 1
        PROVE  g[pos] = ChildRow(g, d, limit, pos)
    <3>1. pos \in Nat /\ (pos = p \/ pos > p)
      BY <1>0, <2>4, <2>8
    <3>2. CASE pos = p
      <4>1. g[pos] = ChildRow(f, d, limit, p)
        BY <2>5, <3>2 DEF row
      <4>2. ChildRow(g, d, limit, p) = ChildRow(f, d, limit, p)
        BY <2>4, <2>7
      <4> QED
        BY <3>2, <4>1, <4>2
    <3>3. CASE pos > p
      <4>1. g[pos] = f[pos] /\ f[pos] = ChildRow(f, d, limit, pos)
        BY <2>4, <2>5, <2>6, <3>1, <3>3
      <4>2. ChildRow(g, d, limit, pos) = ChildRow(f, d, limit, pos)
        BY <2>4, <2>7, <3>1, <3>3
      <4> QED
        BY <4>1, <4>2
    <3> QED
      BY <3>1, <3>2, <3>3
  <2>9. Back(g, m + 1)
    BY <2>4, <2>5, <2>8
  <2> QED
    BY <2>9
<1> HIDE DEF Back, Good
<1>3. Nat \subseteq Good
  BY <1>1, <1>2, SetInduction
<1>b. N \in Good /\ N <= N
  BY <1>0, <1>3
<1>c. \E f : Back(f, N)
  BY <1>b DEF Good
<1>4. PICK f : Back(f, N)
  BY <1>c
<1> USE DEF Back
<1>5. \A pos \in Places(d) : pos > N - N
  BY <1>0
<1>6. \A pos \in Places(d) : f[pos] = ChildRow(f, d, limit, pos)
  BY <1>4, <1>5
<1>7. f = [pos \in Places(d) |-> f[pos]]
  BY <1>4
<1>8. f = [pos \in Places(d) |-> ChildRow(f, d, limit, pos)]
  BY <1>6, <1>7, Zenon
<1> QED
  BY <1>8, Zenon DEF ChildrenForm

\* The children between two places: none, or one and those behind it.
LEMMA ChildrenIs ==
    ASSUME NEW d \in Seq(Nat), NEW limit \in Nat, NEW ch, ch = DecodeChildren(d, limit),
           NEW pos \in Places(d), NEW end \in Places(d)
    PROVE  /\ pos = end => ch[pos][end] = [items |-> <<>>]
           /\ pos > end => ch[pos][end] = Refused
           /\ pos < end => ch[pos][end] = ReadChild(decodeDataItem(d, pos, limit, ch), end, ch)
<1>1. ch = CHOOSE f : ChildrenForm(f, d, limit)
  BY Zenon DEF DecodeChildren, ChildrenForm, ChildRow, Places
<1>2. ChildrenForm(ch, d, limit)
  BY <1>1, ChildrenExist
<1>3. ch[pos] = ChildRow(ch, d, limit, pos)
  BY <1>2, Zenon DEF ChildrenForm
<1>4. ch[pos][end] = IF pos = end THEN [items |-> <<>>]
                     ELSE IF pos > end THEN Refused
                     ELSE ReadChild(decodeDataItem(d, pos, limit, ch), end, ch)
  BY <1>3, Zenon DEF ChildRow
<1>5. pos \in Nat /\ end \in Nat
  BY DEF Places
<1>6. (pos > end => pos # end) /\ (pos < end => pos # end /\ ~(pos > end))
  BY <1>5
<1> QED
  BY <1>4, <1>6

-----------------------------------------------------------------------------
(* An item written is the item read. *)

Decodes(it, d, pos, limit) ==
    decodeDataItem(d, pos, limit, DecodeChildren(d, limit))
        = Read(it, pos + Len(encodeDataItem[it]))
\* Wherever it occurs.
DecodesIn(it, d, limit) ==
    Len(encodeDataItem[it]) < U64 =>
        \A pos \in Nat \ {0} : Occurs(encodeDataItem[it], d, pos) => Decodes(it, d, pos, limit)

\* Behind its code come the contents of an item.
Begins(it, s, d, pos, limit, at) ==
    /\ it.typeCode \in Codes /\ Written(it, s) /\ d \in Seq(Nat) /\ pos \in Nat /\ pos > 0
    /\ Limit(limit) /\ Occurs(encodeDataItem[it], d, pos)
    /\ at = pos + Len(encodeSigned(it.typeCode))
StartsChild(it, s, d, pos, limit, at, ch) ==
    /\ decodeDataItem(d, pos, limit, ch) = DecodeBody(d, it.typeCode, at, limit, ch)
    /\ Occurs(s, d, at) /\ at \in Nat /\ at > 0 /\ Len(s) \in Nat
    /\ pos + Len(encodeDataItem[it]) = at + Len(s)
    /\ Len(s) <= Len(encodeDataItem[it])

LEMMA ItemStarts ==
    ASSUME NEW it, NEW s, NEW d, NEW pos, NEW limit, NEW at, NEW ch,
           Begins(it, s, d, pos, limit, at)
    PROVE  StartsChild(it, s, d, pos, limit, at, ch)
<1>0. /\ it.typeCode \in Codes /\ Written(it, s) /\ d \in Seq(Nat) /\ pos \in Nat /\ pos > 0
      /\ Limit(limit) /\ Occurs(encodeDataItem[it], d, pos)
      /\ at = pos + Len(encodeSigned(it.typeCode))
  BY DEF Begins
<1> DEFINE e == encodeSigned(it.typeCode)
           u == Len(e)
           n == Len(s)
           t == encodeDataItem[it]
           l == Len(t)
<1>1. /\ t \in Seq(Nat) /\ e \in Seq(Nat) /\ s \in Seq(Nat) /\ t = e \o s /\ l = u + n
      /\ l \in Nat /\ u \in Nat /\ n \in Nat /\ u >= 1
  BY <1>0, WrittenTyped DEF Written
<1>1a. Occurs(t, d, pos) /\ at = pos + u
  BY <1>0
<1> HIDE DEF t
<1>2. Occurs(e, d, pos) /\ Occurs(s, d, at)
  <2> HIDE DEF e
  <2>1. Occurs(e \o s, d, pos)
    BY <1>1, <1>1a
  <2> QED
    BY <1>0, <1>1, <1>1a, <2>1, OccursParts
<1>3. decodeSigned(d, pos, limit) = [value |-> it.typeCode, used |-> u]
  BY <1>0, <1>2, CodeRead
<1>4. decodeDataItem(d, pos, limit, ch) = DecodeBody(d, it.typeCode, at, limit, ch)
  <2> DEFINE k == it.typeCode
             c == decodeSigned(d, pos, limit)
  <2>1. c = [value |-> k, used |-> u]
    BY <1>3
  <2>2. decodeDataItem(d, pos, limit, ch) =
            IF c = Refused THEN Refused ELSE DecodeBody(d, c.value, pos + c.used, limit, ch)
    BY Zenon DEF decodeDataItem
  <2> HIDE DEF c, k, u
  <2>3. c # Refused
    BY <2>1, FieldsAreNot
  <2>4. c.value = k /\ c.used = u
    BY <2>1
  <2>5. decodeDataItem(d, pos, limit, ch) = DecodeBody(d, k, at, limit, ch)
    BY <1>1a, <2>2, <2>3, <2>4
  <2> QED
    BY <2>5 DEF k
<1>1b. l = u + n /\ l \in Nat /\ u \in Nat /\ n \in Nat /\ u >= 1
  BY <1>1
<1>1c. at = pos + u
  BY <1>1a
<1> HIDE DEF u, n, l
<1>5. at \in Nat /\ at > 0 /\ pos + l = at + n /\ n <= l
  BY <1>0, <1>1b, <1>1c
<1> QED
  BY <1>1, <1>2, <1>4, <1>5 DEF n, l, t, StartsChild

LEMMA FixedRead ==
    ASSUME NEW it \in Tree, it.typeCode \in Codes, IsFixed(it), NEW d \in Seq(Nat),
           NEW pos \in Nat, pos > 0, NEW limit, Limit(limit), Occurs(encodeDataItem[it], d, pos),
           NEW ch
    PROVE  decodeDataItem(d, pos, limit, ch) = Read(it, pos + Len(encodeDataItem[it]))
<1> DEFINE s == it.data
           c == it.typeCode
           at == pos + Len(encodeSigned(it.typeCode))
           l == pos + Len(encodeDataItem[it])
<1>1. Written(it, s) /\ Len(s) = 1
  BY FixedWritten
<1>1a. s \in Seq(Nat)
  BY <1>1 DEF Written
<1>0a. Begins(it, s, d, pos, limit, at)
  BY <1>1 DEF Begins
<1>0b. StartsChild(it, s, d, pos, limit, at, ch)
  BY <1>0a, ItemStarts
<1>0c. l = pos + Len(encodeDataItem[it])
  OBVIOUS
<1> HIDE DEF at, l, s
<1>2. /\ decodeDataItem(d, pos, limit, ch) = DecodeBody(d, c, at, limit, ch)
      /\ Occurs(s, d, at) /\ at \in Nat /\ at > 0 /\ l = at + Len(s)
  BY <1>0b, <1>0c DEF StartsChild
<1>3. sizeCategory(c) = "fixed" /\ it = bytesItem(c, s)
  BY DEF IsFixed, s
<1> HIDE DEF s, c, at, l
<1>4. at <= Len(d) /\ (at + Len(s)) - 1 = at /\ l = at + 1
  BY <1>1, <1>2 DEF Occurs
<1>5. SubSeq(d, at, (at + Len(s)) - 1) = s
  BY <1>1a, <1>2, OccursIs
<1>6. SubSeq(d, at, at) = s
  BY <1>4, <1>5
<1>7. DecodeBody(d, c, at, limit, ch) = Read(bytesItem(c, SubSeq(d, at, at)), at + 1)
  BY <1>2, <1>3, <1>4, BodyOfFixed
<1> QED
  BY <1>2, <1>3, <1>4, <1>6, <1>7 DEF l

LEMMA VbcRead ==
    ASSUME NEW it \in Tree, it.typeCode \in Codes, IsVbc(it), NEW d \in Seq(Nat),
           NEW pos \in Nat, pos > 0, NEW limit, Limit(limit), Occurs(encodeDataItem[it], d, pos),
           NEW ch
    PROVE  decodeDataItem(d, pos, limit, ch) = Read(it, pos + Len(encodeDataItem[it]))
<1> DEFINE v == it.value
           s == encodeUnsigned[v]
           c == it.typeCode
           at == pos + Len(encodeSigned(it.typeCode))
           l == pos + Len(encodeDataItem[it])
           b == decodeUnsigned(d, at, limit)
<1>1. Written(it, s) /\ v \in Nat /\ v < U64
  BY VbcWritten
<1>0a. Begins(it, s, d, pos, limit, at)
  BY <1>1 DEF Begins
<1>0b. StartsChild(it, s, d, pos, limit, at, ch)
  BY <1>0a, ItemStarts
<1>0c. l = pos + Len(encodeDataItem[it])
  OBVIOUS
<1> HIDE DEF at, l, s
<1>2. /\ decodeDataItem(d, pos, limit, ch) = DecodeBody(d, c, at, limit, ch)
      /\ Occurs(s, d, at) /\ at \in Nat /\ at > 0 /\ l = at + Len(s)
  BY <1>0b, <1>0c DEF StartsChild
<1>3. sizeCategory(c) = "vbcValue" /\ it = vbcItem(c, v)
  BY DEF IsVbc
<1>4. limit \in Nat /\ limit <= Unbounded /\ v < limit
  BY <1>1, SizesAre DEF Limit
<1> HIDE DEF v, c, at, l
<1>5a. Occurs(encodeUnsigned[v], d, at)
  BY <1>2 DEF s
<1>5b. b = [value |-> v, used |-> Len(encodeUnsigned[v])]
  BY <1>1, <1>2, <1>4, <1>5a, WrittenIsRead
<1>5. b = [value |-> v, used |-> Len(s)]
  BY <1>5b DEF s
<1> HIDE DEF b
<1>6. b # Refused
  BY <1>5, FieldsAreNot
<1>7. DecodeBody(d, c, at, limit, ch) = Read(vbcItem(c, b.value), at + b.used)
  BY <1>3, <1>6, BodyOfVbc DEF b
<1> HIDE DEF s
<1>8. b.value = v /\ b.used = Len(s)
  BY <1>5
<1> QED
  BY <1>2, <1>3, <1>7, <1>8 DEF l

LEMMA VariableRead ==
    ASSUME NEW it \in Tree, it.typeCode \in Codes, IsVariable(it), NEW d \in Seq(Nat),
           NEW pos \in Nat, pos > 0, NEW limit, Limit(limit), Occurs(encodeDataItem[it], d, pos),
           Len(encodeDataItem[it]) < U64, NEW ch
    PROVE  decodeDataItem(d, pos, limit, ch) = Read(it, pos + Len(encodeDataItem[it]))
<1> DEFINE s == it.data
           c == it.typeCode
           at == pos + Len(encodeSigned(it.typeCode))
           l == pos + Len(encodeDataItem[it])
           b == decodeUnsigned(d, at, limit)
           n == Len(s)
           u == Len(encodeUnsigned[Len(s)])
           z == Len(Sized(s))
           m == Len(encodeDataItem[it])
<1>1. Written(it, Sized(s)) /\ s \in Seq(Nat)
  BY VariableWritten
<1>0a. Begins(it, Sized(s), d, pos, limit, at)
  BY <1>1 DEF Begins
<1>0b. StartsChild(it, Sized(s), d, pos, limit, at, ch)
  BY <1>0a, ItemStarts
<1>0c. l = pos + Len(encodeDataItem[it])
  OBVIOUS
<1> HIDE DEF at, l, s
<1>2. /\ decodeDataItem(d, pos, limit, ch) = DecodeBody(d, c, at, limit, ch)
      /\ Occurs(Sized(s), d, at) /\ at \in Nat /\ at > 0 /\ l = at + z /\ z <= m
  BY <1>0b, <1>0c DEF StartsChild
<1>2a. z = u + n /\ u \in Nat /\ u >= 1 /\ n \in Nat
  BY <1>1, SizedLength
<1>3. sizeCategory(c) = "variable" /\ it = bytesItem(c, s)
  BY DEF IsVariable, s
<1>4. m < U64 /\ m \in Nat /\ U64 \in Nat
  BY EncodeTyped, SizesAre
<1> HIDE DEF s, c, at, l, z, m
<1>5. n < U64
  <2> HIDE DEF n, u
  <2> QED
    BY <1>2, <1>2a, <1>4
<1>6. Occurs(encodeUnsigned[Len(s)] \o s, d, at)
  BY <1>2 DEF Sized
<1>7. b = [value |-> n, used |-> u] /\ Occurs(s, d, at + u)
  BY <1>1, <1>2, <1>5, <1>6, SizeRead
<1> HIDE DEF b, u
<1>8. b # Refused
  BY <1>7, FieldsAreNot
<1>9. DecodeBody(d, c, at, limit, ch) = ReadBytes(d, c, at + b.used, at + b.used + b.value)
  BY <1>3, <1>8, BodyOfVariable DEF b
<1>10. b.value = n /\ b.used = u
  BY <1>7
<1> DEFINE start == at + u
<1>11. start \in Nat /\ start > 0
  BY <1>2, <1>2a
<1>11a. Occurs(s, d, start)
  BY <1>7
<1>12. l = start + n
  BY <1>2, <1>2a
<1>13. DecodeBody(d, c, at, limit, ch) = ReadBytes(d, c, start, start + n)
  BY <1>9, <1>10
<1> HIDE DEF start
<1>14. SubSeq(d, start, (start + n) - 1) = s
  BY <1>1, <1>11, <1>11a, OccursIs
<1>15. ~(start + n > Len(d) + 1)
  <2>1. (start + n) - 1 <= Len(d)
    BY <1>1, <1>11, <1>11a DEF Occurs
  <2>2. n \in Nat /\ Len(d) \in Nat
    BY <1>2a
  <2> QED
    BY <1>11, <2>1, <2>2
<1> HIDE DEF n
<1>16. ReadBytes(d, c, start, start + n) = Read(bytesItem(c, s), start + n)
  BY <1>14, <1>15, Zenon DEF ReadBytes, Read
<1> QED
  BY <1>2, <1>3, <1>12, <1>13, <1>16 DEF l

LEMMA DecodedChild ==
    ASSUME NEW it, NEW d, NEW limit, NEW pos \in Nat, pos > 0, DecodesIn(it, d, limit),
           Len(encodeDataItem[it]) < U64, Occurs(encodeDataItem[it], d, pos)
    PROVE  decodeDataItem(d, pos, limit, DecodeChildren(d, limit))
               = Read(it, pos + Len(encodeDataItem[it]))
<1>1. pos \in Nat \ {0}
  OBVIOUS
<1> QED
  BY <1>1 DEF DecodesIn, Decodes

LEMMA EachWritten ==
    ASSUME NEW S, NEW s \in Seq(S), \A c \in S : encodeDataItem[c] \in Seq(Nat)
    PROVE  /\ Each(encodeDataItem, s) \in Seq(Seq(Nat))
           /\ Len(Each(encodeDataItem, s)) = Len(s)
           /\ \A i \in 1 .. Len(s) : Each(encodeDataItem, s)[i] = encodeDataItem[s[i]]
<1> DEFINE n == Len(s)
<1>1. Each(encodeDataItem, s) \in Seq(Seq(Nat))
  BY EachTyped
<1>2. n \in Nat
  OBVIOUS
<1> HIDE DEF n
<1>3. Each(encodeDataItem, s) = [i \in 1 .. n |-> encodeDataItem[s[i]]]
  BY Zenon DEF Each, n
<1>4. /\ Len(Each(encodeDataItem, s)) = n
      /\ \A i \in 1 .. n : Each(encodeDataItem, s)[i] = encodeDataItem[s[i]]
  BY <1>2, <1>3
<1> QED
  BY <1>1, <1>4 DEF n

\* Children that occur one behind the other are read as they are.
Laid(S, s, d, limit, start, p, J) ==
    /\ s \in Seq(S) /\ d \in Seq(Nat) /\ Limit(limit) /\ start \in Nat /\ start > 0
    /\ p = Each(encodeDataItem, s) /\ Joined(J, p) /\ Occurs(J[Len(p)], d, start)
    /\ Len(J[Len(p)]) < U64
    /\ \A c \in S : /\ encodeDataItem[c] \in Seq(Nat) /\ Len(encodeDataItem[c]) >= 2
                    /\ DecodesIn(c, d, limit)

LEMMA ChildrenRead ==
    ASSUME NEW S, NEW s, NEW d, NEW limit, NEW start, NEW p, NEW J,
           Laid(S, s, d, limit, start, p, J)
    PROVE  DecodeChildren(d, limit)[start][start + Len(J[Len(p)])] = [items |-> s]
<1> s \in Seq(S) /\ d \in Seq(Nat) /\ Limit(limit) /\ start \in Nat /\ start > 0
  BY DEF Laid
<1> p = Each(encodeDataItem, s) /\ Joined(J, p) /\ Occurs(J[Len(p)], d, start)
    /\ Len(J[Len(p)]) < U64
  BY DEF Laid
<1> \A c \in S : /\ encodeDataItem[c] \in Seq(Nat) /\ Len(encodeDataItem[c]) >= 2
                /\ DecodesIn(c, d, limit)
  BY DEF Laid
<1> DEFINE ch == DecodeChildren(d, limit)
           m == Len(p)
           At(k) == start + Len(J[k])
           end == At(m)
           Right(k) == ch[At(k)][end] = [items |-> SubSeq(s, k + 1, m)]
           Good == {j \in Nat : j <= m => Right(m - j)}
<1>1. /\ p \in Seq(Seq(Nat)) /\ Len(p) = Len(s) /\ m \in Nat
      /\ \A i \in 1 .. m : p[i] = encodeDataItem[s[i]] /\ s[i] \in S
  <2>1. \A c \in S : encodeDataItem[c] \in Seq(Nat)
    OBVIOUS
  <2>2. /\ p \in Seq(Seq(Nat)) /\ Len(p) = Len(s)
        /\ \A i \in 1 .. Len(s) : p[i] = encodeDataItem[s[i]]
    BY <2>1, EachWritten
  <2>3. Len(s) \in Nat /\ \A i \in 1 .. Len(s) : s[i] \in S
    OBVIOUS
  <2> QED
    BY <2>2, <2>3
<1>2. /\ \A i \in 0 .. m : J[i] \in Seq(Nat) /\ Len(J[i]) \in Nat /\ Len(J[i]) <= Len(J[m])
      /\ \A i \in 1 .. m : /\ Len(p[i]) \in Nat /\ i - 1 \in 0 .. m
                           /\ Len(J[i]) = Len(J[i - 1]) + Len(p[i])
      /\ J[0] = <<>>
  BY <1>1, JoinedGrow DEF Joined
<1>3. \A i \in 1 .. m : Occurs(p[i], d, At(i - 1))
  BY <1>1, JoinedOccur
<1>4. \A i \in 0 .. m : At(i) \in Places(d) /\ At(i) \in Nat /\ At(i) > 0
  <2>1. start + Len(J[m]) - 1 <= Len(d)
    BY DEF Occurs
  <2>2. m \in 0 .. m
    BY <1>1
  <2> DEFINE L == [i \in 0 .. m |-> Len(J[i])]
  <2>3. \A i \in 0 .. m : L[i] \in Nat /\ L[i] <= L[m] /\ At(i) = start + L[i]
    BY <1>2, <2>2
  <2>4. start + L[m] - 1 <= Len(d) /\ Len(d) \in Nat
    BY <2>1, <2>2
  <2> DEFINE D == Len(d)
  <2>4a. start + L[m] - 1 <= D /\ D \in Nat
    BY <2>4
  <2> HIDE DEF L, At, m, D
  <2>5. \A i \in 0 .. m : At(i) \in 1 .. D + 1
    <3>1. SUFFICES ASSUME NEW i \in 0 .. m PROVE At(i) \in 1 .. D + 1
      OBVIOUS
    <3> DEFINE a == At(i)
               b == L[i]
               c == L[m]
    <3>2. b \in Nat /\ b <= c /\ a = start + b /\ c \in Nat
      BY <2>2, <2>3
    <3>3. start + c - 1 <= D
      BY <2>4a
    <3> HIDE DEF a, b, c
    <3>4. a \in 1 .. D + 1
      BY <2>4a, <3>2, <3>3
    <3> QED
      BY <3>4 DEF a
  <2> QED
    BY <2>5 DEF Places, D
<1>5. limit \in Nat
  BY DEF Limit
<1>a. end \in Places(d)
  BY <1>1, <1>4
<1>6. 0 \in Good
  <2>1. end \in Places(d)
    BY <1>1, <1>4
  <2>2. ch[end][end] = [items |-> <<>>]
    BY <1>5, <2>1, ChildrenIs
  <2>3. SubSeq(s, m + 1, m) = <<>>
    <3>1. m + 1 \in Int /\ m \in Int /\ m < m + 1
      BY <1>1
    <3> QED
      BY <3>1, SubSeqEmpty
  <2>4. m - 0 = m
    BY <1>1
  <2> QED
    BY <2>2, <2>3, <2>4
<1>7. ASSUME NEW j \in Nat, j \in Good PROVE j + 1 \in Good
  <2>1. SUFFICES ASSUME j + 1 <= m PROVE Right(m - (j + 1))
    <3>1. j + 1 \in Nat
      OBVIOUS
    <3> HIDE DEF Right
    <3> QED
      BY <2>1, <3>1
  <2> DEFINE k == m - j
             i == m - (j + 1)
             c == s[k]
  <2>2. /\ k \in 1 .. m /\ i = k - 1 /\ i \in 0 .. m /\ k \in 0 .. m /\ i + 1 = k /\ j <= m
        /\ k \in Nat
    BY <1>1, <2>1
  <2>3. Right(k)
    BY <1>7, <2>2
  <2> HIDE DEF k, i
  <2> DEFINE q == At(i)
             e == encodeDataItem[c]
  <2>4. c \in S /\ p[k] = e /\ Occurs(e, d, q)
    BY <1>1, <1>3, <2>2
  <2>5. e \in Seq(Nat) /\ Len(e) >= 2 /\ DecodesIn(c, d, limit)
    BY <2>4
  <2> DEFINE a == Len(J[i])
             b == Len(J[k])
             u == Len(e)
             z == Len(J[m])
  <2>6. b = a + u /\ a \in Nat /\ b \in Nat /\ u \in Nat /\ b <= z /\ z \in Nat
    <3>1. Len(J[k]) = Len(J[k - 1]) + Len(p[k]) /\ Len(p[k]) \in Nat
      BY <1>2, <2>2
    <3>2. m \in 0 .. m
      BY <1>1
    <3> QED
      BY <1>2, <2>2, <2>4, <3>1, <3>2
  <2>7. z < U64 /\ U64 \in Nat /\ u >= 2
    BY <2>5, SizesAre
  <2>8. q = start + a /\ At(k) = start + b /\ end = start + z
    OBVIOUS
  <2>9. q \in Places(d) /\ q \in Nat /\ q > 0 /\ At(k) \in Places(d)
    BY <1>4, <2>2
  <2> DEFINE n == At(k)
  <2> HIDE DEF e, c, a, b, u, z, q, n, At, ch, Good, m, end
  <2>10. u < U64 /\ n = q + u /\ q < end
    BY <2>6, <2>7, <2>8 DEF n
  <2>11. decodeDataItem(d, q, limit, ch) = Read(c, n)
    <3>1. decodeDataItem(d, q, limit, ch) = Read(c, q + u)
      BY <2>4, <2>5, <2>9, <2>10, DecodedChild DEF e, u, ch
    <3> QED
      BY <2>10, <3>1
  <2>12. ch[q][end] = ReadChild(Read(c, n), end, ch)
    <3>1. ch = DecodeChildren(d, limit)
      BY DEF ch
    <3>2. ch[q][end] = ReadChild(decodeDataItem(d, q, limit, ch), end, ch)
      BY <1>5, <1>a, <2>9, <2>10, <3>1, ChildrenIs
    <3> QED
      BY <2>11, <3>2
  <2>13. ch[n][end] = [items |-> SubSeq(s, k + 1, m)]
    BY <2>3 DEF n
  <2>14. ReadChild(Read(c, n), end, ch) = [items |-> <<c>> \o SubSeq(s, k + 1, m)]
    <3>1. Read(c, n) # Refused
      BY ReadIsNot
    <3> DEFINE x == ch[n][end]
               y == SubSeq(s, k + 1, m)
    <3>2. x = [items |-> y]
      BY <2>13
    <3>3. Read(c, n).item = c /\ Read(c, n).next = n
      BY DEF Read
    <3> HIDE DEF x, y
    <3>4. DOMAIN x = {"items"} /\ DOMAIN Refused = {"refused"} /\ x.items = y
      BY <3>2 DEF Refused
    <3>5. x # Refused
      BY <3>4
    <3>6. ch[n][end] # Refused /\ ch[n][end].items = SubSeq(s, k + 1, m)
      BY <3>4, <3>5 DEF x, y
    <3> QED
      BY <3>1, <3>3, <3>6, Zenon DEF ReadChild
  <2>15. SubSeq(s, k, m) = <<c>> \o SubSeq(s, k + 1, m)
    <3>1. k \in 1 .. Len(s) /\ m \in k .. Len(s)
      BY <1>1, <2>2 DEF m
    <3> QED
      BY <3>1, SubSeqRecursiveFirst DEF c
  <2>16. ch[At(i)][end] = [items |-> SubSeq(s, i + 1, m)]
    BY <2>2, <2>12, <2>14, <2>15 DEF q
  <2> QED
    BY <2>16 DEF i
<1> HIDE DEF Good, Right
<1>8. Nat \subseteq Good
  BY <1>6, <1>7, SetInduction
<1>9. m \in Good /\ m <= m /\ m - m = 0
  BY <1>1, <1>8
<1>10. Right(0)
  BY <1>9 DEF Good
<1>11. SubSeq(s, 1, m) = s
  BY <1>1, SubSeqFull
<1>12. At(0) = start
  <2>1. Len(J[0]) = 0
    BY <1>2
  <2> QED
    BY <2>1
<1> QED
  BY <1>10, <1>11, <1>12 DEF Right

LEMMA ContainerRead ==
    ASSUME NEW it \in Tree, it.typeCode \in Codes, NEW S, IsContainer(it, S),
           NEW d \in Seq(Nat),
           NEW pos \in Nat, pos > 0, NEW limit, Limit(limit), Occurs(encodeDataItem[it], d, pos),
           Len(encodeDataItem[it]) < U64, NEW ch, ch = DecodeChildren(d, limit),
           \A c \in S : /\ encodeDataItem[c] \in Seq(Nat) /\ Len(encodeDataItem[c]) >= 2
                        /\ DecodesIn(c, d, limit)
    PROVE  decodeDataItem(d, pos, limit, ch) = Read(it, pos + Len(encodeDataItem[it]))
<1> DEFINE s == Contents(it)
           c == it.typeCode
           at == pos + Len(encodeSigned(it.typeCode))
           l == pos + Len(encodeDataItem[it])
           b == decodeUnsigned(d, at, limit)
           n == Len(s)
           u == Len(encodeUnsigned[Len(s)])
           z == Len(Sized(s))
           m == Len(encodeDataItem[it])
<1>1. Written(it, Sized(s)) /\ s \in Seq(Nat)
  BY ContainerWritten
<1>0a. Begins(it, Sized(s), d, pos, limit, at)
  BY <1>1 DEF Begins
<1>0b. StartsChild(it, Sized(s), d, pos, limit, at, ch)
  BY <1>0a, ItemStarts
<1>0c. l = pos + Len(encodeDataItem[it])
  OBVIOUS
<1> HIDE DEF at, l, s
<1>2. /\ decodeDataItem(d, pos, limit, ch) = DecodeBody(d, c, at, limit, ch)
      /\ Occurs(Sized(s), d, at) /\ at \in Nat /\ at > 0 /\ l = at + z /\ z <= m
  BY <1>0b, <1>0c DEF StartsChild
<1>2a. z = u + n /\ u \in Nat /\ u >= 1 /\ n \in Nat
  BY <1>1, SizedLength
<1>3. sizeCategory(c) = "container" /\ it = containerItem(c, it.children)
  BY DEF IsContainer
<1>4. m < U64 /\ m \in Nat /\ U64 \in Nat
  BY EncodeTyped, SizesAre
<1> HIDE DEF s, c, at, l, z, m
<1>5. n < U64
  <2> HIDE DEF n, u
  <2> QED
    BY <1>2, <1>2a, <1>4
<1>6. Occurs(encodeUnsigned[Len(s)] \o s, d, at)
  BY <1>2 DEF Sized
<1>7. b = [value |-> n, used |-> u] /\ Occurs(s, d, at + u)
  BY <1>1, <1>2, <1>5, <1>6, SizeRead
<1> HIDE DEF b, u
<1>8. b # Refused
  BY <1>7, FieldsAreNot
<1>9. DecodeBody(d, c, at, limit, ch) = ReadContainer(d, c, at + b.used, at + b.used + b.value, ch)
  BY <1>3, <1>8, BodyOfContainer DEF b
<1>10. b.value = n /\ b.used = u
  BY <1>7
<1> DEFINE start == at + u
<1>11. start \in Nat /\ start > 0
  BY <1>2, <1>2a
<1>11a. Occurs(s, d, start)
  BY <1>7
<1>12. l = start + n
  BY <1>2, <1>2a
<1>13. DecodeBody(d, c, at, limit, ch) = ReadContainer(d, c, start, start + n, ch)
  BY <1>9, <1>10
<1> HIDE DEF start
<1>14. ch[start][start + n] = [items |-> it.children]
  <2> DEFINE p == Each(encodeDataItem, it.children)
  <2>1. it.children \in Seq(S)
    BY DEF IsContainer
  <2>2. p \in Seq(Seq(Nat))
    BY <2>1, EachWritten
  <2>0. s = FlattenSeq(p)
    BY DEF s, Contents
  <2>p. p = Each(encodeDataItem, it.children)
    OBVIOUS
  <2> HIDE DEF p
  <2>3. PICK J : Joined(J, p) /\ J[Len(p)] = FlattenSeq(p)
    BY <2>2, FlattenIs
  <2>4. J[Len(p)] = s
    BY <2>0, <2>3
  <2>5. Occurs(J[Len(p)], d, start) /\ Len(J[Len(p)]) < U64 /\ n = Len(J[Len(p)])
    BY <1>5, <1>11a, <2>4
  <2> DEFINE cs == it.children
  <2>1a. cs \in Seq(S) /\ p = Each(encodeDataItem, cs)
    BY <2>1, <2>p
  <2> HIDE DEF n, cs
  <2>7. Laid(S, cs, d, limit, start, p, J)
    BY <1>11, <2>1a, <2>3, <2>5 DEF Laid
  <2>6. DecodeChildren(d, limit)[start][start + Len(J[Len(p)])] = [items |-> cs]
    BY <2>7, ChildrenRead
  <2> QED
    BY <2>5, <2>6 DEF cs
<1>15. ~(start + n > Len(d) + 1)
  <2>1. (start + n) - 1 <= Len(d)
    BY <1>1, <1>11, <1>11a DEF Occurs
  <2>2. n \in Nat /\ Len(d) \in Nat
    BY <1>2a
  <2> QED
    BY <1>11, <2>1, <2>2
<1> HIDE DEF n
<1>16. ReadContainer(d, c, start, start + n, ch) = Read(containerItem(c, it.children), start + n)
  <2> DEFINE x == ch[start][start + n]
             y == it.children
  <2>1. x = [items |-> y]
    BY <1>14
  <2> HIDE DEF x, y
  <2>2. DOMAIN x = {"items"} /\ DOMAIN Refused = {"refused"} /\ x.items = y
    BY <2>1 DEF Refused
  <2>3. x # Refused
    BY <2>2
  <2> QED
    BY <1>15, <2>2, <2>3, Zenon DEF ReadContainer, Read, x, y
<1> QED
  BY <1>2, <1>3, <1>12, <1>13, <1>16 DEF l

\* Whatever is written, of whatever height within bounds, is read as what was written,
\* wherever it stands, with either limit.
LEMMA RoundTrip ==
    ASSUME NEW d \in Seq(Nat), NEW limit, Limit(limit)
    PROVE  \A it \in Tree : DecodesIn(it, d, limit)
<1> DEFINE Good == {n \in Nat : n <= Depth => \A it \in Trees(n) : DecodesIn(it, d, limit)}
<1>0. Depth \in Nat /\ Tree = Trees(Depth)
  BY DepthIs
<1>1. \A n \in Nat : n <= Depth => Trees(n) \subseteq Tree
  BY <1>0, TreesGrow
<1>2. ASSUME NEW it \in Tree, it.typeCode \in Codes, IsFixed(it) \/ IsVariable(it) \/ IsVbc(it)
      PROVE  DecodesIn(it, d, limit)
  <2>1. SUFFICES ASSUME Len(encodeDataItem[it]) < U64, NEW pos \in Nat \ {0},
                        Occurs(encodeDataItem[it], d, pos)
                 PROVE  Decodes(it, d, pos, limit)
    BY DEF DecodesIn
  <2>2. pos \in Nat /\ pos > 0
    OBVIOUS
  <2> QED
    BY <1>2, <2>1, <2>2, FixedRead, VariableRead, VbcRead DEF Decodes
<1>3. ASSUME NEW it \in Tree, it.typeCode \in Codes, NEW n \in Nat, n <= Depth,
             IsContainer(it, Trees(n)), \A c \in Trees(n) : DecodesIn(c, d, limit)
      PROVE  DecodesIn(it, d, limit)
  <2>1. SUFFICES ASSUME Len(encodeDataItem[it]) < U64, NEW pos \in Nat \ {0},
                        Occurs(encodeDataItem[it], d, pos)
                 PROVE  Decodes(it, d, pos, limit)
    BY DEF DecodesIn
  <2>2. pos \in Nat /\ pos > 0
    OBVIOUS
  <2> DEFINE S == Trees(n)
  <2>3. \A c \in S : /\ encodeDataItem[c] \in Seq(Nat) /\ Len(encodeDataItem[c]) >= 2
                     /\ DecodesIn(c, d, limit)
    BY <1>1, <1>3, EncodeTyped
  <2>4. IsContainer(it, S)
    BY <1>3
  <2> HIDE DEF S
  <2> DEFINE ch == DecodeChildren(d, limit)
  <2>5. ch = DecodeChildren(d, limit)
    OBVIOUS
  <2> HIDE DEF ch
  <2>6. decodeDataItem(d, pos, limit, ch) = Read(it, pos + Len(encodeDataItem[it]))
    BY <1>3, <2>1, <2>2, <2>3, <2>4, <2>5, ContainerRead
  <2> QED
    BY <2>5, <2>6 DEF Decodes
<1>4. 0 \in Good
  <2>1. ASSUME NEW it \in Trees(0) PROVE DecodesIn(it, d, limit)
    <3>1. it \in Tree /\ it.typeCode \in Codes /\ (IsFixed(it) \/ IsVariable(it) \/ IsVbc(it))
      BY <1>0, <1>1, KindOf
    <3> QED
      BY <1>2, <3>1
  <2> QED
    BY <2>1
<1>5. ASSUME NEW n \in Nat, n \in Good PROVE n + 1 \in Good
  <2> DEFINE m == n + 1
  <2>1. m \in Nat /\ m - 1 = n /\ m # 0
    OBVIOUS
  <2>2. m <= Depth => n <= Depth
    BY <1>0
  <2> HIDE DEF m
  <2>3. ASSUME m <= Depth, NEW it \in Trees(m) PROVE DecodesIn(it, d, limit)
    <3>1. it \in Tree
      BY <1>1, <2>1, <2>3
    <3>2. /\ it.typeCode \in Codes
          /\ (IsFixed(it) \/ IsVariable(it) \/ IsVbc(it)) \/ IsContainer(it, Trees(n))
      BY <2>1, KindOf
    <3>3. \A c \in Trees(n) : DecodesIn(c, d, limit)
      BY <1>5, <2>2, <2>3
    <3> QED
      BY <1>2, <1>3, <2>2, <2>3, <3>1, <3>2, <3>3
  <2> QED
    BY <2>1, <2>3 DEF m
<1> HIDE DEF Good
<1>6. Nat \subseteq Good
  BY <1>4, <1>5, SetInduction
<1>7. Depth \in Good /\ Depth <= Depth
  BY <1>0, <1>6
<1> QED
  BY <1>0, <1>7 DEF Good

\* Whatever item is encoded, whatever its nesting, both decoders read it back from its bytes.
THEOREM WholeIs ==
    ASSUME NEW it \in Tree, Len(encodeDataItem[it]) < U64, NEW limit, Limit(limit)
    PROVE  fromBytes(encodeDataItem[it], limit) = it
<1> DEFINE d == encodeDataItem[it]
           r == decodeDataItem(d, 1, limit, DecodeChildren(d, limit))
           n == Len(d)
<1>1. d \in Seq(Nat) /\ n \in Nat
  BY EncodeTyped
<1>2. Occurs(d, d, 1)
  BY <1>1, OccursWhole
<1>3. DecodesIn(it, d, limit)
  BY <1>1, RoundTrip
<1>4. r = Read(it, 1 + n)
  BY <1>2, <1>3 DEF DecodesIn, Decodes
<1>5. fromBytes(d, limit) = IF r = Refused THEN Refused
                            ELSE IF r.next # n + 1 THEN Refused ELSE r.item
  BY Zenon DEF fromBytes
<1> HIDE DEF d, r, n
<1>6. r # Refused
  BY <1>4, ReadIsNot
<1>7. r.item = it /\ r.next = n + 1
  BY <1>1, <1>4 DEF Read
<1> QED
  BY <1>5, <1>6, <1>7 DEF d

\* No two items are written the same.
LEMMA EncodedApart ==
    ASSUME NEW it \in Tree, NEW other \in Tree, encodeDataItem[it] = encodeDataItem[other],
           Len(encodeDataItem[it]) < U64
    PROVE  it = other
<1>1. Limit(U64)
  BY LimitsAre
<1>2. fromBytes(encodeDataItem[it], U64) = it
  BY <1>1, WholeIs
<1>3. fromBytes(encodeDataItem[other], U64) = other
  BY <1>1, WholeIs
<1> QED
  BY <1>2, <1>3

-----------------------------------------------------------------------------
(* An item read is one that can be written, and no longer than it was. *)

LEMMA CodeOf ==
    ASSUME NEW c, NEW k, sizeCategory(c) = k, k \in {"fixed", "variable", "vbcValue", "container"}
    PROVE  c \in Codes /\ c \in CodesOf(k)
BY DEF sizeCategory, CodesOf, Codes

LEMMA FlattenOfNone == Len(FlattenSeq(<<>>)) = 0
<1> DEFINE p == <<>>
<1>1. p \in Seq(Seq(Nat)) /\ Len(p) = 0
  OBVIOUS
<1> HIDE DEF p
<1>2. PICK J : Joined(J, p) /\ J[Len(p)] = FlattenSeq(p)
  BY <1>1, FlattenIs
<1>3. FlattenSeq(p) = <<>>
  BY <1>1, <1>2 DEF Joined
<1>4. Len(FlattenSeq(p)) = 0
  BY <1>3
<1> QED
  BY <1>4 DEF p

LEMMA FlattenOfMore ==
    ASSUME NEW e \in Seq(Nat), NEW p \in Seq(Seq(Nat))
    PROVE  /\ Len(FlattenSeq(<<e>> \o p)) = Len(e) + Len(FlattenSeq(p))
           /\ Len(FlattenSeq(p)) \in Nat /\ Len(e) \in Nat
<1> DEFINE q == <<e>> \o p
           m == Len(p)
<1>1. /\ q \in Seq(Seq(Nat)) /\ Len(q) = m + 1 /\ m \in Nat /\ q[1] = e
      /\ \A i \in 1 .. m : q[i + 1] = p[i]
  <2> DEFINE W == Seq(Nat)
             o == <<e>>
  <2>1. e \in W /\ p \in Seq(W)
    OBVIOUS
  <2> HIDE DEF W
  <2>2. o \in Seq(W) /\ Len(o) = 1 /\ o[1] = e
    BY <2>1, OneOf
  <2> HIDE DEF o
  <2>3. /\ o \o p \in Seq(W) /\ Len(o \o p) = Len(o) + Len(p)
        /\ \A i \in 1 .. Len(o) + Len(p) : (o \o p)[i] = IF i <= Len(o) THEN o[i] ELSE p[i - Len(o)]
    BY <2>1, <2>2, ConcatProperties
  <2>4. m \in Nat
    OBVIOUS
  <2> DEFINE z == o \o p
  <2>z. q = z
    BY DEF o
  <2> HIDE DEF m, z, q
  <2>5. \A i \in 1 .. 1 + m : z[i] = IF i <= 1 THEN o[i] ELSE p[i - 1]
    BY <2>2, <2>3 DEF m, z
  <2>6. z[1] = e
    BY <2>2, <2>4, <2>5
  <2>7. ASSUME NEW i \in 1 .. m PROVE z[i + 1] = p[i]
    <3> DEFINE j == i + 1
    <3>1. j \in 1 .. 1 + m /\ ~(j <= 1) /\ j - 1 = i
      BY <2>4
    <3> HIDE DEF j
    <3>2. z[j] = p[i]
      BY <2>5, <3>1
    <3> QED
      BY <3>2 DEF j
  <2>8. z \in Seq(W) /\ Len(z) = m + 1
    BY <2>2, <2>3, <2>4 DEF m, z
  <2> QED
    BY <2>4, <2>6, <2>7, <2>8, <2>z DEF W
<1> HIDE DEF q, m
<1>2. PICK K : Joined(K, q) /\ K[Len(q)] = FlattenSeq(q)
  BY <1>1, FlattenIs
<1>3. PICK J : Joined(J, p) /\ J[Len(p)] = FlattenSeq(p)
  BY FlattenIs
<1>4. /\ \A i \in 0 .. m + 1 : Len(K[i]) \in Nat
      /\ \A i \in 1 .. m + 1 : Len(K[i]) = Len(K[i - 1]) + Len(q[i])
      /\ Len(K[0]) = 0
  <2>1. /\ \A i \in 0 .. Len(q) : K[i] \in Seq(Nat) /\ Len(K[i]) \in Nat
        /\ \A i \in 1 .. Len(q) : Len(K[i]) = Len(K[i - 1]) + Len(q[i])
    BY <1>1, <1>2, JoinedGrow
  <2>2. K[0] = <<>>
    BY <1>2 DEF Joined
  <2>3. Len(K[0]) = 0
    BY <2>2
  <2> QED
    BY <1>1, <2>1, <2>3
<1>5. /\ \A i \in 0 .. m : Len(J[i]) \in Nat
      /\ \A i \in 1 .. m : Len(J[i]) = Len(J[i - 1]) + Len(p[i]) /\ Len(p[i]) \in Nat
      /\ Len(J[0]) = 0
  <2>1. /\ \A i \in 0 .. Len(p) : J[i] \in Seq(Nat) /\ Len(J[i]) \in Nat
        /\ \A i \in 1 .. Len(p) : Len(J[i]) = Len(J[i - 1]) + Len(p[i]) /\ Len(p[i]) \in Nat
    BY <1>3, JoinedGrow
  <2>2. J[0] = <<>>
    BY <1>3 DEF Joined
  <2>3. Len(J[0]) = 0
    BY <2>2
  <2> QED
    BY <2>1, <2>3 DEF m
<1>6. Len(e) \in Nat
  OBVIOUS
<1> DEFINE u == Len(e)
           KL == [i \in 0 .. m + 1 |-> Len(K[i])]
           JL == [i \in 0 .. m |-> Len(J[i])]
           PL == [i \in 1 .. m |-> Len(p[i])]
<1>7. /\ \A i \in 0 .. m + 1 : KL[i] \in Nat
      /\ KL[1] = u
      /\ \A i \in 1 .. m : KL[i + 1] = KL[i] + PL[i]
  <2>1. \A i \in 0 .. m + 1 : KL[i] \in Nat
    BY <1>4
  <2>2. KL[1] = u
    <3>1. 1 \in 1 .. m + 1 /\ 1 \in 0 .. m + 1 /\ 0 \in 0 .. m + 1 /\ 1 - 1 = 0
      BY <1>1
    <3>2. Len(K[1]) = Len(K[0]) + Len(q[1])
      BY <1>4, <3>1
    <3> QED
      BY <1>1, <1>4, <1>6, <3>1, <3>2
  <2>3. ASSUME NEW i \in 1 .. m PROVE KL[i + 1] = KL[i] + PL[i]
    <3> DEFINE j == i + 1
    <3>1. j \in 1 .. m + 1 /\ j - 1 = i /\ j \in 0 .. m + 1 /\ i \in 0 .. m + 1
      BY <1>1
    <3>2. q[j] = p[i]
      BY <1>1
    <3> HIDE DEF j
    <3>3. Len(K[j]) = Len(K[i]) + Len(p[i])
      BY <1>4, <3>1, <3>2
    <3>4. KL[j] = KL[i] + PL[i]
      BY <3>1, <3>3
    <3> QED
      BY <3>4 DEF j
  <2> QED
    BY <2>1, <2>2, <2>3
<1>8. /\ \A i \in 0 .. m : JL[i] \in Nat
      /\ JL[0] = 0
      /\ \A i \in 1 .. m : JL[i] = JL[i - 1] + PL[i] /\ PL[i] \in Nat
  <2>1. \A i \in 1 .. m : i \in 0 .. m /\ i - 1 \in 0 .. m
    BY <1>1
  <2>2. 0 \in 0 .. m
    BY <1>1
  <2> QED
    BY <1>5, <2>1, <2>2
<1>9. Len(FlattenSeq(q)) = KL[m + 1] /\ Len(FlattenSeq(p)) = JL[m] /\ m \in 0 .. m
  BY <1>1, <1>2, <1>3 DEF m
<1> DEFINE Good == {i \in Nat : i <= m => KL[i + 1] = u + JL[i]}
<1>u. u \in Nat
  BY <1>6
<1> HIDE DEF u, KL, JL, PL
<1>10. 0 \in Good
  <2>1. 0 + 1 = 1
    OBVIOUS
  <2> QED
    BY <1>7, <1>8, <1>u, <2>1
<1>11. ASSUME NEW i \in Nat, i \in Good PROVE i + 1 \in Good
  <2>1. SUFFICES ASSUME i + 1 <= m PROVE KL[(i + 1) + 1] = u + JL[i + 1]
    BY <2>1
  <2> DEFINE j == i + 1
  <2>2. j \in 1 .. m /\ j - 1 = i /\ i <= m /\ i \in 0 .. m
    BY <1>1, <2>1
  <2> HIDE DEF j
  <2>3. KL[j] = u + JL[i]
    BY <1>11, <2>2 DEF j
  <2>4. KL[j + 1] = KL[j] + PL[j] /\ JL[j] = JL[i] + PL[j] /\ PL[j] \in Nat /\ JL[i] \in Nat
    BY <1>7, <1>8, <2>2
  <2>5. KL[j + 1] = u + JL[j]
    BY <1>u, <2>3, <2>4
  <2> QED
    BY <2>5 DEF j
<1> HIDE DEF Good
<1>12. Nat \subseteq Good
  BY <1>10, <1>11, SetInduction
<1>13. m \in Good /\ m <= m
  BY <1>1, <1>12
<1>14. KL[m + 1] = u + JL[m]
  BY <1>13 DEF Good
<1> QED
  BY <1>8, <1>9, <1>14, <1>u DEF q, u

\* Of the height that so many bytes can make, and written in no more of them.
Fits(it, size) ==
    \A n \in Nat : n <= Depth /\ size <= 2 * n + 1 =>
        it \in Trees(n) /\ Len(encodeDataItem[it]) <= size
FitsRow(items, size) ==
    \A n \in Nat : n <= Depth /\ size <= 2 * n + 1 =>
        items \in Seq(Trees(n)) /\ Len(FlattenSeq(Each(encodeDataItem, items))) <= size

\* What is read with the recorder's limit is read so with any greater one.
ItemSound(d, pos, other, r) ==
    /\ r = decodeDataItem(d, pos, other, DecodeChildren(d, other))
    /\ Fits(r.item, r.next - pos)
RowSound(d, pos, end, other, x) ==
    /\ x = DecodeChildren(d, other)[pos][end]
    /\ x = [items |-> x.items] /\ pos <= end /\ FitsRow(x.items, end - pos)

LEMMA TreeOfHeight == ASSUME NEW n \in Nat, n <= Depth PROVE Trees(n) \subseteq Tree
BY DepthIs, TreesGrow

\* An item written in a code and contents no longer than those read fits.
LEMMA WrittenShort ==
    ASSUME NEW it \in Tree, it.typeCode \in Codes, NEW s, Written(it, s), NEW pos \in Nat,
           NEW at \in Nat, NEW next \in Nat, Len(encodeSigned(it.typeCode)) <= at - pos,
           Len(s) <= next - at
    PROVE  Len(encodeDataItem[it]) <= next - pos
<1> DEFINE a == Len(encodeSigned(it.typeCode))
           b == Len(s)
           c == Len(encodeDataItem[it])
<1>1. c = a + b /\ a \in Nat /\ b \in Nat /\ c \in Nat
  BY WrittenTyped
<1>2. a <= at - pos /\ b <= next - at
  OBVIOUS
<1> HIDE DEF a, b, c
<1>3. c <= next - pos
  BY <1>1, <1>2
<1> QED
  BY <1>3 DEF c

LEMMA FlatFits ==
    ASSUME NEW it \in Flat, NEW s, Written(it, s), NEW pos \in Nat,
           NEW at \in Nat, NEW next \in Nat, Len(encodeSigned(it.typeCode)) <= at - pos,
           Len(s) <= next - at
    PROVE  Fits(it, next - pos)
<1>1. it \in Tree /\ it.typeCode \in Codes
  BY FlatIsTree, FlatKinds, DepthIs
<1>2. Len(encodeDataItem[it]) <= next - pos
  BY <1>1, WrittenShort
<1>3. \A n \in Nat : it \in Trees(n)
  BY FlatIsTree
<1> QED
  BY <1>2, <1>3 DEF Fits

LEMMA SubSeqTyped ==
    ASSUME NEW d \in Seq(Nat), NEW a \in Nat, a > 0, NEW b \in Nat, b <= Len(d)
    PROVE  SubSeq(d, a, b) \in Seq(Nat) /\ (a <= b + 1 => Len(SubSeq(d, a, b)) = (b - a) + 1)
<1>1. \A i \in a .. b : d[i] \in Nat
  <2>1. \A i \in a .. b : i \in 1 .. Len(d)
    OBVIOUS
  <2> QED
    BY <2>1, ElementOfSeq
<1>2. /\ SubSeq(d, a, b) \in Seq(Nat)
      /\ Len(SubSeq(d, a, b)) = IF a <= b THEN b - a + 1 ELSE 0
  BY <1>1, SubSeqProperties
<1> DEFINE l == Len(SubSeq(d, a, b))
<1>3. l = IF a <= b THEN b - a + 1 ELSE 0
  BY <1>2
<1> HIDE DEF l
<1>4. a <= b + 1 => l = (b - a) + 1
  BY <1>3
<1> QED
  BY <1>2, <1>4 DEF l

LEMMA SingleSeq ==
    ASSUME NEW s \in Seq(Nat), Len(s) = 1 PROVE s \in [1 .. FixedSize -> Nat]
<1>1. s \in [1 .. Len(s) -> Nat]
  BY LenProperties
<1> QED
  BY <1>1, Zenon DEF FixedSize

LEMMA FixedSound ==
    ASSUME NEW d \in Seq(Nat), NEW code, NEW pos \in Nat, NEW at \in Nat, pos > 0, at > pos,
           Len(encodeSigned(code)) <= at - pos, NEW r, ReadsFixed(d, code, at, r)
    PROVE  Fits(r.item, r.next - pos)
<1> DEFINE s == SubSeq(d, at, at)
           it == bytesItem(code, s)
           m == at + 1
<1>1. sizeCategory(code) = "fixed" /\ at <= Len(d) /\ r = Read(it, m)
  BY DEF ReadsFixed
<1>2. s \in Seq(Nat) /\ Len(s) = 1
  BY <1>1, SubSeqTyped
<1>3. m \in Nat /\ m - at = 1 /\ at > 0
  OBVIOUS
<1> HIDE DEF s, m
<1>4. s \in [1 .. FixedSize -> Nat]
  BY <1>2, SingleSeq
<1>5. code \in CodesOf("fixed")
  BY <1>1, CodeOf
<1>6. it \in Flat
  BY <1>4, <1>5, FlatMade
<1>7. it.typeCode = code /\ it.data = s
  BY DEF bytesItem
<1>7a. it = bytesItem(code, s)
  OBVIOUS
<1> HIDE DEF it
<1>8. IsFixed(it)
  BY <1>1, <1>4, <1>7, <1>7a DEF IsFixed
<1>9. it \in Tree
  BY <1>6, FlatIsTree, DepthIs
<1>10. Written(it, s)
  BY <1>7, <1>8, <1>9, FixedWritten
<1>11. Fits(it, m - pos)
  <2>1. Len(encodeSigned(it.typeCode)) <= at - pos /\ Len(s) <= m - at
    BY <1>2, <1>3, <1>7
  <2> QED
    BY <1>3, <1>6, <1>10, <2>1, FlatFits
<1> QED
  BY <1>1, <1>11 DEF Read

LEMMA VbcSound ==
    ASSUME NEW d \in Seq(Nat), NEW code, NEW pos \in Nat, NEW at \in Nat, pos > 0, at > pos,
           Len(encodeSigned(code)) <= at - pos, NEW r, NEW b, ReadsVbc(d, code, at, U64, b, r)
    PROVE  Fits(r.item, r.next - pos)
<1> DEFINE v == b.value
           u == b.used
           it == vbcItem(code, v)
           m == at + u
           s == encodeUnsigned[v]
<1>1. sizeCategory(code) = "vbcValue" /\ b = decodeUnsigned(d, at, U64) /\ b # Refused
      /\ r = Read(it, m)
  BY DEF ReadsVbc
<1>2. v \in Nat /\ v < U64 /\ u \in Nat /\ u >= 1 /\ Len(s) <= u /\ at > 0
  BY <1>1, SizesAre, ReadIsWritten
<1>3. m \in Nat /\ m - at = u
  BY <1>2
<1>4. v \in 0 .. U64 - 1
  BY <1>2, SizesAre
<1> HIDE DEF v, m, u
<1>5. code \in CodesOf("vbcValue")
  BY <1>1, CodeOf
<1>6. it \in Flat
  BY <1>4, <1>5, FlatMade
<1>7. it.typeCode = code /\ it.value = v
  BY DEF vbcItem
<1>7a. it = vbcItem(code, v)
  OBVIOUS
<1> HIDE DEF it
<1>8. IsVbc(it)
  BY <1>1, <1>4, <1>7, <1>7a DEF IsVbc
<1>9. it \in Tree
  BY <1>6, FlatIsTree, DepthIs
<1>10. Written(it, s)
  BY <1>7, <1>8, <1>9, VbcWritten
<1> HIDE DEF s
<1>11. Fits(it, m - pos)
  <2>1. Len(encodeSigned(it.typeCode)) <= at - pos /\ Len(s) <= m - at
    BY <1>2, <1>3, <1>7
  <2> QED
    BY <1>3, <1>6, <1>10, <2>1, FlatFits
<1> QED
  BY <1>1, <1>11 DEF Read

LEMMA VariableSound ==
    ASSUME NEW d \in Seq(Nat), NEW code, NEW pos \in Nat, NEW at \in Nat, pos > 0, at > pos,
           Len(encodeSigned(code)) <= at - pos, NEW r, NEW b,
           ReadsVariable(d, code, at, U64, b, r)
    PROVE  Fits(r.item, r.next - pos)
<1> DEFINE v == b.value
           u == b.used
           start == at + u
           m == at + u + v
           s == SubSeq(d, start, m - 1)
           it == bytesItem(code, s)
<1>1. sizeCategory(code) = "variable" /\ b = decodeUnsigned(d, at, U64) /\ b # Refused
      /\ m <= Len(d) + 1 /\ r = Read(it, m)
  BY Zenon DEF ReadsVariable
<1>2. v \in Nat /\ v < U64 /\ u \in Nat /\ u >= 1 /\ Len(encodeUnsigned[v]) <= u /\ at > 0
  BY <1>1, SizesAre, ReadIsWritten
<1>3. m \in Nat /\ m - at = u + v /\ start \in Nat /\ start > 0 /\ m = start + v
      /\ m - 1 \in Nat /\ m - 1 <= Len(d) /\ start <= (m - 1) + 1 /\ ((m - 1) - start) + 1 = v
  <2> DEFINE D == Len(d)
  <2>1. at + u + v <= D + 1 /\ D \in Nat /\ v \in Nat /\ u \in Nat /\ u >= 1
    BY <1>1, <1>2
  <2> HIDE DEF D, v, u, s, it
  <2>2. /\ m \in Nat /\ m - at = u + v /\ start \in Nat /\ start > 0 /\ m = start + v
        /\ m - 1 \in Nat /\ m - 1 <= D /\ start <= (m - 1) + 1 /\ ((m - 1) - start) + 1 = v
    BY <2>1
  <2> QED
    BY <2>2 DEF D
<1> DEFINE l == m - 1
<1>4. s \in Seq(Nat) /\ Len(s) = v
  <2>1. l \in Nat /\ l <= Len(d) /\ start <= l + 1 /\ (l - start) + 1 = v
    BY <1>3
  <2>2. s = SubSeq(d, start, l)
    OBVIOUS
  <2> HIDE DEF v, m, u, start, l, s
  <2> QED
    BY <1>3, <2>1, <2>2, SubSeqTyped
<1> HIDE DEF v, m, u, s, start, l
<1>5. code \in CodesOf("variable")
  BY <1>1, CodeOf
<1>6. it \in Flat
  BY <1>4, <1>5, FlatMade
<1>7. it.typeCode = code /\ it.data = s
  BY DEF bytesItem
<1>7a. it = bytesItem(code, s)
  OBVIOUS
<1> HIDE DEF it
<1>8. IsVariable(it)
  BY <1>1, <1>4, <1>7, <1>7a DEF IsVariable
<1>9. it \in Tree
  BY <1>6, FlatIsTree, DepthIs
<1>10. Written(it, Sized(s))
  BY <1>7, <1>8, <1>9, VariableWritten
<1>10a. Len(Sized(s)) <= m - at
  <2> DEFINE a == Len(Sized(s))
             e == Len(encodeUnsigned[v])
  <2>1. a = e + v /\ e \in Nat
    BY <1>4, SizedLength
  <2>2. e <= u
    BY <1>2
  <2> HIDE DEF a, e
  <2>3. a <= m - at
    BY <1>2, <1>3, <2>1, <2>2
  <2> QED
    BY <2>3 DEF a
<1>11. Fits(it, m - pos)
  <2>1. Len(encodeSigned(it.typeCode)) <= at - pos
    BY <1>7
  <2> QED
    BY <1>3, <1>6, <1>10, <1>10a, <2>1, FlatFits
<1> QED
  BY <1>1, <1>11 DEF Read

LEMMA ContainerFits ==
    ASSUME NEW code, sizeCategory(code) = "container", NEW cs, NEW u \in Nat, NEW v \in Nat,
           Len(encodeUnsigned[v]) <= u, FitsRow(cs, v), NEW pos \in Nat, NEW at \in Nat, at > pos,
           Len(encodeSigned(code)) <= at - pos, u >= 1
    PROVE  Fits(containerItem(code, cs), (at + u + v) - pos)
<1> DEFINE it == containerItem(code, cs)
           end == at + u + v
<1>1. SUFFICES ASSUME NEW n \in Nat, n <= Depth, end - pos <= 2 * n + 1
               PROVE  it \in Trees(n) /\ Len(encodeDataItem[it]) <= end - pos
  BY DEF Fits
<1> DEFINE m == n - 1
<1>2. m \in Nat /\ n = m + 1 /\ v <= 2 * m + 1 /\ end \in Nat /\ end - at = u + v
  BY <1>1
<1>3. Depth \in Nat
  BY DepthIs
<1>4. m <= Depth
  BY <1>1, <1>2, <1>3
<1>5. cs \in Seq(Trees(m)) /\ Len(FlattenSeq(Each(encodeDataItem, cs))) <= v
  BY <1>2, <1>4 DEF FitsRow
<1>6. code \in CodesOf("container") /\ code \in Codes
  BY CodeOf
<1> HIDE DEF m, end
<1>7. it \in Trees(n)
  BY <1>2, <1>5, <1>6, ContainerMade
<1>8. it \in Tree
  BY <1>1, <1>7, TreeOfHeight
<1> DEFINE S == Trees(m)
           C == FlattenSeq(Each(encodeDataItem, cs))
<1>9. \A c \in S : encodeDataItem[c] \in Seq(Nat)
  BY <1>2, <1>4, TreeOfHeight, EncodeTyped
<1>10. it.typeCode = code /\ it.children = cs /\ it = containerItem(code, cs)
  BY DEF containerItem
<1>11. cs \in Seq(S)
  BY <1>5
<1> HIDE DEF S, it
<1>12. IsContainer(it, S)
  BY <1>10, <1>11 DEF IsContainer
<1>13. Contents(it) = C
  BY <1>10 DEF Contents
<1>14. C \in Seq(Nat) /\ Written(it, Sized(C))
  BY <1>8, <1>9, <1>12, <1>13, ContainerWritten
<1>15. Len(C) <= v
  BY <1>5
<1> HIDE DEF C
<1>16. Len(Sized(C)) <= end - at
  <2> DEFINE c == Len(C)
             z == Len(Sized(C))
             e == Len(encodeUnsigned[c])
             f == Len(encodeUnsigned[v])
  <2>1. z = e + c /\ e \in Nat /\ c \in Nat
    BY <1>14, SizedLength
  <2>2. c <= v /\ f <= u /\ f \in Nat
    BY <1>15, FieldShort
  <2> HIDE DEF c, z
  <2>3. e <= f
    BY <2>1, <2>2, FieldsGrow
  <2> HIDE DEF e, f
  <2>4. z <= end - at
    BY <1>2, <2>1, <2>2, <2>3
  <2> QED
    BY <2>4 DEF z
<1>17. Len(encodeSigned(it.typeCode)) <= at - pos
  BY <1>10
<1>18. Len(encodeDataItem[it]) <= end - pos
  <2> DEFINE s == Sized(C)
  <2>1. Written(it, s) /\ Len(s) <= end - at
    BY <1>14, <1>16
  <2> HIDE DEF s
  <2>2. it.typeCode \in Codes
    BY <1>6, <1>10
  <2> QED
    BY <1>2, <1>8, <1>17, <2>1, <2>2, WrittenShort
<1> QED
  BY <1>7, <1>18 DEF it

RowsSound(d, pos, other) ==
    \A q, end \in Places(d) :
        q > pos /\ DecodeChildren(d, U64)[q][end] # Refused =>
            RowSound(d, q, end, other, DecodeChildren(d, U64)[q][end])

LEMMA BodySound ==
    ASSUME NEW d \in Seq(Nat), NEW other \in Nat, U64 <= other, NEW code, NEW pos \in Nat,
           NEW at \in Nat, pos > 0, at > pos, Len(encodeSigned(code)) <= at - pos,
           RowsSound(d, pos, other), NEW r,
           r = DecodeBody(d, code, at, U64, DecodeChildren(d, U64)), r # Refused
    PROVE  /\ Fits(r.item, r.next - pos)
           /\ r = DecodeBody(d, code, at, other, DecodeChildren(d, other))
<1> DEFINE ch == DecodeChildren(d, U64)
           co == DecodeChildren(d, other)
           b == decodeUnsigned(d, at, U64)
           bo == decodeUnsigned(d, at, other)
           u == b.used
           v == b.value
<1>0. U64 \in Nat /\ at > 0
  BY SizesAre
<1>1. b # Refused => /\ u \in Nat /\ u >= 1 /\ v \in Nat /\ at + u - 1 <= Len(d)
                     /\ Len(encodeUnsigned[v]) <= u /\ bo = b
  BY <1>0, ReadIsWritten
<1>2. r = DecodeBody(d, code, at, U64, ch)
  OBVIOUS
<1>3. ch = DecodeChildren(d, U64) /\ co = DecodeChildren(d, other)
  OBVIOUS
<1> HIDE DEF ch, co
<1>4. \/ ReadsFixed(d, code, at, r)
      \/ ReadsVbc(d, code, at, U64, b, r)
      \/ ReadsVariable(d, code, at, U64, b, r)
      \/ ReadsContainer(d, code, at, U64, ch, b, r)
  BY <1>0, <1>2, BodyKinds
<1>5. CASE ReadsFixed(d, code, at, r)
  <2>1. Fits(r.item, r.next - pos)
    BY <1>5, FixedSound
  <2>2. sizeCategory(code) = "fixed"
    BY <1>5 DEF ReadsFixed
  <2>3. r = DecodeBody(d, code, at, other, co)
    BY <1>2, <2>2, BodyOfFixed
  <2> QED
    BY <1>3, <2>1, <2>3
<1>6. CASE ReadsVbc(d, code, at, U64, b, r)
  <2>1. Fits(r.item, r.next - pos)
    BY <1>6, VbcSound
  <2>2. sizeCategory(code) = "vbcValue" /\ bo = b
    BY <1>1, <1>6 DEF ReadsVbc
  <2>3. r = DecodeBody(d, code, at, other, co)
    BY <1>2, <2>2, BodyOfVbc
  <2> QED
    BY <1>3, <2>1, <2>3
<1>7. CASE ReadsVariable(d, code, at, U64, b, r)
  <2>1. Fits(r.item, r.next - pos)
    BY <1>7, VariableSound
  <2>2. sizeCategory(code) = "variable" /\ bo = b
    BY <1>1, <1>7 DEF ReadsVariable
  <2>3. r = DecodeBody(d, code, at, other, co)
    BY <1>2, <2>2, BodyOfVariable
  <2> QED
    BY <1>3, <2>1, <2>3
<1>8. CASE ReadsContainer(d, code, at, U64, ch, b, r)
  <2> DEFINE start == at + u
             end == at + u + v
             x == ch[start][end]
  <2>1. /\ sizeCategory(code) = "container" /\ b # Refused /\ x # Refused
        /\ r = Read(containerItem(code, x.items), end)
    BY <1>8 DEF ReadsContainer
  <2>2. end <= Len(d) + 1
    BY <1>8 DEF ReadsContainer
  <2>3. /\ u \in Nat /\ u >= 1 /\ v \in Nat /\ Len(encodeUnsigned[v]) <= u /\ bo = b
    BY <1>1, <2>1
  <2>4. start \in Places(d) /\ end \in Places(d) /\ start > pos /\ end - start = v
    <3> DEFINE D == Len(d)
    <3>1. end <= D + 1 /\ D \in Nat
      BY <2>2
    <3> HIDE DEF D, u, v
    <3>2. start \in 1 .. D + 1 /\ end \in 1 .. D + 1 /\ start > pos /\ end - start = v
      BY <2>3, <3>1
    <3> QED
      BY <3>2 DEF Places, D
  <2> HIDE DEF start, end
  <2>5. RowSound(d, start, end, other, x)
    BY <1>3, <2>1, <2>4 DEF RowsSound
  <2>6. x = co[start][end] /\ FitsRow(x.items, v)
    BY <1>3, <2>4, <2>5 DEF RowSound
  <2> HIDE DEF u, v, b, bo
  <2>7. Fits(containerItem(code, x.items), end - pos)
    <3> DEFINE cs == x.items
    <3>1. FitsRow(cs, v)
      BY <2>6
    <3> HIDE DEF cs
    <3>2. Fits(containerItem(code, cs), (at + u + v) - pos)
      BY <2>1, <2>3, <3>1, ContainerFits
    <3> QED
      BY <3>2 DEF cs, end
  <2>8. Fits(r.item, r.next - pos)
    BY <2>1, <2>7 DEF Read
  <2>9. r = DecodeBody(d, code, at, other, co)
    <3>1. DecodeBody(d, code, at, U64, ch) = ReadContainer(d, code, start, end, ch)
      BY <2>1, BodyOfContainer DEF start, end, u, v, b
    <3>2. DecodeBody(d, code, at, other, co) = ReadContainer(d, code, start, end, co)
      BY <2>1, <2>3, BodyOfContainer DEF start, end, u, v, b, bo
    <3>3. ReadContainer(d, code, start, end, ch) = ReadContainer(d, code, start, end, co)
      BY <2>6, Zenon DEF ReadContainer
    <3> QED
      BY <1>2, <3>1, <3>2, <3>3
  <2> QED
    BY <1>3, <2>8, <2>9
<1> QED
  BY <1>4, <1>5, <1>6, <1>7, <1>8

LEMMA OneItemSound ==
    ASSUME NEW d \in Seq(Nat), NEW other \in Nat, U64 <= other, NEW pos \in Nat, pos > 0,
           RowsSound(d, pos, other), NEW r,
           r = decodeDataItem(d, pos, U64, DecodeChildren(d, U64)), r # Refused
    PROVE  ItemSound(d, pos, other, r)
<1> DEFINE c == decodeSigned(d, pos, U64)
           k == c.value
           u == c.used
           at == pos + u
           ch == DecodeChildren(d, U64)
           co == DecodeChildren(d, other)
<1>1. c # Refused /\ r = DecodeBody(d, k, at, U64, ch)
  BY Zenon DEF decodeDataItem
<1>2. /\ u \in Nat /\ u >= 1 /\ Len(encodeSigned(k)) <= u /\ decodeSigned(d, pos, other) = c
  BY <1>1, SizesAre, SignedRead
<1>3. decodeDataItem(d, pos, other, co) = DecodeBody(d, k, at, other, co)
  BY <1>1, <1>2, Zenon DEF decodeDataItem
<1> HIDE DEF c, k, u
<1>4. at \in Nat /\ at > pos /\ at - pos = u
  BY <1>2
<1> HIDE DEF at
<1>5. Len(encodeSigned(k)) <= at - pos
  BY <1>2, <1>4
<1>6. /\ Fits(r.item, r.next - pos)
      /\ r = DecodeBody(d, k, at, other, DecodeChildren(d, other))
  BY <1>1, <1>4, <1>5, BodySound
<1> QED
  BY <1>3, <1>6 DEF ItemSound

LEMMA ConsIs ==
    ASSUME NEW S, NEW c \in S, NEW s \in Seq(S)
    PROVE  /\ <<c>> \o s \in Seq(S) /\ Len(<<c>> \o s) = Len(s) + 1 /\ (<<c>> \o s)[1] = c
           /\ \A i \in 1 .. Len(s) : (<<c>> \o s)[i + 1] = s[i]
<1> DEFINE o == <<c>>
           m == Len(s)
           z == o \o s
<1>1. o \in Seq(S) /\ Len(o) = 1 /\ o[1] = c
  BY OneOf
<1> HIDE DEF o
<1>2. /\ z \in Seq(S) /\ Len(z) = Len(o) + m
      /\ \A i \in 1 .. Len(o) + m : z[i] = IF i <= Len(o) THEN o[i] ELSE s[i - Len(o)]
  BY <1>1, ConcatProperties
<1>3. m \in Nat
  OBVIOUS
<1> HIDE DEF z, m
<1>4. Len(z) = m + 1 /\ \A i \in 1 .. 1 + m : z[i] = IF i <= 1 THEN o[i] ELSE s[i - 1]
  BY <1>1, <1>2, <1>3
<1>5. z[1] = c
  BY <1>1, <1>3, <1>4
<1>6. ASSUME NEW i \in 1 .. m PROVE z[i + 1] = s[i]
  <2> DEFINE j == i + 1
  <2>1. j \in 1 .. 1 + m /\ ~(j <= 1) /\ j - 1 = i
    BY <1>3
  <2> HIDE DEF j
  <2>2. z[j] = s[i]
    BY <1>4, <2>1
  <2> QED
    BY <2>2 DEF j
<1> QED
  BY <1>2, <1>4, <1>5, <1>6 DEF z, m, o

LEMMA EachOfMore ==
    ASSUME NEW S, NEW c \in S, NEW s \in Seq(S),
           \A b \in S : encodeDataItem[b] \in Seq(Nat)
    PROVE  Each(encodeDataItem, <<c>> \o s) = <<encodeDataItem[c]>> \o Each(encodeDataItem, s)
<1> DEFINE f == encodeDataItem
           V == Seq(Nat)
           z == <<c>> \o s
           m == Len(s)
           e == Each(f, s)
           w == <<f[c]>> \o e
           y == Each(f, z)
<1>1. z \in Seq(S) /\ Len(z) = m + 1 /\ z[1] = c /\ \A i \in 1 .. m : z[i + 1] = s[i]
  BY ConsIs
<1>2. e \in Seq(V) /\ Len(e) = m /\ \A i \in 1 .. m : e[i] = f[s[i]]
  BY EachWritten
<1>3. w \in Seq(V) /\ Len(w) = Len(e) + 1 /\ w[1] = f[c] /\ \A i \in 1 .. Len(e) : w[i + 1] = e[i]
  <2> HIDE DEF e
  <2>1. f[c] \in V
    OBVIOUS
  <2> QED
    BY <1>2, <2>1, ConsIs
<1> HIDE DEF z
<1>4. y \in Seq(V) /\ Len(y) = Len(z) /\ \A i \in 1 .. Len(z) : y[i] = f[z[i]]
  BY <1>1, EachWritten
<1>5. m \in Nat
  OBVIOUS
<1> HIDE DEF m, e, w, y
<1>6. ASSUME NEW i \in 1 .. m + 1 PROVE y[i] = w[i]
  <2>1. i \in Nat /\ (i = 1 \/ i - 1 \in 1 .. m)
    BY <1>5
  <2>2. CASE i = 1
    BY <1>1, <1>3, <1>4, <2>2
  <2>3. CASE i - 1 \in 1 .. m
    <3> DEFINE j == i - 1
    <3>1. j \in 1 .. m /\ j + 1 = i
      BY <2>1, <2>3
    <3> HIDE DEF j
    <3>2. z[j + 1] = s[j] /\ w[j + 1] = e[j] /\ e[j] = f[s[j]]
      BY <1>1, <1>2, <1>3, <3>1
    <3> QED
      BY <1>1, <1>4, <3>1, <3>2
  <2> QED
    BY <2>1, <2>2, <2>3
<1>7. Len(y) = Len(w) /\ \A i \in 1 .. Len(y) : y[i] = w[i]
  BY <1>1, <1>2, <1>3, <1>4, <1>6
<1>8. y = w
  BY <1>3, <1>4, <1>7, SeqEqual
<1> QED
  BY <1>8 DEF y, w, z, e, f

LEMMA RowOfNone == FitsRow(<<>>, 0)
<1>1. Each(encodeDataItem, <<>>) = <<>>
  BY DEF Each
<1>2. \A n : <<>> \in Seq(Trees(n))
  OBVIOUS
<1>3. Len(FlattenSeq(<<>>)) <= 0
  BY FlattenOfNone
<1> QED
  BY <1>1, <1>2, <1>3 DEF FitsRow

LEMMA RowOfMore ==
    ASSUME NEW it, NEW items, NEW a \in Nat, NEW b \in Nat, Fits(it, a), FitsRow(items, b)
    PROVE  FitsRow(<<it>> \o items, a + b)
<1>1. SUFFICES ASSUME NEW n \in Nat, n <= Depth, a + b <= 2 * n + 1
               PROVE  /\ <<it>> \o items \in Seq(Trees(n))
                      /\ Len(FlattenSeq(Each(encodeDataItem, <<it>> \o items))) <= a + b
  BY DEF FitsRow
<1> DEFINE S == Trees(n)
<1>2. it \in S /\ Len(encodeDataItem[it]) <= a
  BY <1>1 DEF Fits
<1>3. items \in Seq(S) /\ Len(FlattenSeq(Each(encodeDataItem, items))) <= b
  BY <1>1 DEF FitsRow
<1>4. \A c \in S : encodeDataItem[c] \in Seq(Nat)
  BY <1>1, TreeOfHeight, EncodeTyped
<1> HIDE DEF S
<1>5. <<it>> \o items \in Seq(S)
  BY <1>2, <1>3, ConsIs
<1> DEFINE e == encodeDataItem[it]
           p == Each(encodeDataItem, items)
<1>6. p \in Seq(Seq(Nat))
  BY <1>3, <1>4, EachWritten
<1>7. Each(encodeDataItem, <<it>> \o items) = <<e>> \o p
  BY <1>2, <1>3, <1>4, EachOfMore
<1>8. e \in Seq(Nat)
  BY <1>2, <1>4
<1> DEFINE z == Len(FlattenSeq(<<e>> \o p))
           x == Len(e)
           y == Len(FlattenSeq(p))
<1>9. x <= a /\ y <= b
  BY <1>2, <1>3
<1> HIDE DEF e, p
<1>10. z = x + y /\ x \in Nat /\ y \in Nat
  BY <1>6, <1>8, FlattenOfMore
<1> HIDE DEF x, y, z
<1>11. z <= a + b
  BY <1>9, <1>10
<1> QED
  BY <1>5, <1>7, <1>11 DEF z, S

LEMMA OneRowSound ==
    ASSUME NEW d \in Seq(Nat), NEW other \in Nat, U64 <= other, NEW pos \in Places(d),
           NEW end \in Places(d), RowsSound(d, pos, other), NEW x,
           x = DecodeChildren(d, U64)[pos][end], x # Refused
    PROVE  RowSound(d, pos, end, other, x)
<1> DEFINE ch == DecodeChildren(d, U64)
           co == DecodeChildren(d, other)
<1>0. U64 \in Nat /\ pos \in Nat /\ pos > 0 /\ end \in Nat
  BY SizesAre DEF Places
<1>1. ch = DecodeChildren(d, U64) /\ co = DecodeChildren(d, other) /\ x = ch[pos][end]
  OBVIOUS
<1> HIDE DEF ch, co
<1>2. CASE pos = end
  <2>1. x = [items |-> <<>>] /\ co[pos][end] = [items |-> <<>>]
    BY <1>0, <1>1, <1>2, ChildrenIs
  <2>2. x.items = <<>> /\ end - pos = 0
    BY <1>0, <1>2, <2>1
  <2> QED
    BY <1>0, <1>1, <1>2, <2>1, <2>2, RowOfNone DEF RowSound
<1>3. CASE pos < end
  <2> DEFINE c == decodeDataItem(d, pos, U64, ch)
             n == c.next
             y == ch[n][end]
             cs == y.items
  <2>1. x = ReadChild(c, end, ch)
    BY <1>0, <1>1, <1>3, ChildrenIs
  <2>2. co[pos][end] = ReadChild(decodeDataItem(d, pos, other, co), end, co)
    BY <1>0, <1>1, <1>3, ChildrenIs
  <2>3. c # Refused /\ y # Refused /\ x = [items |-> <<c.item>> \o cs]
    BY <2>1, Zenon DEF ReadChild
  <2>4. c = decodeDataItem(d, pos, U64, DecodeChildren(d, U64))
    BY <1>1
  <2> HIDE DEF c
  <2>5. ItemSound(d, pos, other, c)
    BY <1>0, <2>3, <2>4, OneItemSound
  <2>6. n \in Nat /\ n >= pos + 2 /\ n <= Len(d) + 1
    BY <1>0, <2>3, <2>4, ItemEnds
  <2>7. c = decodeDataItem(d, pos, other, co) /\ Fits(c.item, n - pos)
    BY <1>1, <2>5 DEF ItemSound
  <2>8. n \in Places(d) /\ n > pos
    <3> HIDE DEF n
    <3> QED
      BY <1>0, <2>6 DEF Places
  <2>9. RowSound(d, n, end, other, y)
    <3> HIDE DEF n
    <3> QED
      BY <1>1, <2>3, <2>8 DEF RowsSound
  <2>10. y = co[n][end] /\ n <= end /\ FitsRow(cs, end - n)
    BY <1>1, <2>9 DEF RowSound
  <2>11. co[pos][end] = x
    <3>1. ReadChild(c, end, co) = ReadChild(c, end, ch)
      BY <2>10, Zenon DEF ReadChild
    <3> QED
      BY <2>1, <2>2, <2>7, <3>1
  <2> HIDE DEF n, y, cs
  <2>12. FitsRow(<<c.item>> \o cs, end - pos)
    <3> DEFINE a == n - pos
               b == end - n
    <3>1. a \in Nat /\ b \in Nat /\ end - pos = a + b
      BY <1>0, <2>6, <2>10
    <3>2. Fits(c.item, a) /\ FitsRow(cs, b)
      BY <2>7, <2>10
    <3> HIDE DEF a, b
    <3> QED
      BY <3>1, <3>2, RowOfMore
  <2> DEFINE t == <<c.item>> \o cs
  <2>13. x = [items |-> t] /\ FitsRow(t, end - pos)
    BY <2>3, <2>12
  <2> HIDE DEF t
  <2>14. x.items = t
    BY <2>13
  <2> QED
    BY <1>0, <1>1, <1>3, <2>11, <2>13, <2>14 DEF RowSound
<1>4. CASE pos > end
  BY <1>0, <1>1, <1>4, ChildrenIs
<1> QED
  BY <1>0, <1>2, <1>3, <1>4

LEMMA AllRowsSound ==
    ASSUME NEW d \in Seq(Nat), NEW other \in Nat, U64 <= other
    PROVE  RowsSound(d, 0, other)
<1> DEFINE N == Len(d) + 1
           Good == {m \in Nat : m <= N => RowsSound(d, N - m, other)}
<1>0. N \in Nat /\ Places(d) = 1 .. N
  BY DEF Places
<1> HIDE DEF N
<1>1. 0 \in Good
  <2>1. \A q \in Places(d) : ~(q > N - 0)
    BY <1>0
  <2>2. RowsSound(d, N - 0, other)
    BY <2>1 DEF RowsSound
  <2> QED
    BY <2>2
<1>2. ASSUME NEW m \in Nat, m \in Good PROVE m + 1 \in Good
  <2>1. SUFFICES ASSUME m + 1 <= N PROVE RowsSound(d, N - (m + 1), other)
    <3>1. m + 1 \in Nat
      OBVIOUS
    <3> QED
      BY <2>1, <3>1
  <2> DEFINE p == N - m
  <2>2. RowsSound(d, p, other)
    BY <1>0, <1>2, <2>1
  <2>3. p \in Places(d) /\ p \in Nat /\ N - (m + 1) = p - 1
    BY <1>0, <2>1
  <2> HIDE DEF p
  <2>4. ASSUME NEW q \in Places(d), NEW end \in Places(d), q > p - 1,
               DecodeChildren(d, U64)[q][end] # Refused
        PROVE  RowSound(d, q, end, other, DecodeChildren(d, U64)[q][end])
    <3>1. q = p \/ q > p
      BY <1>0, <2>3, <2>4
    <3>2. CASE q > p
      BY <2>2, <2>4, <3>2 DEF RowsSound
    <3>3. CASE q = p
      BY <2>2, <2>3, <2>4, <3>3, OneRowSound
    <3> QED
      BY <3>1, <3>2, <3>3
  <2> QED
    BY <2>3, <2>4 DEF RowsSound
<1> HIDE DEF Good
<1>3. Nat \subseteq Good
  BY <1>1, <1>2, SetInduction
<1>4. N \in Good /\ N <= N /\ N - N = 0
  BY <1>0, <1>3
<1> QED
  BY <1>4 DEF Good

\* What the recorder reads from a byte string is an item, written in no more bytes
\* than the string has, and the wallet reads the same.
THEOREM ReadIsItem ==
    ASSUME NEW d \in Seq(Nat), Len(d) <= MaxLen, NEW r, r = fromBytes(d, U64), r # Refused
    PROVE  /\ r \in Tree /\ Len(encodeDataItem[r]) <= Len(d)
           /\ \A other \in Nat : U64 <= other => fromBytes(d, other) = r
<1> DEFINE w == decodeDataItem(d, 1, U64, DecodeChildren(d, U64))
           D == Len(d)
<1>1. w # Refused /\ w.next = D + 1 /\ r = w.item
  BY Zenon DEF fromBytes
<1>2. ASSUME NEW other \in Nat, U64 <= other PROVE ItemSound(d, 1, other, w)
  <2>1. RowsSound(d, 0, other)
    BY <1>2, AllRowsSound
  <2>2. \A q : q \in Places(d) /\ q > 1 => q > 0
    BY DEF Places
  <2>3. RowsSound(d, 1, other)
    BY <2>1, <2>2 DEF RowsSound
  <2> HIDE DEF w
  <2>4. w = decodeDataItem(d, 1, U64, DecodeChildren(d, U64))
    BY DEF w
  <2> QED
    BY <1>1, <1>2, <2>3, <2>4, OneItemSound
<1>3. ASSUME NEW other \in Nat, U64 <= other PROVE fromBytes(d, other) = r
  <2>1. w = decodeDataItem(d, 1, other, DecodeChildren(d, other))
    BY <1>2, <1>3 DEF ItemSound
  <2> HIDE DEF w
  <2> QED
    BY <1>1, <2>1, Zenon DEF fromBytes
<1>4. U64 \in Nat /\ U64 <= U64 /\ D \in Nat
  BY SizesAre
<1>5. Fits(w.item, w.next - 1)
  BY <1>2, <1>4 DEF ItemSound
<1>6. w.next - 1 = D
  BY <1>1, <1>4
<1>7. Fits(r, D)
  BY <1>1, <1>5, <1>6
<1>8. Depth \in Nat /\ Depth <= Depth /\ D <= 2 * Depth + 1
  <2>1. Depth \in Nat /\ MaxLen <= 2 * Depth + 1 /\ MaxLen \in Nat /\ D <= MaxLen
    BY DepthIs, SizesAre
  <2> HIDE DEF D
  <2> QED
    BY <1>4, <2>1
<1>9. r \in Trees(Depth) /\ Len(encodeDataItem[r]) <= D
  BY <1>7, <1>8 DEF Fits
<1> QED
  BY <1>3, <1>9, DepthIs

-----------------------------------------------------------------------------
(* The JSON form. *)

LEMMA NumberIs ==
    ASSUME NEW v \in Nat, v < Power(2, SafeBits) PROVE Number(v) = v
<1> DEFINE Q(n) == /\ v < Power(2, SafeBits + n)
                   /\ n = 0 \/ v >= Power(2, SafeBits + n - 1)
           k == CHOOSE n \in 0 .. ValueBits : Q(n)
           unit == Power(2, k)
           q == v \div unit
           twice == 2 * (v % unit)
<1>1. SafeBits \in Nat /\ ValueBits \in Nat /\ 2 \in Nat \ {0}
  BY SizesAre
<1>2. 0 \in 0 .. ValueBits /\ Q(0)
  BY <1>1
<1>3. ASSUME NEW n \in 0 .. ValueBits, Q(n) PROVE n = 0
  <2>1. SUFFICES ASSUME n # 0 PROVE FALSE
    BY <2>1
  <2> DEFINE m == SafeBits + n - 1
             p == Power(2, m)
             z == Power(2, SafeBits)
  <2>2. m \in Nat /\ SafeBits <= m
    BY <1>1, <2>1
  <2>3. v >= p
    BY <1>3, <2>1
  <2> HIDE DEF m
  <2>4. z <= p /\ z \in Nat /\ p \in Nat
    BY <1>1, <2>2, PowersGrow, PowerIs
  <2>5. v < z
    OBVIOUS
  <2> HIDE DEF p, z
  <2> QED
    BY <2>3, <2>4, <2>5
<1> HIDE DEF Q
<1>4. k \in 0 .. ValueBits /\ Q(k)
  BY <1>2
<1>5. k = 0
  BY <1>3, <1>4
<1>6. Number(v) = unit * (IF twice > unit \/ (twice = unit /\ q % 2 = 1) THEN q + 1 ELSE q)
  BY Zenon DEF Number, Q
<1> HIDE DEF k
<1>7. unit = 1
  BY <1>1, <1>5, PowerIs
<1> HIDE DEF unit
<1>8. q = v /\ twice = 0
  BY <1>7
<1> HIDE DEF q, twice
<1> QED
  BY <1>6, <1>7, <1>8

LEMMA HexIs == Hex \in Nat /\ Hex > 0
<1> DEFINE n == (DataBits + 1) \div 2
<1>1. n \in Nat /\ 2 \in Nat \ {0}
  BY SizesAre
<1> HIDE DEF n
<1>2. Power(2, n) \in Nat /\ Power(2, n) > 0
  BY <1>1, PowerIs
<1> QED
  BY <1>2 DEF Hex, n

LEMMA HexBack ==
    ASSUME NEW s \in Seq(Nat)
    PROVE  bytesToHex(s) \in Seq(Nat) /\ hexToBytes(bytesToHex(s)) = s
<1> DEFINE n == Len(s)
           m == 2 * n
           hi == [i \in 1 .. n |-> s[i] \div Hex]
           lo == [i \in 1 .. n |-> s[i] % Hex]
           h == bytesToHex(s)
<1>1. n \in Nat /\ m \in Nat /\ m % 2 = 0 /\ m \div 2 = n
  <2>1. n \in Nat
    OBVIOUS
  <2> HIDE DEF n
  <2> QED
    BY <2>1
<1>2. \A i \in 1 .. n : /\ hi[i] \in Nat /\ lo[i] \in Nat /\ s[i] \in Nat
                        /\ s[i] = Hex * hi[i] + lo[i]
  <2>1. ASSUME NEW i \in 1 .. n
        PROVE  hi[i] \in Nat /\ lo[i] \in Nat /\ s[i] \in Nat /\ s[i] = Hex * hi[i] + lo[i]
    <3> DEFINE v == s[i]
    <3>1. v \in Nat
      OBVIOUS
    <3>2. hi[i] = v \div Hex /\ lo[i] = v % Hex
      OBVIOUS
    <3> HIDE DEF v
    <3>3. v \div Hex \in Nat /\ v % Hex \in Nat /\ v = Hex * (v \div Hex) + (v % Hex)
      BY <3>1, HexIs, DivIs
    <3>4. hi[i] \in Nat /\ lo[i] \in Nat /\ v = Hex * hi[i] + lo[i]
      BY <3>2, <3>3
    <3> QED
      BY <3>1, <3>4 DEF v
  <2> QED
    BY <2>1
<1> DEFINE g == [i \in 1 .. m |-> IF i % 2 = 1 THEN s[(i + 1) \div 2] \div Hex
                                  ELSE s[i \div 2] % Hex]
<1>3. h = g
  BY Zenon DEF bytesToHex
<1>4. \A i \in 1 .. m : g[i] = IF i % 2 = 1 THEN s[(i + 1) \div 2] \div Hex ELSE s[i \div 2] % Hex
  OBVIOUS
<1>5. g = [i \in 1 .. m |-> g[i]]
  OBVIOUS
<1>5a. /\ \A i \in 1 .. n : s[i] \div Hex = hi[i]
       /\ \A i \in 1 .. n : s[i] % Hex = lo[i]
  OBVIOUS
<1> HIDE DEF n, m, hi, lo, g, h
<1>6. ASSUME NEW i \in 1 .. n
      PROVE  /\ 2 * i \in 1 .. m /\ g[2 * i] = lo[i]
             /\ 2 * i - 1 \in 1 .. m /\ g[2 * i - 1] = hi[i]
  <2> DEFINE a == 2 * i
             b == 2 * i - 1
  <2>1. a \in 1 .. m /\ b \in 1 .. m
    BY <1>1 DEF m
  <2>2. ~(a % 2 = 1) /\ a \div 2 = i /\ b % 2 = 1 /\ (b + 1) \div 2 = i
    BY <1>1
  <2> HIDE DEF a, b
  <2>3. g[a] = s[i] % Hex /\ g[b] = s[i] \div Hex
    BY <1>4, <2>1, <2>2
  <2>4. g[a] = lo[i] /\ g[b] = hi[i]
    BY <1>5a, <2>3
  <2> QED
    BY <2>1, <2>4 DEF a, b
<1>7. \A i \in 1 .. m : g[i] \in Nat
  <2>1. ASSUME NEW i \in 1 .. m PROVE g[i] \in Nat
    <3>1. CASE i % 2 = 1
      <4> DEFINE j == (i + 1) \div 2
      <4>1. j \in 1 .. n
        BY <1>1, <3>1 DEF m
      <4> HIDE DEF j
      <4>2. g[i] = s[j] \div Hex
        BY <1>4, <3>1 DEF j
      <4> QED
        BY <1>2, <1>5a, <4>1, <4>2
    <3>2. CASE ~(i % 2 = 1)
      <4> DEFINE j == i \div 2
      <4>1. j \in 1 .. n
        BY <1>1, <3>2 DEF m
      <4> HIDE DEF j
      <4>2. g[i] = s[j] % Hex
        BY <1>4, <3>2 DEF j
      <4> QED
        BY <1>2, <1>5a, <4>1, <4>2
    <3> QED
      BY <3>1, <3>2
  <2> QED
    BY <2>1
<1>8. g \in Seq(Nat) /\ Len(g) = m
  <2>1. g \in [1 .. m -> Nat]
    BY <1>5, <1>7, Zenon
  <2>2. m \in Nat
    BY <1>1 DEF m
  <2>3. g \in Seq(Nat)
    BY <2>1, <2>2
  <2> QED
    BY <2>1, <2>2, <2>3, LenProperties
<1>9. hexToBytes(g) = [i \in 1 .. n |-> g[2 * i - 1] * Hex + g[2 * i]]
  <2>1. ~(Len(g) % 2 = 1) /\ Len(g) \div 2 = n
    BY <1>1, <1>8
  <2> QED
    BY <2>1, Zenon DEF hexToBytes
<1>10. \A i \in 1 .. n : g[2 * i - 1] * Hex + g[2 * i] = s[i]
  <2>1. ASSUME NEW i \in 1 .. n PROVE g[2 * i - 1] * Hex + g[2 * i] = s[i]
    <3> DEFINE a == hi[i]
               b == lo[i]
    <3>1. a \in Nat /\ b \in Nat /\ s[i] = Hex * a + b /\ g[2 * i] = b /\ g[2 * i - 1] = a
      BY <1>2, <1>6
    <3>2. a * Hex = Hex * a
      BY <3>1, HexIs
    <3> QED
      BY <3>1, <3>2
  <2> QED
    BY <2>1
<1>11. s = [i \in 1 .. n |-> s[i]]
  BY DEF n
<1>12. hexToBytes(g) = s
  BY <1>9, <1>10, <1>11, Zenon
<1> QED
  BY <1>3, <1>8, <1>12 DEF h

Posts(it, n) == toJson[it] \in Forms(n) /\ fromJson[toJson[it]] = it

LEMMA FormOfHeight ==
    /\ \A n \in Nat : n <= Depth => Forms(n) \subseteq Form
    /\ \A n \in Nat : FlatForms \subseteq Forms(n)
<1>1. \A n \in Nat : Forms(0) \subseteq Forms(n)
  BY TreesGrow
<1> QED
  BY <1>1, DepthIs, TreesGrow, TreesAre

LEMMA BytesPosted ==
    ASSUME NEW it \in Tree, NEW n \in Nat, n <= Depth, NEW s \in Seq(Nat), NEW c \in Codes,
           sizeCategory(c) \in {"fixed", "variable"}, it = bytesItem(c, s)
    PROVE  Posts(it, n)
<1> DEFINE h == bytesToHex(s)
           j == [code |-> c, hex |-> h]
<1>1. h \in Seq(Nat) /\ hexToBytes(h) = s
  BY HexBack
<1>2. it.typeCode = c /\ it.data = s
  BY DEF bytesItem
<1>3. toJson[it] = j
  <2>1. toJson[it] = JsonBody(toJson, it)
    BY JsonIs
  <2> QED
    BY <1>2, <2>1 DEF JsonBody
<1> HIDE DEF h
<1>4. j \in FlatForms
  BY <1>1 DEF FlatForms, CodesOf
<1>5. j \in Form /\ j \in Forms(n)
  BY <1>4, FormOfHeight
<1>6. j.code = c /\ j.hex = h
  OBVIOUS
<1> HIDE DEF j
<1>7. fromJson[j] = ReadBody(fromJson, j)
  BY <1>5, ReadIs
<1>8. ReadBody(fromJson, j) = bytesItem(c, s)
  BY <1>1, <1>6 DEF ReadBody
<1> QED
  BY <1>3, <1>5, <1>7, <1>8 DEF Posts

LEMMA VbcPosted ==
    ASSUME NEW it \in Tree, NEW n \in Nat, n <= Depth, NEW v \in Nat, NEW c \in Codes,
           v < Power(2, SafeBits), sizeCategory(c) = "vbcValue", it = vbcItem(c, v)
    PROVE  Posts(it, n)
<1> DEFINE j == [code |-> c, number |-> v]
<1>1. Number(v) = v
  BY NumberIs
<1>2. it.typeCode = c /\ it.value = v
  BY DEF vbcItem
<1>3. toJson[it] = j
  <2>1. toJson[it] = JsonBody(toJson, it)
    BY JsonIs
  <2> QED
    BY <1>1, <1>2, <2>1 DEF JsonBody
<1>4. j \in FlatForms
  BY DEF FlatForms, CodesOf
<1>5. j \in Form /\ j \in Forms(n)
  BY <1>4, FormOfHeight
<1>6. j.code = c /\ j.number = v
  OBVIOUS
<1> HIDE DEF j
<1>7. fromJson[j] = ReadBody(fromJson, j)
  BY <1>5, ReadIs
<1>8. ReadBody(fromJson, j) = vbcItem(c, v)
  BY <1>6 DEF ReadBody
<1> QED
  BY <1>3, <1>5, <1>7, <1>8 DEF Posts

LEMMA EachBack ==
    ASSUME NEW S, NEW s \in Seq(S), NEW V,
           \A c \in S : toJson[c] \in V /\ fromJson[toJson[c]] = c
    PROVE  Each(toJson, s) \in Seq(V) /\ Each(fromJson, Each(toJson, s)) = s
<1> DEFINE n == Len(s)
           t == Each(toJson, s)
<1>1. n \in Nat /\ \A i \in 1 .. n : s[i] \in S
  OBVIOUS
<1>2. t = [i \in 1 .. n |-> toJson[s[i]]]
  BY Zenon DEF Each
<1>2a. s = [i \in 1 .. n |-> s[i]]
  OBVIOUS
<1> HIDE DEF n, t
<1>3. /\ t \in Seq(V) /\ Len(t) = n /\ \A i \in 1 .. n : t[i] = toJson[s[i]]
  BY <1>1, <1>2
<1>4. \A i \in 1 .. n : fromJson[t[i]] = s[i]
  BY <1>1, <1>3
<1>5. Each(fromJson, t) = [i \in 1 .. n |-> fromJson[t[i]]]
  BY <1>3, Zenon DEF Each
<1>6. Each(fromJson, t) = s
  BY <1>2a, <1>4, <1>5, Zenon
<1> QED
  BY <1>3, <1>6 DEF t

LEMMA ContainerPosted ==
    ASSUME NEW it \in Tree, NEW n \in Nat, n + 1 <= Depth, NEW S, IsContainer(it, S),
           it.typeCode \in Codes, \A c \in S : Posts(c, n)
    PROVE  Posts(it, n + 1)
<1> DEFINE cs == it.children
           c == it.typeCode
           js == Each(toJson, cs)
           j == [code |-> c, items |-> js]
           m == n + 1
<1>1. cs \in Seq(S) /\ it = containerItem(c, cs) /\ sizeCategory(c) = "container"
  BY DEF IsContainer
<1>2. \A b \in S : toJson[b] \in Forms(n) /\ fromJson[toJson[b]] = b
  BY DEF Posts
<1> DEFINE F == Forms(n)
<1>3. js \in Seq(F) /\ Each(fromJson, js) = cs
  <2>1. \A b \in S : toJson[b] \in F /\ fromJson[toJson[b]] = b
    BY <1>2
  <2> HIDE DEF F, cs
  <2> QED
    BY <1>1, <2>1, EachBack
<1>4. toJson[it] = j
  <2>1. toJson[it] = JsonBody(toJson, it)
    BY JsonIs
  <2>2. sizeCategory(c) \notin {"fixed", "variable"} /\ sizeCategory(c) # "vbcValue"
    BY <1>1
  <2> QED
    BY <2>1, <2>2, Zenon DEF JsonBody
<1>5. j.code = c /\ j.items = js
  OBVIOUS
<1>6. m \in Nat /\ m <= Depth
  OBVIOUS
<1> HIDE DEF cs, js
<1>7. j \in NestForms(F)
  BY <1>1, <1>3 DEF NestForms, CodesOf
<1>8. j \in Forms(m)
  BY <1>7, TreesAre
<1> HIDE DEF j, m, c
<1>9. j \in Form
  BY <1>6, <1>8, FormOfHeight
<1>10. fromJson[j] = ReadBody(fromJson, j)
  BY <1>9, ReadIs
<1>11. ReadBody(fromJson, j) = containerItem(c, cs)
  <2>1. sizeCategory(j.code) \notin {"fixed", "variable"} /\ sizeCategory(j.code) # "vbcValue"
    BY <1>1, <1>5
  <2>2. ReadBody(fromJson, j) = containerItem(j.code, Each(fromJson, j.items))
    BY <2>1, Zenon DEF ReadBody
  <2> QED
    BY <1>3, <1>5, <2>2
<1> QED
  BY <1>1, <1>4, <1>8, <1>10, <1>11 DEF Posts, m

-----------------------------------------------------------------------------
(* What is signed. *)

LEMMA FieldBytes == \A v \in Nat : encodeUnsigned[v] \in Seq(Byte)
<1> DEFINE Good == {n \in Nat : \A v \in Nat : v <= n => encodeUnsigned[v] \in Seq(Byte)}
<1>a. Cont \in Nat /\ Cont > 3 /\ Base = 2 * Cont
  BY SizesAre
<1>0. ASSUME NEW v \in Nat, v < Cont PROVE encodeUnsigned[v] \in Seq(Byte)
  <2>1. encodeUnsigned[v] = <<v>>
    BY <1>0, FieldIs
  <2>2. v \in Byte
    BY <1>a, <1>0, ByteIs
  <2> QED
    BY <2>1, <2>2, OneOf
<1>1. 0 \in Good
  BY <1>0, <1>a
<1>2. ASSUME NEW n \in Nat, n \in Good PROVE n + 1 \in Good
  <2>1. ASSUME NEW v \in Nat, v <= n + 1, v >= Cont PROVE encodeUnsigned[v] \in Seq(Byte)
    <3> DEFINE h == Higher(v)
               s == encodeUnsigned[h]
               o == <<Lowest(v)>>
    <3>1. h \in Nat /\ h < v
      BY <2>1, HigherIs
    <3>2. h <= n
      BY <2>1, <3>1
    <3>3. s \in Seq(Byte)
      BY <1>2, <3>1, <3>2
    <3>4. encodeUnsigned[v] = o \o s /\ Lowest(v) \in Byte
      BY <2>1, FieldIs, HigherIs, ByteIs
    <3>5. o \in Seq(Byte)
      BY <3>4, OneOf
    <3> HIDE DEF s, o
    <3>6. o \o s \in Seq(Byte)
      BY <3>3, <3>5, ConcatProperties
    <3> QED
      BY <3>4, <3>6
  <2>2. ASSUME NEW v \in Nat, v <= n + 1 PROVE encodeUnsigned[v] \in Seq(Byte)
    BY <1>0, <1>a, <2>1, <2>2
  <2> QED
    BY <2>2
<1> HIDE DEF Good
<1>3. Nat \subseteq Good
  BY <1>1, <1>2, SetInduction
<1>4. ASSUME NEW v \in Nat PROVE encodeUnsigned[v] \in Seq(Byte)
  <2>1. v \in Good /\ v <= v
    BY <1>3
  <2> QED
    BY <2>1 DEF Good
<1> QED
  BY <1>4

\* With a digit before them, byte strings of any lengths spell different numbers.
Marked(s) == <<1>> \o s

LEMMA MarkedIs ==
    ASSUME NEW s \in Seq(Byte)
    PROVE  /\ Marked(s) \in Seq(Byte) /\ Len(Marked(s)) = Len(s) + 1 /\ Marked(s)[1] = 1
           /\ \A i \in 1 .. Len(s) : Marked(s)[i + 1] = s[i]
           /\ Magnitude(Marked(s)) \in Nat
           /\ Power(Base, Len(s)) <= Magnitude(Marked(s))
           /\ Magnitude(Marked(s)) < 2 * Power(Base, Len(s))
<1> DEFINE t == Marked(s)
           k == Len(s)
           p == Power(Base, k)
           m == Magnitude(t)
<1>1. 1 \in Byte
  BY ByteIs, SizesAre
<1>2. t \in Seq(Byte) /\ Len(t) = k + 1 /\ t[1] = 1 /\ \A i \in 1 .. k : t[i + 1] = s[i]
  BY <1>1, ConsIs DEF Marked
<1>3. k \in Nat
  OBVIOUS
<1> HIDE DEF t, k
<1>4. m \in Nat /\ t[1] * p <= m /\ m < (t[1] + 1) * p
  BY <1>2, <1>3, MagnitudeStarts
<1>5. p \in Nat
  BY <1>3, BasePowers
<1> HIDE DEF p, m
<1>6. 1 * p <= m /\ m < (1 + 1) * p
  BY <1>2, <1>4
<1>7. p <= m /\ m < 2 * p
  BY <1>4, <1>5, <1>6
<1> QED
  BY <1>2, <1>4, <1>7 DEF t, k, p, m

LEMMA MarkedLonger ==
    ASSUME NEW s \in Seq(Byte), NEW t \in Seq(Byte), Len(s) < Len(t)
    PROVE  Magnitude(Marked(s)) < Magnitude(Marked(t))
<1> DEFINE j == Len(s)
           k == Len(t)
           p == Power(Base, j)
           q == Power(Base, k)
           r == Power(Base, j + 1)
           a == Magnitude(Marked(s))
           b == Magnitude(Marked(t))
<1>1. a \in Nat /\ b \in Nat /\ a < 2 * p /\ q <= b
  BY MarkedIs
<1>2. j \in Nat /\ k \in Nat /\ j < k
  OBVIOUS
<1> HIDE DEF j, k, a, b
<1>3. Base \in Nat \ {0} /\ Base > 7
  BY SizesAre
<1>4. j + 1 \in Nat /\ j + 1 <= k
  BY <1>2
<1>5. r <= q
  BY <1>2, <1>3, <1>4, PowersGrow
<1>6. r = Base * p /\ p \in Nat /\ q \in Nat
  BY <1>2, BasePowers
<1> HIDE DEF p, q, r
<1>7. 2 * p <= Base * p
  BY <1>3, <1>6
<1> DEFINE bp == Base * p
<1>8. r = bp /\ bp \in Nat /\ 2 * p <= bp
  BY <1>3, <1>6, <1>7
<1> HIDE DEF bp
<1>9. a < b
  BY <1>1, <1>5, <1>6, <1>8
<1> QED
  BY <1>9 DEF a, b

LEMMA MarkedApart ==
    ASSUME NEW s \in Seq(Byte), NEW t \in Seq(Byte), Magnitude(Marked(s)) = Magnitude(Marked(t))
    PROVE  s = t
<1>0. Magnitude(Marked(s)) \in Nat /\ Magnitude(Marked(t)) \in Nat
  BY MarkedIs
<1>1. ~(Len(s) < Len(t)) /\ ~(Len(t) < Len(s))
  BY <1>0, MarkedLonger
<1>2. Len(s) = Len(t)
  BY <1>1
<1>3. /\ Marked(s) \in Seq(Byte) /\ Len(Marked(s)) = Len(s) + 1
      /\ \A i \in 1 .. Len(s) : Marked(s)[i + 1] = s[i]
  BY MarkedIs
<1>4. /\ Marked(t) \in Seq(Byte) /\ Len(Marked(t)) = Len(t) + 1
      /\ \A i \in 1 .. Len(t) : Marked(t)[i + 1] = t[i]
  BY MarkedIs
<1>5. Marked(s) = Marked(t)
  BY <1>2, <1>3, <1>4, MagnitudesApart
<1>6. \A i \in 1 .. Len(s) : s[i] = t[i]
  BY <1>2, <1>3, <1>4, <1>5
<1> QED
  BY <1>2, <1>6, SeqEqual

LEMMA DigestIs ==
    ASSUME NEW s \in Seq(Nat)
    PROVE  /\ sha256Sync(s) \in [1 .. FixedSize -> Nat]
           /\ sha256Sync(s)[1] = Base + Magnitude(Marked(s)) /\ Magnitude(Marked(s)) \in Nat
<1> DEFINE m == Magnitude(Marked(s))
           x == Base + m
<1>1. Marked(s) \in Seq(Nat)
  <2>1. 1 \in Nat
    OBVIOUS
  <2> QED
    BY <2>1, ConsIs DEF Marked
<1>2. m \in Nat
  BY <1>1, MagnitudeTyped
<1> HIDE DEF m
<1>3. x \in Nat
  BY <1>2, SizesAre
<1>4. sha256Sync(s) = <<x>>
  BY DEF sha256Sync, Marked, m
<1> HIDE DEF x
<1>5. <<x>> \in Seq(Nat) /\ Len(<<x>>) = 1 /\ <<x>>[1] = x
  BY <1>3, OneOf
<1>6. <<x>> \in [1 .. FixedSize -> Nat]
  BY <1>5, SingleSeq
<1> QED
  BY <1>2, <1>4, <1>5, <1>6 DEF x, m

LEMMA DigestsApart ==
    ASSUME NEW s \in Seq(Byte), NEW t \in Seq(Byte), sha256Sync(s) = sha256Sync(t)
    PROVE  s = t
<1> DEFINE a == Magnitude(Marked(s))
           b == Magnitude(Marked(t))
<1>1. s \in Seq(Nat) /\ t \in Seq(Nat)
  BY BytesAreNats
<1>2. sha256Sync(s)[1] = Base + a /\ sha256Sync(t)[1] = Base + b /\ a \in Nat /\ b \in Nat
  BY <1>1, DigestIs
<1>3. Base \in Nat
  BY SizesAre
<1> HIDE DEF a, b
<1>4. a = b
  BY <1>2, <1>3
<1> QED
  BY <1>4, MarkedApart DEF a, b

LEMMA SeparableCodes ==
    /\ ~isSeparable(SHA256) /\ ~isSeparable(AMOUNT) /\ ~isSeparable(RECORDING_BID)
    /\ ~isSeparable(SEQ_ID) /\ ~isSeparable(EXPIRY_MODE)
    /\ \A c : sizeCategory(c) = "container" => ~isSeparable(c)
    /\ SHA256 \in CodesOf("fixed") /\ sizeCategory(SHA256) = "fixed"
    /\ AMOUNT \in CodesOf("variable") /\ RECORDING_BID \in CodesOf("variable")
    /\ NOTE \in CodesOf("variable") /\ DATA_BLOB \in CodesOf("variable")
    /\ SEQ_ID \in CodesOf("vbcValue") /\ EXPIRY_MODE \in CodesOf("vbcValue")
    /\ TAX_PARAMS \in CodesOf("container") /\ PARTICIPANT \in CodesOf("container")
<1>1. /\ ~isSeparable(SHA256) /\ ~isSeparable(AMOUNT) /\ ~isSeparable(RECORDING_BID)
      /\ ~isSeparable(SEQ_ID) /\ ~isSeparable(EXPIRY_MODE)
  BY DEF isSeparable, SHA256, AMOUNT, RECORDING_BID, SEQ_ID, EXPIRY_MODE
<1>2. ~isSeparable(TAX_PARAMS) /\ ~isSeparable(PARTICIPANT)
  BY DEF isSeparable, TAX_PARAMS, PARTICIPANT
<1>3. \A c : sizeCategory(c) = "container" => c \in {TAX_PARAMS, PARTICIPANT}
  BY DEF sizeCategory
<1>4. /\ sizeCategory(SHA256) = "fixed" /\ sizeCategory(AMOUNT) = "variable"
      /\ sizeCategory(RECORDING_BID) = "variable" /\ sizeCategory(NOTE) = "variable"
      /\ sizeCategory(DATA_BLOB) = "variable" /\ sizeCategory(SEQ_ID) = "vbcValue"
      /\ sizeCategory(EXPIRY_MODE) = "vbcValue" /\ sizeCategory(TAX_PARAMS) = "container"
      /\ sizeCategory(PARTICIPANT) = "container"
  BY DEF sizeCategory, SHA256, AMOUNT, RECORDING_BID, SEQ_ID, EXPIRY_MODE, NOTE, DATA_BLOB,
         TAX_PARAMS, PARTICIPANT
<1> QED
  BY <1>1, <1>2, <1>3, <1>4 DEF CodesOf, Codes

\* The three cases of the substitution.
LEMMA SubstituteCases ==
    ASSUME NEW it \in Tree
    PROVE  /\ isSeparable(it.typeCode) =>
                  substituteSeparable[it] = bytesItem(SHA256, sha256Sync(encodeDataItem[it]))
           /\ ~isSeparable(it.typeCode) /\ sizeCategory(it.typeCode) = "container" =>
                  substituteSeparable[it] =
                      containerItem(it.typeCode, Each(substituteSeparable, it.children))
           /\ ~isSeparable(it.typeCode) /\ sizeCategory(it.typeCode) # "container" =>
                  substituteSeparable[it] = it
<1>1. substituteSeparable[it] = SubstituteBody(substituteSeparable, it)
  BY SubstituteIs
<1> QED
  BY <1>1, Zenon DEF SubstituteBody

LEMMA DigestItem ==
    ASSUME NEW s \in Seq(Nat), NEW b, b = bytesItem(SHA256, sha256Sync(s))
    PROVE  /\ b \in Flat /\ b.typeCode = SHA256 /\ b.data = sha256Sync(s)
           /\ ~isSeparable(b.typeCode) /\ sizeCategory(b.typeCode) # "container"
<1>1. sha256Sync(s) \in [1 .. FixedSize -> Nat]
  BY DigestIs
<1>2. b \in Flat
  BY <1>1, SeparableCodes, FlatMade
<1>3. b.typeCode = SHA256 /\ b.data = sha256Sync(s)
  BY DEF bytesItem
<1> QED
  BY <1>2, <1>3, SeparableCodes

\* No item is separable once its separable contents are substituted, and what it then
\* contains has been substituted.
LEMMA Substituted ==
    ASSUME NEW it \in Tree, NEW b, b = substituteSeparable[it]
    PROVE  /\ ~isSeparable(b.typeCode)
           /\ sizeCategory(b.typeCode) = "container" =>
                  \A i \in 1 .. Len(b.children) :
                      \E c \in Tree : b.children[i] = substituteSeparable[c]
<1>1. CASE isSeparable(it.typeCode)
  <2>1. encodeDataItem[it] \in Seq(Nat)
    BY EncodeTyped
  <2>2. b = bytesItem(SHA256, sha256Sync(encodeDataItem[it]))
    BY <1>1, SubstituteCases
  <2> QED
    BY <2>1, <2>2, DigestItem
<1>2. CASE ~isSeparable(it.typeCode) /\ sizeCategory(it.typeCode) = "container"
  <2> DEFINE cs == it.children
             k == it.typeCode
  <2>1. b = containerItem(k, Each(substituteSeparable, cs))
    BY <1>2, SubstituteCases
  <2>2. b.typeCode = k /\ b.children = Each(substituteSeparable, cs)
    BY <2>1 DEF containerItem
  <2>3. cs \in Seq(Tree)
    <3>1. Depth \in Nat /\ it \in Trees(Depth)
      BY DepthIs
    <3>2. Depth # 0 /\ IsContainer(it, Trees(Depth - 1))
      BY <1>2, <3>1, KindOf DEF IsFixed, IsVariable, IsVbc
    <3> DEFINE m == Depth - 1
    <3>3. m \in Nat /\ m <= Depth
      BY <3>1, <3>2
    <3> HIDE DEF m
    <3>4. Trees(m) \subseteq Tree
      BY <3>3, TreeOfHeight
    <3>5. cs \in Seq(Trees(m))
      BY <3>2 DEF IsContainer, m
    <3> QED
      BY <3>4, <3>5, SeqsOfMore
  <2> DEFINE n == Len(cs)
             e == Each(substituteSeparable, cs)
  <2>4. n \in Nat /\ \A i \in 1 .. n : cs[i] \in Tree
    BY <2>3
  <2>5. e = [i \in 1 .. n |-> substituteSeparable[cs[i]]]
    BY Zenon DEF Each
  <2> HIDE DEF n, cs, e
  <2>6. Len(e) = n /\ \A i \in 1 .. n : e[i] = substituteSeparable[cs[i]]
    BY <2>4, <2>5
  <2>7. \A i \in 1 .. Len(e) : \E c \in Tree : e[i] = substituteSeparable[c]
    BY <2>4, <2>6
  <2> QED
    BY <1>2, <2>2, <2>7 DEF e
<1>3. CASE ~isSeparable(it.typeCode) /\ sizeCategory(it.typeCode) # "container"
  BY <1>3, SubstituteCases
<1> QED
  BY <1>1, <1>2, <1>3

LEMMA EachSubstituted ==
    ASSUME NEW S, NEW s \in Seq(S),
           \A c \in S : /\ substituteSeparable[c] \in S
                        /\ substituteSeparable[substituteSeparable[c]] = substituteSeparable[c]
    PROVE  /\ Each(substituteSeparable, s) \in Seq(S)
           /\ Each(substituteSeparable, Each(substituteSeparable, s))
                  = Each(substituteSeparable, s)
<1> DEFINE f == substituteSeparable
           n == Len(s)
           t == Each(f, s)
<1>1. n \in Nat /\ \A i \in 1 .. n : s[i] \in S
  OBVIOUS
<1>2. t = [i \in 1 .. n |-> f[s[i]]]
  BY Zenon DEF Each
<1> HIDE DEF n, t
<1>3. t \in Seq(S) /\ Len(t) = n /\ \A i \in 1 .. n : t[i] = f[s[i]]
  BY <1>1, <1>2
<1>4. \A i \in 1 .. n : f[t[i]] = f[s[i]]
  BY <1>1, <1>3
<1>5. Each(f, t) = [i \in 1 .. n |-> f[t[i]]]
  BY <1>3, Zenon DEF Each
<1>6. Each(f, t) = t
  BY <1>2, <1>4, <1>5, Zenon
<1> QED
  BY <1>3, <1>6 DEF t

\* Substituting once more changes nothing.
LEMMA SubstitutedTwice ==
    \A it \in Tree : /\ substituteSeparable[it] \in Tree
                     /\ substituteSeparable[substituteSeparable[it]] = substituteSeparable[it]
<1> DEFINE f == substituteSeparable
           Good == {n \in Nat : n <= Depth => \A it \in Trees(n) : f[it] \in Trees(n) /\ f[f[it]] = f[it]}
<1>0. Depth \in Nat /\ Tree = Trees(Depth)
  BY DepthIs
<1>1. \A n \in Nat : n <= Depth => Trees(n) \subseteq Tree
  BY TreeOfHeight
<1>2. ASSUME NEW n \in Nat, NEW it \in Tree, it \in Trees(n), isSeparable(it.typeCode)
      PROVE  f[it] \in Trees(n) /\ f[f[it]] = f[it]
  <2> DEFINE b == f[it]
  <2>1. encodeDataItem[it] \in Seq(Nat)
    BY EncodeTyped
  <2>2. b = bytesItem(SHA256, sha256Sync(encodeDataItem[it]))
    BY <1>2, SubstituteCases
  <2>3. b \in Flat /\ ~isSeparable(b.typeCode) /\ sizeCategory(b.typeCode) # "container"
    BY <2>1, <2>2, DigestItem
  <2>4. b \in Trees(n) /\ b \in Tree
    BY <1>0, <2>3, FlatIsTree
  <2>5. f[b] = b
    BY <2>3, <2>4, SubstituteCases
  <2> QED
    BY <2>4, <2>5
<1>3. ASSUME NEW n \in Nat, NEW it \in Tree, it \in Trees(n), ~isSeparable(it.typeCode),
             sizeCategory(it.typeCode) # "container"
      PROVE  f[it] \in Trees(n) /\ f[f[it]] = f[it]
  BY <1>3, SubstituteCases
<1>4. 0 \in Good
  <2>1. ASSUME NEW it \in Trees(0) PROVE f[it] \in Trees(0) /\ f[f[it]] = f[it]
    <3>1. it \in Tree /\ sizeCategory(it.typeCode) # "container" /\ 0 \in Nat
      BY <1>0, <1>1, KindOf DEF IsFixed, IsVariable, IsVbc
    <3> QED
      BY <1>2, <1>3, <3>1
  <2> QED
    BY <2>1
<1>5. ASSUME NEW n \in Nat, n \in Good PROVE n + 1 \in Good
  <2> DEFINE m == n + 1
  <2>1. m \in Nat /\ m - 1 = n /\ m # 0 /\ n <= m
    OBVIOUS
  <2>2. m <= Depth => n <= Depth
    BY <1>0
  <2>2a. n <= Depth => \A it \in Trees(n) : f[it] \in Trees(n) /\ f[f[it]] = f[it]
    BY <1>5
  <2> HIDE DEF m, Good
  <2>3. ASSUME m <= Depth, NEW it \in Trees(m) PROVE f[it] \in Trees(m) /\ f[f[it]] = f[it]
    <3>1. it \in Tree
      BY <1>1, <2>1, <2>3
    <3>2. CASE ~isSeparable(it.typeCode) /\ sizeCategory(it.typeCode) = "container"
      <4> DEFINE S == Trees(n)
                 cs == it.children
                 k == it.typeCode
                 t == Each(f, cs)
                 b == f[it]
      <4>1. IsContainer(it, S)
        BY <2>1, <3>2, KindOf DEF IsFixed, IsVariable, IsVbc
      <4>2. cs \in Seq(S)
        BY <4>1 DEF IsContainer
      <4>3. \A c \in S : f[c] \in S /\ f[f[c]] = f[c]
        BY <2>2, <2>2a, <2>3
      <4>4. t \in Seq(S) /\ Each(f, t) = t
        <5> HIDE DEF S, cs
        <5> QED
          BY <4>2, <4>3, EachSubstituted
      <4>5. b = containerItem(k, t)
        BY <3>1, <3>2, SubstituteCases
      <4>6. k \in CodesOf("container")
        BY <3>2, CodeOf
      <4> HIDE DEF t
      <4>7. b \in Trees(m)
        BY <4>4, <4>5, <4>6, ContainerMade DEF m
      <4>8. b \in Tree
        BY <1>1, <2>1, <2>3, <4>7
      <4>9. b.typeCode = k /\ b.children = t
        BY <4>5 DEF containerItem
      <4> HIDE DEF b
      <4>10. f[b] = containerItem(k, Each(f, t))
        BY <3>2, <4>8, <4>9, SubstituteCases
      <4>11. f[b] = b
        BY <4>4, <4>5, <4>10
      <4> QED
        BY <4>7, <4>11 DEF b
    <3> QED
      BY <1>2, <1>3, <2>1, <2>3, <3>1, <3>2
  <2>4. m <= Depth => \A it \in Trees(m) : f[it] \in Trees(m) /\ f[f[it]] = f[it]
    BY <2>3
  <2> QED
    BY <2>1, <2>4 DEF m, Good
<1> HIDE DEF Good
<1>6. Nat \subseteq Good
  BY <1>4, <1>5, SetInduction
<1>7. Depth \in Good /\ Depth <= Depth
  BY <1>0, <1>6
<1> QED
  BY <1>0, <1>7 DEF Good

-----------------------------------------------------------------------------
(* The leaves among the items of the runs. *)

\* A leaf of a category, as it is signed and as it is posted.
LeafIs(l) ==
    /\ l \in Flat /\ l \in Tree /\ l.typeCode \in Codes /\ sizeCategory(l.typeCode) # "container"
    /\ \A n \in Nat : n <= Depth => Posts(l, n)
    /\ isSeparable(l.typeCode) => encodeDataItem[l] \in Seq(Byte)
    /\ l.typeCode = SHA256 => l.data[1] < Base /\ l.data[1] \in Nat

LEMMA SizesOfItems ==
    \A it \in Items : Len(encodeDataItem[it]) < U64 /\ Len(SigningBytes(it)) < U64
BY ItemsFit

LEMMA NumbersAre ==
    ASSUME NEW n \in Signed
    PROVE  n \in Int /\ encodeBigint(n) \in Seq(Nat) /\ encodeRational(n, 3) \in Seq(Nat)
<1>1. \A k \in Numbers : k \in Nat
  BY SizesAssumption
<1>2. n \in Int /\ 3 \in Int
  BY <1>1 DEF Signed
<1> DEFINE a == bigintToTcBe(n)
           b == bigintToTcBe(3)
<1>3. a \in Seq(Nat) /\ b \in Seq(Nat)
  BY <1>2, NumberWritten, BytesAreNats
<1> HIDE DEF a, b
<1>4. Sized(a) \in Seq(Nat)
  BY <1>3, SizedWritten
<1>5. Sized(a) \o b \in Seq(Nat)
  <2> DEFINE s == Sized(a)
  <2> HIDE DEF s
  <2>1. s \in Seq(Nat)
    BY <1>4 DEF s
  <2>2. s \o b \in Seq(Nat)
    BY <1>3, <2>1, ConcatProperties
  <2> QED
    BY <2>2 DEF s
<1>6. Sized(Sized(a) \o b) \in Seq(Nat)
  BY <1>5, SizedWritten
<1>7. encodeBigint(n) = Sized(a)
  BY DEF encodeBigint, Sized, a
<1>8. encodeRational(n, 3) = Sized(Sized(a) \o b)
  BY Zenon DEF encodeRational, Sized, a, b
<1> QED
  BY <1>2, <1>4, <1>6, <1>7, <1>8

LEMMA VariableLeaf ==
    ASSUME NEW c, NEW s \in Seq(Nat), c \in CodesOf("variable"), NEW l, l = bytesItem(c, s),
           isSeparable(c) => s \in Seq(Byte)
    PROVE  LeafIs(l)
<1>1. sizeCategory(c) = "variable" /\ c \in Codes
  BY CodesAre
<1>2. l \in Flat
  BY FlatMade
<1>3. l \in Tree /\ l.typeCode = c /\ l.data = s
  BY <1>2, FlatIsTree, DepthIs DEF bytesItem
<1>4. \A n \in Nat : n <= Depth => Posts(l, n)
  BY <1>1, <1>3, BytesPosted
<1>5. isSeparable(c) => encodeDataItem[l] \in Seq(Byte)
  <2>1. SUFFICES ASSUME isSeparable(c) PROVE encodeDataItem[l] \in Seq(Byte)
    BY <2>1
  <2>2. IsVariable(l)
    BY <1>1, <1>3 DEF IsVariable
  <2>3. encodeDataItem[l] = encodeSigned(c) \o Sized(s)
    BY <1>3, <2>2, EncodeVariable
  <2> DEFINE e == encodeSigned(c)
             z == encodeUnsigned[Len(s)]
  <2>4. e \in Seq(Byte)
    BY <1>1, SignedIs, FieldBytes
  <2>5. z \in Seq(Byte)
    BY FieldBytes
  <2>6. s \in Seq(Byte)
    BY <2>1
  <2>7. encodeDataItem[l] = e \o (z \o s)
    BY <2>3 DEF Sized
  <2> HIDE DEF e, z
  <2>8. z \o s \in Seq(Byte)
    BY <2>5, <2>6, ConcatProperties
  <2> DEFINE t == z \o s
  <2> HIDE DEF t
  <2>9. t \in Seq(Byte) /\ encodeDataItem[l] = e \o t
    BY <2>7, <2>8 DEF t
  <2>10. e \o t \in Seq(Byte)
    BY <2>4, <2>9, ConcatProperties
  <2> QED
    BY <2>9, <2>10
<1>6. c # SHA256
  BY <1>1, SeparableCodes
<1> QED
  BY <1>1, <1>2, <1>3, <1>4, <1>5, <1>6 DEF LeafIs

LEMMA VbcLeaf ==
    ASSUME NEW c, NEW v \in Values, c \in {SEQ_ID, EXPIRY_MODE}, NEW l, l = vbcItem(c, v)
    PROVE  LeafIs(l)
<1>1. sizeCategory(c) = "vbcValue" /\ c \in Codes /\ c \in CodesOf("vbcValue") /\ ~isSeparable(c)
  BY SeparableCodes, CodesAre
<1>2. v \in Nat /\ v < Power(2, SafeBits) /\ v \in 0 .. U64 - 1
  <2> DEFINE p == Power(2, SafeBits)
  <2>1. p \in Nat /\ p <= U64 /\ U64 \in Nat
    <3>1. 2 \in Nat \ {0} /\ SafeBits \in Nat /\ ValueBits \in Nat /\ SafeBits <= ValueBits
      BY SizesAre, SizesAssumption
    <3>2. U64 = Power(2, ValueBits)
      BY DEF U64
    <3> QED
      BY <3>1, <3>2, PowersGrow, PowerIs
  <2>2. v \in 0 .. p - 1
    BY SizesAssumption
  <2> HIDE DEF p
  <2>3. v \in Nat /\ v < p /\ v \in 0 .. U64 - 1
    BY <2>1, <2>2
  <2> QED
    BY <2>3 DEF p
<1>3. l \in Flat
  BY <1>1, <1>2, FlatMade
<1>4. l \in Tree /\ l.typeCode = c
  BY <1>3, FlatIsTree, DepthIs DEF vbcItem
<1>5. \A n \in Nat : n <= Depth => Posts(l, n)
  BY <1>1, <1>2, <1>4, VbcPosted
<1>6. c # SHA256
  BY <1>1, SeparableCodes
<1> QED
  BY <1>1, <1>3, <1>4, <1>5, <1>6 DEF LeafIs

LEMMA FixedLeaf ==
    ASSUME NEW b \in {1, Base - 1}, NEW l, l = bytesItem(SHA256, <<b>>)
    PROVE  LeafIs(l)
<1> DEFINE s == <<b>>
<1>1. b \in Nat /\ b < Base
  BY SizesAre
<1>2. s \in Seq(Nat) /\ Len(s) = 1 /\ s[1] = b
  BY <1>1, OneOf
<1>2a. l = bytesItem(SHA256, s)
  OBVIOUS
<1> HIDE DEF s
<1>3. s \in [1 .. FixedSize -> Nat]
  BY <1>2, SingleSeq
<1>4. SHA256 \in CodesOf("fixed") /\ SHA256 \in Codes /\ ~isSeparable(SHA256)
      /\ sizeCategory(SHA256) = "fixed"
  BY SeparableCodes, CodesAre
<1>5. l \in Flat
  BY <1>2a, <1>3, <1>4, FlatMade
<1>6. l \in Tree /\ l.typeCode = SHA256 /\ l.data = s
  BY <1>2a, <1>5, FlatIsTree, DepthIs DEF bytesItem
<1>7. \A n \in Nat : n <= Depth => Posts(l, n)
  BY <1>2, <1>2a, <1>4, <1>6, BytesPosted
<1>8. l.data[1] < Base /\ l.data[1] \in Nat
  BY <1>1, <1>2, <1>6
<1> QED
  BY <1>4, <1>5, <1>6, <1>7, <1>8 DEF LeafIs

LEMMA TwoOf ==
    ASSUME NEW S, NEW a \in S, NEW b \in S
    PROVE  <<a, b>> \in Seq(S) /\ Len(<<a, b>>) = 2 /\ <<a, b>>[1] = a /\ <<a, b>>[2] = b
OBVIOUS

LEMMA LeavesAre == \A l \in Leaves : LeafIs(l)
<1>1. ASSUME NEW l \in {bytesItem(SHA256, <<b>>) : b \in {1, Base - 1}} PROVE LeafIs(l)
  <2>1. PICK b \in {1, Base - 1} : l = bytesItem(SHA256, <<b>>)
    OBVIOUS
  <2> QED
    BY <2>1, FixedLeaf
<1>2. ASSUME NEW l \in {bytesItem(AMOUNT, encodeBigint(n)) : n \in Signed} PROVE LeafIs(l)
  <2>1. PICK n \in Signed : l = bytesItem(AMOUNT, encodeBigint(n))
    OBVIOUS
  <2> QED
    BY <2>1, NumbersAre, VariableLeaf, SeparableCodes
<1>3. ASSUME NEW l \in {bytesItem(RECORDING_BID, encodeRational(n, 3)) : n \in Signed}
      PROVE  LeafIs(l)
  <2>1. PICK n \in Signed : l = bytesItem(RECORDING_BID, encodeRational(n, 3))
    OBVIOUS
  <2> QED
    BY <2>1, NumbersAre, VariableLeaf, SeparableCodes
<1>4. ASSUME NEW l \in {vbcItem(c, v) : c \in {SEQ_ID, EXPIRY_MODE}, v \in Values}
      PROVE  LeafIs(l)
  <2>1. PICK c \in {SEQ_ID, EXPIRY_MODE}, v \in Values : l = vbcItem(c, v)
    OBVIOUS
  <2> QED
    BY <2>1, VbcLeaf
<1>5. ASSUME NEW l \in {bytesItem(c, s) : c \in {NOTE, DATA_BLOB}, s \in {<<>>, <<6, 1>>}}
      PROVE  LeafIs(l)
  <2>1. PICK c \in {NOTE, DATA_BLOB}, s \in {<<>>, <<6, 1>>} : l = bytesItem(c, s)
    OBVIOUS
  <2> DEFINE x == <<>>
             y == <<6, 1>>
  <2>a. x \in Seq(Byte) /\ y \in Seq(Byte)
    <3>1. 6 \in Byte /\ 1 \in Byte
      BY SizesAre, ByteIs
    <3>2. y \in Seq(Byte)
      BY <3>1, TwoOf
    <3>3. x \in Seq(Byte)
      OBVIOUS
    <3> QED
      BY <3>2, <3>3
  <2>b. s \in {x, y}
    OBVIOUS
  <2> HIDE DEF x, y
  <2>2. s \in Seq(Byte)
    BY <2>a, <2>b
  <2>3. s \in Seq(Nat) /\ c \in CodesOf("variable")
    BY <2>2, BytesAreNats, SeparableCodes
  <2> QED
    BY <2>1, <2>2, <2>3, VariableLeaf
<1> QED
  BY <1>1, <1>2, <1>3, <1>4, <1>5 DEF Leaves

-----------------------------------------------------------------------------
(* The items of the runs: leaves, containers of leaves, containers of both. *)

Over(S) == {b \in Tree : IsContainer(b, S) /\ b.typeCode \in Codes}
Inner == Leaves \cup Over(Leaves)
Outer == Leaves \cup Over(Inner)

LEMMA ContainerIs ==
    ASSUME NEW S, NEW n \in Nat, S \subseteq Trees(n), n + 1 <= Depth,
           NEW c \in CodesOf("container"), NEW s \in Seq(S), NEW b, b = containerItem(c, s)
    PROVE  b \in Trees(n + 1) /\ b \in Over(S)
<1>1. s \in Seq(Trees(n))
  BY SeqsOfMore
<1>2. b \in Trees(n + 1)
  BY <1>1, ContainerMade
<1>3. b \in Tree
  BY <1>2, TreeOfHeight
<1>4. b.typeCode = c /\ b.children = s
  BY DEF containerItem
<1>5. c \in Codes /\ sizeCategory(c) = "container"
  BY CodesAre
<1>6. IsContainer(b, S)
  BY <1>4, <1>5 DEF IsContainer
<1> QED
  BY <1>2, <1>3, <1>4, <1>5, <1>6 DEF Over

LEMMA ParticipantsAre == Participants \subseteq Over(Leaves) /\ Participants \subseteq Trees(1)
<1> SUFFICES ASSUME NEW p \in Participants PROVE p \in Over(Leaves) /\ p \in Trees(1)
  OBVIOUS
<1>1. PICK s \in {<<>>} \cup {<<l>> : l \in Leaves} : p = containerItem(PARTICIPANT, s)
  BY DEF Participants
<1>2. s \in Seq(Leaves)
  <2>1. CASE s = <<>>
    BY <2>1
  <2>2. CASE s \in {<<l>> : l \in Leaves}
    <3>1. PICK l \in Leaves : s = <<l>>
      BY <2>2
    <3> QED
      BY <3>1, OneOf
  <2> QED
    BY <2>1, <2>2
<1>3. Leaves \subseteq Trees(0)
  BY LeavesAre, TreesAre DEF LeafIs
<1>4. PARTICIPANT \in CodesOf("container") /\ 0 \in Nat /\ 0 + 1 = 1 /\ 1 <= Depth
  BY SeparableCodes, DepthIs
<1> QED
  BY <1>1, <1>2, <1>3, <1>4, ContainerIs

LEMMA TaxesAre ==
    ASSUME NEW s, s \in {<<p, l>> : p \in Participants, l \in Leaves}
                        \cup {<<p>> : p \in Participants}
    PROVE  containerItem(TAX_PARAMS, s) \in Over(Inner)
<1> DEFINE Q == Leaves \cup Participants
<1>1. s \in Seq(Q)
  <2>1. CASE s \in {<<p, l>> : p \in Participants, l \in Leaves}
    <3>1. PICK p \in Participants, l \in Leaves : s = <<p, l>>
      BY <2>1
    <3> QED
      BY <3>1, TwoOf
  <2>2. CASE s \in {<<p>> : p \in Participants}
    <3>1. PICK p \in Participants : s = <<p>>
      BY <2>2
    <3> QED
      BY <3>1, OneOf
  <2> QED
    BY <2>1, <2>2
<1>2. Q \subseteq Trees(1) /\ Q \subseteq Inner
  BY LeavesAre, FlatIsTree, ParticipantsAre DEF LeafIs, Inner
<1> DEFINE b == containerItem(TAX_PARAMS, s)
<1>3. b \in Over(Q)
  <2> HIDE DEF Q
  <2>1. TAX_PARAMS \in CodesOf("container") /\ 1 \in Nat /\ 1 + 1 <= Depth
    BY SeparableCodes, DepthIs
  <2>2. b = containerItem(TAX_PARAMS, s)
    OBVIOUS
  <2> HIDE DEF b
  <2>3. b \in Over(Q)
    BY <1>1, <1>2, <2>1, <2>2, ContainerIs
  <2> QED
    BY <2>3
<1> HIDE DEF Q, b
<1>4. b \in Over(Inner)
  BY <1>2, <1>3, SeqsOfMore DEF Over, IsContainer
<1> QED
  BY <1>4 DEF b

LEMMA ItemsAre ==
    /\ Items \subseteq Outer /\ Leaves \subseteq Items
    /\ Inner \subseteq Tree /\ Outer \subseteq Tree
<1>1. Participants \subseteq Outer
  <2>1. Leaves \subseteq Inner
    BY DEF Inner
  <2>2. Over(Leaves) \subseteq Over(Inner)
    BY <2>1, SeqsOfMore DEF Over, IsContainer
  <2> QED
    BY <2>2, ParticipantsAre DEF Outer
<1>2. Items \subseteq Outer
  <2> SUFFICES ASSUME NEW it \in Items PROVE it \in Outer
    OBVIOUS
  <2>1. CASE it \in Leaves
    BY <2>1 DEF Outer
  <2>2. CASE it \in Participants
    BY <2>2, <1>1
  <2>3. ASSUME NEW s, s \in {<<p, l>> : p \in Participants, l \in Leaves}
                            \cup {<<p>> : p \in Participants},
               it = containerItem(TAX_PARAMS, s)
        PROVE  it \in Outer
    BY <2>3, TaxesAre DEF Outer
  <2> QED
    BY <2>1, <2>2, <2>3 DEF Items
<1>3. Inner \subseteq Tree /\ Outer \subseteq Tree
  BY LeavesAre DEF LeafIs, Inner, Outer, Over
<1>4. Leaves \subseteq Items
  BY DEF Items
<1> QED
  BY <1>2, <1>3, <1>4

LEMMA ItemsPosted == \A it \in Items : fromJson[toJson[it]] = it
<1>1. \A l \in Leaves : \A n \in Nat : n <= Depth => Posts(l, n)
  BY LeavesAre DEF LeafIs
<1>2. 0 \in Nat /\ 1 \in Nat /\ 2 \in Nat /\ 0 + 1 = 1 /\ 1 + 1 = 2 /\ 0 <= Depth /\ 1 <= Depth
      /\ 2 <= Depth
  BY DepthIs
<1>3. \A l \in Leaves : Posts(l, 0) /\ Posts(l, 1) /\ Posts(l, 2)
  BY <1>1, <1>2
<1>4. \A b \in Over(Leaves) : Posts(b, 1)
  <2> SUFFICES ASSUME NEW b \in Over(Leaves) PROVE Posts(b, 1)
    OBVIOUS
  <2>1. b \in Tree /\ IsContainer(b, Leaves) /\ b.typeCode \in Codes
    BY DEF Over
  <2>2. Posts(b, 0 + 1)
    BY <1>2, <1>3, <2>1, ContainerPosted
  <2> QED
    BY <1>2, <2>2
<1>5. \A b \in Inner : Posts(b, 1)
  BY <1>3, <1>4 DEF Inner
<1>6. \A b \in Over(Inner) : Posts(b, 2)
  <2> SUFFICES ASSUME NEW b \in Over(Inner) PROVE Posts(b, 2)
    OBVIOUS
  <2>1. b \in Tree /\ IsContainer(b, Inner) /\ b.typeCode \in Codes
    BY DEF Over
  <2>2. Posts(b, 1 + 1)
    BY <1>2, <1>5, <2>1, ContainerPosted
  <2> QED
    BY <1>2, <2>2
<1>7. \A b \in Outer : Posts(b, 2)
  BY <1>3, <1>6 DEF Outer
<1> QED
  BY <1>7, ItemsAre DEF Posts

-----------------------------------------------------------------------------
(* Digests in place of separable contents tell the items apart. *)

Apart(S) == \A a, b \in S : substituteSeparable[a] = substituteSeparable[b] => a = b

LEMMA LeafSubstituted ==
    ASSUME NEW l \in Leaves
    PROVE  /\ sizeCategory(substituteSeparable[l].typeCode) # "container"
           /\ isSeparable(l.typeCode) =>
                  /\ substituteSeparable[l] = bytesItem(SHA256, sha256Sync(encodeDataItem[l]))
                  /\ encodeDataItem[l] \in Seq(Byte)
           /\ ~isSeparable(l.typeCode) => substituteSeparable[l] = l
           /\ l.typeCode = SHA256 => l.data[1] < Base /\ l.data[1] \in Nat
<1>1. LeafIs(l)
  BY LeavesAre
<1>2. l \in Tree /\ sizeCategory(l.typeCode) # "container"
      /\ (isSeparable(l.typeCode) => encodeDataItem[l] \in Seq(Byte))
      /\ (l.typeCode = SHA256 => l.data[1] < Base /\ l.data[1] \in Nat)
  BY <1>1 DEF LeafIs
<1>3. sizeCategory(SHA256) # "container"
  BY SeparableCodes
<1>4. \A s : bytesItem(SHA256, s).typeCode = SHA256
  BY DEF bytesItem
<1> QED
  BY <1>2, <1>3, <1>4, SubstituteCases

LEMMA LeavesApart == Apart(Leaves)
<1> SUFFICES ASSUME NEW a \in Leaves, NEW b \in Leaves,
                    substituteSeparable[a] = substituteSeparable[b]
             PROVE  a = b
  BY DEF Apart
<1>1. a \in Tree /\ b \in Tree /\ a \in Items /\ b \in Items
  BY ItemsAre
<1> DEFINE x == encodeDataItem[a]
           y == encodeDataItem[b]
<1>2. Len(x) < U64 /\ Len(y) < U64
  BY <1>1, SizesOfItems
<1>3. \A s : bytesItem(SHA256, s).data = s /\ bytesItem(SHA256, s).typeCode = SHA256
  BY DEF bytesItem
<1>4. ASSUME isSeparable(a.typeCode), isSeparable(b.typeCode) PROVE a = b
  <2>1. substituteSeparable[a] = bytesItem(SHA256, sha256Sync(x)) /\ x \in Seq(Byte)
        /\ substituteSeparable[b] = bytesItem(SHA256, sha256Sync(y)) /\ y \in Seq(Byte)
    BY <1>4, LeafSubstituted
  <2> HIDE DEF x, y
  <2>2. sha256Sync(x) = sha256Sync(y)
    <3> DEFINE p == sha256Sync(x)
               q == sha256Sync(y)
    <3>1. bytesItem(SHA256, p) = bytesItem(SHA256, q)
      BY <2>1
    <3> HIDE DEF p, q
    <3>2. bytesItem(SHA256, p).data = p /\ bytesItem(SHA256, q).data = q
      BY DEF bytesItem
    <3>3. p = q
      BY <3>1, <3>2
    <3> QED
      BY <3>3 DEF p, q
  <2>3. x = y
    BY <2>1, <2>2, DigestsApart
  <2> QED
    BY <1>1, <1>2, <2>3, EncodedApart DEF x, y
<1>5. ASSUME NEW s \in Leaves, NEW t \in Leaves, isSeparable(s.typeCode),
             ~isSeparable(t.typeCode), substituteSeparable[s] = substituteSeparable[t]
      PROVE  FALSE
  <2> DEFINE e == encodeDataItem[s]
  <2>1. substituteSeparable[s] = bytesItem(SHA256, sha256Sync(e)) /\ e \in Seq(Byte)
        /\ substituteSeparable[t] = t
    BY <1>5, LeafSubstituted
  <2> HIDE DEF e
  <2>2. t.typeCode = SHA256 /\ t.data = sha256Sync(e)
    BY <1>3, <1>5, <2>1
  <2>3. t.data[1] < Base /\ t.data[1] \in Nat
    BY <2>2, LeafSubstituted
  <2>4. t.data[1] = Base + Magnitude(Marked(e)) /\ Magnitude(Marked(e)) \in Nat
    BY <2>1, <2>2, BytesAreNats, DigestIs
  <2> QED
    BY <2>3, <2>4, SizesAre
<1>6. ASSUME ~isSeparable(a.typeCode), ~isSeparable(b.typeCode) PROVE a = b
  BY <1>6, LeafSubstituted
<1> QED
  BY <1>4, <1>5, <1>6

LEMMA OverSubstituted ==
    ASSUME NEW S, NEW a \in Over(S)
    PROVE  /\ substituteSeparable[a] =
                  containerItem(a.typeCode, Each(substituteSeparable, a.children))
           /\ sizeCategory(substituteSeparable[a].typeCode) = "container"
           /\ a.children \in Seq(S) /\ a = containerItem(a.typeCode, a.children)
<1>1. a \in Tree /\ sizeCategory(a.typeCode) = "container" /\ a.children \in Seq(S)
      /\ a = containerItem(a.typeCode, a.children)
  BY DEF Over, IsContainer
<1>2. ~isSeparable(a.typeCode)
  BY <1>1, SeparableCodes
<1>3. substituteSeparable[a] =
          containerItem(a.typeCode, Each(substituteSeparable, a.children))
  BY <1>1, <1>2, SubstituteCases
<1>4. substituteSeparable[a].typeCode = a.typeCode
  BY <1>3 DEF containerItem
<1> QED
  BY <1>1, <1>3, <1>4

LEMMA ChildrenApart ==
    ASSUME NEW S, Apart(S), NEW s \in Seq(S), NEW t \in Seq(S),
           Each(substituteSeparable, s) = Each(substituteSeparable, t)
    PROVE  s = t
<1> DEFINE f == substituteSeparable
<1> HIDE DEF f
<1>1. \A u \in Seq(S) : /\ Len(Each(f, u)) = Len(u) /\ Len(u) \in Nat
                        /\ \A i \in 1 .. Len(u) : u[i] \in S /\ Each(f, u)[i] = f[u[i]]
  <2> SUFFICES ASSUME NEW u \in Seq(S)
               PROVE  /\ Len(Each(f, u)) = Len(u) /\ Len(u) \in Nat
                      /\ \A i \in 1 .. Len(u) : u[i] \in S /\ Each(f, u)[i] = f[u[i]]
    OBVIOUS
  <2> DEFINE n == Len(u)
             W == {f[c] : c \in S}
             e == Each(f, u)
  <2>1. n \in Nat /\ \A i \in 1 .. n : u[i] \in S
    OBVIOUS
  <2>2. e = [i \in 1 .. n |-> f[u[i]]]
    BY Zenon DEF Each
  <2>3. \A i \in 1 .. n : f[u[i]] \in W
    BY <2>1
  <2> HIDE DEF n, e, W
  <2>4. e \in Seq(W) /\ Len(e) = n /\ \A i \in 1 .. n : e[i] = f[u[i]]
    BY <2>1, <2>2, <2>3
  <2> QED
    BY <2>1, <2>4 DEF e, n
<1>2. /\ Len(Each(f, s)) = Len(s) /\ Len(s) \in Nat
      /\ \A i \in 1 .. Len(s) : s[i] \in S /\ Each(f, s)[i] = f[s[i]]
  BY <1>1
<1>3. /\ Len(Each(f, t)) = Len(t) /\ Len(t) \in Nat
      /\ \A i \in 1 .. Len(t) : t[i] \in S /\ Each(f, t)[i] = f[t[i]]
  BY <1>1
<1>3a. Each(f, s) = Each(f, t)
  BY DEF f
<1>4. Len(s) = Len(t) /\ Len(s) \in Nat
  BY <1>2, <1>3, <1>3a
<1>5. \A i \in 1 .. Len(s) : s[i] \in S /\ t[i] \in S
  BY <1>2, <1>3, <1>4
<1>6. \A i \in 1 .. Len(s) : f[s[i]] = f[t[i]]
  BY <1>2, <1>3, <1>3a, <1>4
<1>7. \A i \in 1 .. Len(s) : s[i] = t[i]
  BY <1>5, <1>6 DEF Apart, f
<1> QED
  BY <1>4, <1>7, SeqEqual

LEMMA ApartMore ==
    ASSUME NEW S, Apart(S)
    PROVE  Apart(Leaves \cup Over(S))
<1> SUFFICES ASSUME NEW a \in Leaves \cup Over(S), NEW b \in Leaves \cup Over(S),
                    substituteSeparable[a] = substituteSeparable[b]
             PROVE  a = b
  BY DEF Apart
<1>1. ASSUME a \in Leaves, b \in Leaves PROVE a = b
  BY <1>1, LeavesApart DEF Apart
<1>2. ASSUME NEW s \in Leaves, NEW t \in Over(S),
             substituteSeparable[s] = substituteSeparable[t]
      PROVE  FALSE
  BY <1>2, LeafSubstituted, OverSubstituted
<1>3. ASSUME a \in Over(S), b \in Over(S) PROVE a = b
  <2> DEFINE x == Each(substituteSeparable, a.children)
             y == Each(substituteSeparable, b.children)
  <2>1. substituteSeparable[a] = containerItem(a.typeCode, x)
        /\ substituteSeparable[b] = containerItem(b.typeCode, y)
    BY <1>3, OverSubstituted
  <2>2. a.children \in Seq(S) /\ b.children \in Seq(S)
        /\ a = containerItem(a.typeCode, a.children) /\ b = containerItem(b.typeCode, b.children)
    BY <1>3, OverSubstituted
  <2>4. a.typeCode = b.typeCode /\ x = y
    <3> HIDE DEF x, y
    <3>1. containerItem(a.typeCode, x) = containerItem(b.typeCode, y)
      BY <2>1
    <3>2. /\ containerItem(a.typeCode, x).typeCode = a.typeCode
          /\ containerItem(a.typeCode, x).children = x
          /\ containerItem(b.typeCode, y).typeCode = b.typeCode
          /\ containerItem(b.typeCode, y).children = y
      BY DEF containerItem
    <3> QED
      BY <3>1, <3>2
  <2>5. a.children = b.children
    BY <2>2, <2>4, ChildrenApart
  <2> QED
    BY <2>2, <2>4, <2>5
<1> QED
  BY <1>1, <1>2, <1>3

LEMMA ItemsApart ==
    \A a, b \in Items : SigningBytes(a) = SigningBytes(b) => a = b
<1> SUFFICES ASSUME NEW a \in Items, NEW b \in Items, SigningBytes(a) = SigningBytes(b)
             PROVE  a = b
  OBVIOUS
<1>1. Apart(Inner)
  BY LeavesApart, ApartMore DEF Inner
<1>2. Apart(Outer)
  BY <1>1, ApartMore DEF Outer
<1> DEFINE s == substituteSeparable[a]
           t == substituteSeparable[b]
<1>3. s \in Tree /\ t \in Tree
  BY ItemsAre, SubstitutedTwice
<1>4. encodeDataItem[s] = encodeDataItem[t]
  BY DEF SigningBytes
<1>5. Len(encodeDataItem[s]) < U64
  BY SizesOfItems DEF SigningBytes
<1> HIDE DEF s, t
<1>6. s = t
  BY <1>3, <1>4, <1>5, EncodedApart
<1> QED
  BY <1>2, <1>6, ItemsAre DEF Apart, s, t

-----------------------------------------------------------------------------
(* The data of amounts and bids. *)

\* The data of an item read from bytes are bytes.
LEMMA DataRead ==
    ASSUME NEW d \in Seq(Byte), NEW r, r = fromBytes(d, U64), r # Refused,
           sizeCategory(r.typeCode) = "variable"
    PROVE  r.data \in Seq(Byte)
<1> DEFINE w == decodeDataItem(d, 1, U64, DecodeChildren(d, U64))
           c == decodeSigned(d, 1, U64)
           k == c.value
           u == c.used
           at == 1 + u
           ch == DecodeChildren(d, U64)
           b == decodeUnsigned(d, at, U64)
<1>1. w # Refused /\ r = w.item
  BY Zenon DEF fromBytes
<1>2. c # Refused /\ w = DecodeBody(d, k, at, U64, ch)
  BY <1>1, Zenon DEF decodeDataItem
<1>3. d \in Seq(Nat) /\ U64 \in Nat
  BY BytesAreNats, SizesAre
<1>4. u \in Nat /\ u >= 1
  BY <1>2, <1>3, SignedRead
<1> HIDE DEF w, c, k, u, ch
<1>5. at \in Nat /\ at > 0
  BY <1>4
<1>6. b = decodeUnsigned(d, at, U64)
  OBVIOUS
<1> HIDE DEF at, b
<1>7. \/ ReadsFixed(d, k, at, w)
      \/ ReadsVbc(d, k, at, U64, b, w)
      \/ ReadsVariable(d, k, at, U64, b, w)
      \/ ReadsContainer(d, k, at, U64, ch, b, w)
  BY <1>1, <1>2, <1>3, <1>5, <1>6, BodyKinds
<1>8. \A it, n : Read(it, n).item = it
  BY DEF Read
<1>9. /\ \A s : bytesItem(k, s).typeCode = k /\ bytesItem(k, s).data = s
      /\ \A v : vbcItem(k, v).typeCode = k
      /\ \A s : containerItem(k, s).typeCode = k
  BY DEF bytesItem, vbcItem, containerItem
<1>10. r.typeCode = k
  BY <1>1, <1>7, <1>8, <1>9 DEF ReadsFixed, ReadsVbc, ReadsVariable, ReadsContainer
<1>11. ReadsVariable(d, k, at, U64, b, w)
  BY <1>7, <1>10 DEF ReadsFixed, ReadsVbc, ReadsContainer
<1> DEFINE s == at + b.used
           e == at + b.used + b.value
<1>12. b # Refused /\ e <= Len(d) + 1 /\ w = Read(bytesItem(k, SubSeq(d, s, e - 1)), e)
  BY <1>11, Zenon DEF ReadsVariable
<1>13. b.used \in Nat /\ b.used >= 1 /\ b.value \in Nat
  BY <1>3, <1>5, <1>6, <1>12, ReadIsWritten
<1>14. s \in Nat /\ s > 0 /\ e \in Nat
  BY <1>5, <1>13
<1> HIDE DEF s, e
<1>15. r.data = SubSeq(d, s, e - 1)
  <2> DEFINE t == SubSeq(d, s, e - 1)
             it == bytesItem(k, t)
  <2>1. w = Read(it, e)
    BY <1>12
  <2>2. it.data = t
    BY DEF bytesItem
  <2> HIDE DEF it, t
  <2>3. w.item = it
    BY <2>1 DEF Read
  <2>4. r.data = t
    BY <1>1, <2>2, <2>3
  <2> QED
    BY <2>4 DEF t
<1>16. SubSeq(d, s, e - 1) \in Seq(Byte)
  <2> DEFINE f == e - 1
  <2>1. f \in Int /\ f <= Len(d) /\ Len(d) \in Nat
    BY <1>12, <1>14
  <2> HIDE DEF f
  <2>2. SubSeq(d, s, f) \in Seq(Byte)
    BY <1>14, <2>1
  <2> QED
    BY <2>2 DEF f
<1> QED
  BY <1>15, <1>16

LEMMA SumOf == ASSUME NEW a \in Nat, NEW b \in Nat PROVE a <= b + a /\ a <= a + b
OBVIOUS

\* An item whose encoding fits has data that fit.
LEMMA DataFit ==
    ASSUME NEW it \in Items, NEW c \in CodesOf("variable"), NEW s \in Seq(Nat),
           it = bytesItem(c, s)
    PROVE  Len(s) \in Nat /\ Len(s) < U64
<1>1. it \in Tree /\ Len(encodeDataItem[it]) < U64
  BY ItemsAre, SizesOfItems
<1>2. it.typeCode = c /\ it.data = s
  BY DEF bytesItem
<1>3. c \in Codes /\ sizeCategory(c) = "variable"
  BY CodesAre
<1>4. IsVariable(it)
  BY <1>2, <1>3 DEF IsVariable
<1> DEFINE e == Len(encodeDataItem[it])
           h == Len(encodeSigned(c))
           z == Len(Sized(s))
           n == Len(s)
           u == Len(encodeUnsigned[n])
<1>5. z = u + n /\ u \in Nat /\ n \in Nat
  BY SizedLength
<1>6. e = h + z /\ e \in Nat /\ h \in Nat
  BY <1>1, <1>2, <1>3, <1>4, VariableWritten, WrittenTyped
<1>7. U64 \in Nat
  BY SizesAre
<1>8. e < U64
  BY <1>1
<1> HIDE DEF e, h, z, n, u
<1>9. n \in Nat /\ n < U64
  BY <1>5, <1>6, <1>7, <1>8
<1> QED
  BY <1>9 DEF n

\* The codes of leaves tell how their data were written.
LEMMA AmountLeaf ==
    ASSUME NEW it \in Items, it.typeCode = AMOUNT
    PROVE  \E n \in Signed : it.data = encodeBigint(n)
<1>1. it \in Leaves
  <2>1. sizeCategory(AMOUNT) # "container"
    BY SeparableCodes, CodesAre
  <2> QED
    BY <2>1, ItemsAre DEF Outer, Over, IsContainer
<1>2. \A c, s : bytesItem(c, s).typeCode = c /\ bytesItem(c, s).data = s
  BY DEF bytesItem
<1>3. \A c, v : vbcItem(c, v).typeCode = c
  BY DEF vbcItem
<1>4. /\ AMOUNT # SHA256 /\ AMOUNT # RECORDING_BID /\ AMOUNT # NOTE /\ AMOUNT # DATA_BLOB
      /\ AMOUNT # SEQ_ID /\ AMOUNT # EXPIRY_MODE
  BY DEF AMOUNT, SHA256, RECORDING_BID, NOTE, DATA_BLOB, SEQ_ID, EXPIRY_MODE
<1> DEFINE P1 == {bytesItem(SHA256, <<b>>) : b \in {1, Base - 1}}
           P2 == {bytesItem(AMOUNT, encodeBigint(n)) : n \in Signed}
           P3 == {bytesItem(RECORDING_BID, encodeRational(n, 3)) : n \in Signed}
           P4 == {vbcItem(c, v) : c \in {SEQ_ID, EXPIRY_MODE}, v \in Values}
           P5 == {bytesItem(c, s) : c \in {NOTE, DATA_BLOB}, s \in {<<>>, <<6, 1>>}}
<1>5. it \notin P1 /\ it \notin P3
  BY <1>2, <1>4
<1>6. it \notin P4
  BY <1>3, <1>4
<1>7. it \notin P5
  <2> DEFINE x == <<>>
             y == <<6, 1>>
  <2>1. \A s \in {x, y} : it # bytesItem(NOTE, s) /\ it # bytesItem(DATA_BLOB, s)
    <3> HIDE DEF x, y
    <3> QED
      BY <1>2, <1>4
  <2> HIDE DEF x, y
  <2>2. it \notin {bytesItem(c, s) : c \in {NOTE, DATA_BLOB}, s \in {x, y}}
    BY <2>1
  <2> QED
    BY <2>2 DEF x, y
<1>8. Leaves = P1 \cup P2 \cup P3 \cup P4 \cup P5
  BY DEF Leaves
<1> HIDE DEF P1, P3, P4, P5
<1>9. it \in P2
  BY <1>1, <1>5, <1>6, <1>7, <1>8
<1>10. PICK n \in Signed : it = bytesItem(AMOUNT, encodeBigint(n))
  BY <1>9
<1> QED
  BY <1>2, <1>10

-----------------------------------------------------------------------------
(* The states of DataItems. *)

\* An item was built and perhaps encoded, or a string is there and perhaps was read; what is
\* posted is the item's form.
ItemInv ==
    /\ \/ item \in Items /\ wire \in {<<>>, encodeDataItem[item]}
       \/ wire \in Strings /\ item \in {NotYet, fromBytes(wire, U64)}
    /\ json = NotYet \/ (IsItem /\ json = toJson[item])

LEMMA StringsAre ==
    ASSUME NEW s \in Strings
    PROVE  s \in Seq(Byte) /\ Len(s) \in Nat /\ Len(s) <= MaxLen /\ s # <<>>
<1>1. PICK n \in 1 .. MaxLen : s \in [1 .. n -> Alphabet]
  BY DEF Strings
<1>2. n \in Nat /\ n > 0 /\ n <= MaxLen /\ Alphabet \subseteq Byte
  BY <1>1, SizesAre, SizesAssumption
<1>3. s \in Seq(Byte) /\ Len(s) = n
  BY <1>1, <1>2
<1> QED
  BY <1>2, <1>3

LEMMA ItemsAreItems == \A it \in Items : it # NotYet /\ it # Refused
<1> SUFFICES ASSUME NEW it \in Items PROVE it # NotYet /\ it # Refused
  OBVIOUS
<1>1. it.typeCode \in Codes /\ (IsFixed(it) \/ IsVariable(it) \/ IsVbc(it)
                                \/ \E S : IsContainer(it, S))
  <2>1. it \in Trees(Depth) /\ Depth \in Nat
    BY ItemsAre, DepthIs
  <2> QED
    BY <2>1, KindOf
<1>2. \A c, s : "typeCode" \in DOMAIN bytesItem(c, s)
  BY DEF bytesItem
<1>3. \A c, s : "typeCode" \in DOMAIN vbcItem(c, s)
  BY DEF vbcItem
<1>4. \A c, s : "typeCode" \in DOMAIN containerItem(c, s)
  BY DEF containerItem
<1>5. "typeCode" \in DOMAIN it
  BY <1>1, <1>2, <1>3, <1>4 DEF IsFixed, IsVariable, IsVbc, IsContainer
<1>6. "typeCode" \notin DOMAIN NotYet /\ "typeCode" \notin DOMAIN Refused
  BY DEF NotYet, Refused
<1> QED
  BY <1>5, <1>6

LEMMA ItemInit == Init => ItemInv
<1> SUFFICES ASSUME Init PROVE ItemInv
  OBVIOUS
<1>1. json = NotYet
  BY DEF Init
<1>2. (item \in Items /\ wire = <<>>) \/ (item = NotYet /\ wire \in Strings)
  BY DEF Init
<1> QED
  BY <1>1, <1>2 DEF ItemInv

LEMMA ItemKeeps == ItemInv /\ [Next]_vars => ItemInv'
<1> SUFFICES ASSUME ItemInv, [Next]_vars PROVE ItemInv'
  OBVIOUS
<1>1. ASSUME Encode PROVE ItemInv'
  <2>1. wire = <<>> /\ wire' = encodeDataItem[item] /\ item' = item /\ json' = json
    BY <1>1 DEF Encode
  <2>2. item \in Items
    BY <2>1, StringsAre DEF ItemInv
  <2> QED
    BY <2>1, <2>2 DEF ItemInv, IsItem
<1>2. ASSUME Decode PROVE ItemInv'
  <2>1. item = NotYet /\ item' = fromBytes(wire, U64) /\ wire' = wire /\ json' = json
    BY <1>2 DEF Decode
  <2>2. wire \in Strings /\ json = NotYet
    BY <2>1, ItemsAreItems DEF ItemInv, IsItem
  <2>3. item' = fromBytes(wire', U64) /\ wire' \in Strings /\ json' = NotYet
    BY <2>1, <2>2
  <2> QED
    BY <2>3 DEF ItemInv
<1>3. ASSUME Post PROVE ItemInv'
  <2>1. item \notin {NotYet, Refused} /\ json' = toJson[item] /\ item' = item /\ wire' = wire
    BY <1>3 DEF Post
  <2> QED
    BY <2>1 DEF ItemInv, IsItem
<1>4. CASE UNCHANGED vars
  <2>1. item' = item /\ wire' = wire /\ json' = json
    BY <1>4 DEF vars
  <2> QED
    BY <2>1 DEF ItemInv, IsItem
<1> QED
  BY <1>1, <1>2, <1>3, <1>4 DEF Next

\* An item was encoded and is one of the run's, or it was read from a string.
LEMMA ItemFrom ==
    ASSUME ItemInv, IsItem
    PROVE  \/ item \in Items /\ wire \in {<<>>, encodeDataItem[item]}
           \/ wire \in Strings /\ item = fromBytes(wire, U64)
BY DEF ItemInv, IsItem

LEMMA FromString ==
    ASSUME NEW s \in Strings, NEW it, it = fromBytes(s, U64), it # Refused
    PROVE  /\ it \in Tree /\ Len(encodeDataItem[it]) < U64
           /\ fromBytes(s, U64) = it /\ fromBytes(s, Unbounded) = it
<1>1. s \in Seq(Nat) /\ Len(s) \in Nat /\ Len(s) <= MaxLen
  BY StringsAre, BytesAreNats
<1>2. U64 \in Nat /\ Unbounded \in Nat /\ U64 <= Unbounded /\ MaxLen < U64 /\ MaxLen \in Nat
  BY SizesAre
<1>3. it \in Tree /\ Len(encodeDataItem[it]) <= Len(s) /\ fromBytes(s, Unbounded) = it
  BY <1>1, <1>2, ReadIsItem
<1>4. Len(encodeDataItem[it]) \in Nat
  BY <1>3, EncodeTyped
<1> QED
  BY <1>1, <1>2, <1>3, <1>4

LEMMA ItemFits ==
    ASSUME ItemInv, IsItem
    PROVE  item \in Tree /\ Len(encodeDataItem[item]) < U64
<1>1. CASE item \in Items
  BY <1>1, ItemsAre, SizesOfItems
<1>2. CASE wire \in Strings /\ item = fromBytes(wire, U64)
  BY <1>2, FromString DEF IsItem
<1> QED
  BY <1>1, <1>2, ItemFrom

LEMMA ReadsBack == ASSUME ItemInv PROVE ReadBack
<1> SUFFICES ASSUME IsItem, wire # <<>>, NEW s \in {wire, encodeDataItem[item]},
                    NEW limit \in {U64, Unbounded}
             PROVE  fromBytes(s, limit) = item
  BY DEF ReadBack
<1>1. fromBytes(encodeDataItem[item], limit) = item
  BY ItemFits, LimitsAre, WholeIs
<1>2. CASE item \in Items /\ wire = encodeDataItem[item]
  BY <1>1, <1>2
<1>3. CASE wire \in Strings /\ item = fromBytes(wire, U64)
  <2>1. fromBytes(wire, U64) = item /\ fromBytes(wire, Unbounded) = item
    BY <1>3, FromString DEF IsItem
  <2> QED
    BY <1>1, <2>1
<1> QED
  BY <1>2, <1>3, ItemFrom

LEMMA PostsAsSigned == ASSUME ItemInv PROVE PostedAsSigned
<1> SUFFICES ASSUME json # NotYet, item \in Items
             PROVE  fromJson[json] = item
  BY DEF PostedAsSigned
<1>1. json = toJson[item]
  BY DEF ItemInv
<1> QED
  BY <1>1, ItemsPosted

LEMMA SignsApart == SignedApart
BY ItemsApart DEF SignedApart

\* What a digest stands for does not matter to what is signed.
LEMMA Stands ==
    ASSUME NEW it \in Tree, NEW b, b = substituteSeparable[it]
    PROVE  /\ SigningBytes(b) = SigningBytes(it)
           /\ sizeCategory(b.typeCode) = "container" =>
                  \A i \in 1 .. Len(b.children) :
                      /\ ~isSeparable(b.children[i].typeCode)
                      /\ sizeCategory(b.children[i].typeCode) = "container" =>
                             \A k \in 1 .. Len(b.children[i].children) :
                                 ~isSeparable(b.children[i].children[k].typeCode)
<1>1. SigningBytes(b) = SigningBytes(it)
  BY SubstitutedTwice DEF SigningBytes
<1>2. SUFFICES ASSUME sizeCategory(b.typeCode) = "container", NEW i \in 1 .. Len(b.children),
                      NEW c, c = b.children[i]
               PROVE  /\ ~isSeparable(c.typeCode)
                      /\ sizeCategory(c.typeCode) = "container" =>
                             \A k \in 1 .. Len(c.children) : ~isSeparable(c.children[k].typeCode)
  BY <1>1
<1>3. PICK x \in Tree : c = substituteSeparable[x]
  BY <1>2, Substituted
<1>4. ~isSeparable(c.typeCode)
  BY <1>3, Substituted
<1>5. ASSUME sizeCategory(c.typeCode) = "container", NEW k \in 1 .. Len(c.children)
      PROVE  ~isSeparable(c.children[k].typeCode)
  <2>1. PICK y \in Tree : c.children[k] = substituteSeparable[y]
    BY <1>3, <1>5, Substituted
  <2> QED
    BY <2>1, Substituted
<1> QED
  BY <1>4, <1>5

LEMMA DigestsStand == ASSUME ItemInv PROVE DigestStands
<1> SUFFICES ASSUME IsItem PROVE DigestStands
  BY DEF DigestStands
<1> DEFINE b == substituteSeparable[item]
<1>1. item \in Tree
  BY ItemFits
<1>2. b = substituteSeparable[item]
  OBVIOUS
<1> HIDE DEF b
<1>3. /\ SigningBytes(b) = SigningBytes(item)
      /\ sizeCategory(b.typeCode) = "container" =>
             \A i \in 1 .. Len(b.children) :
                 /\ ~isSeparable(b.children[i].typeCode)
                 /\ sizeCategory(b.children[i].typeCode) = "container" =>
                        \A k \in 1 .. Len(b.children[i].children) :
                            ~isSeparable(b.children[i].children[k].typeCode)
  BY <1>1, <1>2, Stands
<1> QED
  BY <1>2, <1>3, Zenon DEF DigestStands

LEMMA AmountsAreExact == ASSUME ItemInv PROVE AmountsExact
<1> SUFFICES ASSUME IsItem, item.typeCode = AMOUNT PROVE AmountsExact
  BY DEF AmountsExact
<1> DEFINE d == item.data
           r == decodeBigint(d, 1, U64)
<1>1. ASSUME NEW n \in Signed, d = encodeBigint(n) PROVE r # Refused /\ r.value = n
  <2> DEFINE l == bytesItem(AMOUNT, encodeBigint(n))
  <2>1. l \in Items
    BY ItemsAre DEF Leaves
  <2>2. n \in Int /\ encodeBigint(n) \in Seq(Nat)
    BY NumbersAre
  <2>3. AMOUNT \in CodesOf("variable") /\ l = bytesItem(AMOUNT, encodeBigint(n))
    BY SeparableCodes
  <2> HIDE DEF l
  <2>4. Len(encodeBigint(n)) \in Nat /\ Len(encodeBigint(n)) < U64
    BY <2>1, <2>2, <2>3, DataFit
  <2> DEFINE a == bigintToTcBe(n)
             z == Len(a)
             u == Len(encodeUnsigned[Len(a)])
             e == Len(Sized(a))
  <2>5. a \in Seq(Nat)
    BY <2>2, NumberWritten, BytesAreNats
  <2>6. encodeBigint(n) = Sized(a)
    BY DEF encodeBigint, Sized
  <2>7. e = u + z /\ u \in Nat /\ z \in Nat
    BY <2>5, SizedLength
  <2>8. e \in Nat /\ e < U64
    BY <2>4, <2>6
  <2>9. z < U64
    <3> HIDE DEF z, u, e
    <3> QED
      BY <2>7, <2>8, SizesAre
  <2>10. Len(bigintToTcBe(n)) < U64
    BY <2>9
  <2> HIDE DEF a, z, u, e
  <2>11. decodeBigint(encodeBigint(n), 1, U64) # Refused
         /\ decodeBigint(encodeBigint(n), 1, U64).value = n
    BY <2>2, <2>10, AmountRead
  <2> QED
    BY <1>1, <2>11
<1>2. d \in Seq(Byte)
  <2>1. ASSUME item \in Items PROVE d \in Seq(Byte)
    <3>1. PICK n \in Signed : d = encodeBigint(n)
      BY <2>1, AmountLeaf
    <3> DEFINE a == bigintToTcBe(n)
               z == encodeUnsigned[Len(a)]
    <3>2. n \in Int /\ a \in Seq(Byte)
      BY NumbersAre, NumberWritten
    <3>3. z \in Seq(Byte)
      BY <3>2, FieldBytes
    <3>4. d = z \o a
      BY <3>1 DEF encodeBigint
    <3> HIDE DEF a, z
    <3>5. z \o a \in Seq(Byte)
      BY <3>2, <3>3, ConcatProperties
    <3> QED
      BY <3>4, <3>5
  <2>2. ASSUME wire \in Strings, item = fromBytes(wire, U64) PROVE d \in Seq(Byte)
    <3>1. sizeCategory(AMOUNT) = "variable"
      BY SeparableCodes, CodesAre
    <3>2. wire \in Seq(Byte)
      BY <2>2, StringsAre
    <3> QED
      BY <2>2, <3>1, <3>2, DataRead DEF IsItem
  <2> QED
    BY <2>1, <2>2, ItemFrom
<1>3. ASSUME r # Refused
      PROVE  SubSeq(d, r.used - Len(bigintToTcBe(r.value)) + 1, r.used) = bigintToTcBe(r.value)
  <2>1. r = decodeBigint(d, 1, U64)
    OBVIOUS
  <2> HIDE DEF r
  <2> QED
    BY <1>2, <1>3, <2>1, AmountAccepted
<1> HIDE DEF r
<1> QED
  BY <1>1, <1>3, Zenon DEF AmountsExact, r

LEMMA BidsAreExact == ASSUME ItemInv PROVE BidsExact
<1> SUFFICES ASSUME NEW n \in Signed, item.data = encodeRational(n, 3), NEW r,
                    r = decodeRational(item.data, 1, U64)
             PROVE  r # Refused /\ r.num = n /\ r.den = 3
  BY Zenon DEF BidsExact
<1> DEFINE l == bytesItem(RECORDING_BID, encodeRational(n, 3))
<1>1. l \in Items
  BY ItemsAre DEF Leaves
<1>2. n \in Int /\ encodeRational(n, 3) \in Seq(Nat) /\ 3 \in Int /\ 3 > 0
  BY NumbersAre
<1>3. RECORDING_BID \in CodesOf("variable") /\ l = bytesItem(RECORDING_BID, encodeRational(n, 3))
  BY SeparableCodes
<1> HIDE DEF l
<1>4. Len(encodeRational(n, 3)) < U64
  BY <1>1, <1>2, <1>3, DataFit
<1> DEFINE x == decodeRational(encodeRational(n, 3), 1, U64)
<1>5. x # Refused /\ x.num = n /\ x.den = 3
  BY <1>2, <1>4, BidRead
<1> HIDE DEF x
<1>6. r = x
  BY DEF x
<1> QED
  BY <1>5, <1>6

LEMMA ItemShows == ItemInv => FormsAgree /\ SigningCovers
BY ReadsBack, PostsAsSigned, AmountsAreExact, BidsAreExact, SignsApart, DigestsStand
   DEF FormsAgree, SigningCovers

\* Every form is read as what was written, and a signature covers one item, and all of it but
\* what a digest may stand for.
THEOREM ItemsAreTrue == Spec => [](FormsAgree /\ SigningCovers)
BY ItemInit, ItemKeeps, ItemShows, PTL DEF Spec
=============================================================================
