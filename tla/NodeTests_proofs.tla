-------------------------- MODULE NodeTests_proofs --------------------------
(***************************************************************************)
(* What NodeTests guarantees for every chain, any number of nodes, failed  *)
(* batches and restarts, and however the steps of a query and the writes   *)
(* of the worker follow each other.                                        *)
(***************************************************************************)
EXTENDS NodeTests, Lemmas

(***************************************************************************)
(* The groups of a rating.                                                 *)
(***************************************************************************)

\* Quotient and remainder.
LEMMA DivMod ==
    ASSUME NEW a \in Nat, NEW c \in Nat, c > 0
    PROVE  /\ a \div c \in Nat /\ a % c \in 0..(c - 1)
           /\ a = c * (a \div c) + (a % c)
<1>1. a \div c \in Nat
  OBVIOUS
<1>2. a % c \in 0..(c - 1)
  OBVIOUS
<1>3. a = c * (a \div c) + (a % c)
  OBVIOUS
<1> QED
  BY <1>1, <1>2, <1>3

\* The quotient by which i is between two multiples.
LEMMA Quotient ==
    ASSUME NEW i \in Nat, NEW q \in Nat, q > 0
    PROVE  /\ i \div q \in Nat
           /\ (i \div q) * q <= i /\ i < (i \div q) * q + q
           /\ \A m \in Nat : i < m * q => i \div q < m
<1>1. i \div q \in Nat
  OBVIOUS
<1>2. i % q \in 0..(q - 1) /\ i = q * (i \div q) + (i % q)
  BY DivMod
<1>3. PICK k \in Nat, r \in 0..(q - 1) : k = i \div q /\ r = i % q
  BY <1>1, <1>2
<1>4. i = q * k + r
  BY <1>2, <1>3
<1>5. q * k = k * q
  OBVIOUS
<1>6. k * q \in Int
  OBVIOUS
<1>7. k * q <= i /\ i < k * q + q
  BY <1>4, <1>5, <1>6
<1>8. ASSUME NEW m \in Nat, i < m * q PROVE k < m
  <2> SUFFICES ASSUME m <= k PROVE FALSE
    OBVIOUS
  <2>1. PICK d \in Nat : k = m + d
    <3>1. k - m \in Nat /\ k = m + (k - m)
      OBVIOUS
    <3> QED
      BY <3>1
  <2>2. k * q = m * q + d * q
    BY <2>1
  <2>3. d * q \in Nat /\ m * q \in Nat
    OBVIOUS
  <2> QED
    BY <1>7, <1>8, <2>2, <2>3
<1> QED
  BY <1>1, <1>3, <1>7, <1>8

\* The last places of the groups, as the loop gave them.
LEMMA GroupEndIs ==
    ASSUME NEW g \in Int, NEW n \in Nat, NEW q \in Nat, q = n \div CountGroups,
           NEW r \in Nat, r = n % CountGroups
    PROVE  GroupEnd(g, n) =
            g * q + (IF g - (CountGroups - r) >= 0 THEN g - (CountGroups - r) ELSE 0)
<1>1. CountGroups - r \in Int /\ g - (CountGroups - r) \in Int
  BY NodeTestsAssumption
<1>2. PICK d \in Int : d = g - (CountGroups - r)
  BY <1>1
<1>3. Max({0, d}) = IF 0 >= d THEN 0 ELSE d
  BY MaxOfTwo
<1>4. Max({0, d}) = IF d >= 0 THEN d ELSE 0
  BY <1>3
<1> QED
  BY <1>2, <1>4 DEF GroupEnd

\* The place i of n elements is in the group that the loop would have put it in.
LEMMA GroupFound ==
    ASSUME NEW n \in Nat, NEW i \in Nat, i < n
    PROVE  LET g == GroupOf(i, n)
           IN  /\ g \in 1..CountGroups
               /\ GroupEnd(g - 1, n) <= i /\ i < GroupEnd(g, n)
<1>1. PICK c \in Nat : c = CountGroups /\ c > 0
  BY NodeTestsAssumption
<1>2. n \div c \in Nat /\ n % c \in 0..(c - 1) /\ n = c * (n \div c) + (n % c)
  BY <1>1, DivMod
<1>3. PICK q \in Nat, r \in 0..(c - 1) : q = n \div c /\ r = n % c
  BY <1>2
<1>4. n = c * q + r
  BY <1>2, <1>3
<1>5. PICK a \in Nat : a = c - r /\ a >= 1
  BY <1>1
<1>6. PICK z \in Nat : z = a * q
  OBVIOUS
<1>7. \A g \in Int : GroupEnd(g, n) = g * q + (IF g - a >= 0 THEN g - a ELSE 0)
  BY <1>1, <1>3, <1>5, GroupEndIs
<1>8. CASE i < z
  <2>1. q > 0
    <3>1. q = 0 => z = 0
      BY <1>6
    <3> QED
      BY <1>8, <3>1
  <2>2. PICK k \in Nat : k = i \div q
    BY <2>1, Quotient
  <2>3. k * q <= i /\ i < k * q + q /\ k < a
    BY <1>6, <1>8, <2>1, <2>2, Quotient
  <2>4. GroupOf(i, n) = k + 1
    BY <1>1, <1>3, <1>5, <1>6, <1>8, <2>2 DEF GroupOf
  <2>5. k + 1 \in Int /\ (k + 1) - 1 = k /\ k \in Int
    OBVIOUS
  <2>6. GroupEnd(k, n) = k * q
    <3>1. ~(k - a >= 0) /\ k * q \in Int
      BY <2>3
    <3>2. GroupEnd(k, n) = k * q + 0
      BY <1>7, <2>5, <3>1
    <3> QED
      BY <3>1, <3>2
  <2>7. GroupEnd(k + 1, n) = k * q + q
    <3>1. (k + 1) - a >= 0 => (k + 1) - a = 0
      BY <2>3
    <3>2. GroupEnd(k + 1, n) = (k + 1) * q + 0
      BY <1>7, <2>5, <3>1
    <3>3. (k + 1) * q = k * q + q /\ k * q + q \in Int
      OBVIOUS
    <3> QED
      BY <3>2, <3>3
  <2>8. k + 1 \in 1..c
    BY <1>5, <2>3
  <2> QED
    BY <1>1, <2>3, <2>4, <2>5, <2>6, <2>7, <2>8
<1>9. CASE ~(i < z)
  <2>1. PICK j \in Nat : j = i - z
    BY <1>9
  <2>2. PICK p \in Nat : p = q + 1 /\ p > 0
    OBVIOUS
  <2>3. PICK k \in Nat : k = j \div p
    BY <2>2, Quotient
  <2>4. k * p <= j /\ j < k * p + p
    BY <2>2, <2>3, Quotient
  <2>5. k < r
    <3>1. c * q = a * q + r * q
      <4>1. c = a + r
        BY <1>5
      <4> QED
        BY <4>1
    <3>2. r * p = r * q + r
      BY <2>2
    <3>3. r * q \in Int /\ c * q \in Int /\ r * p \in Int
      OBVIOUS
    <3>4. j < r * p
      BY <1>4, <1>6, <2>1, <3>1, <3>2, <3>3
    <3> QED
      BY <2>2, <2>3, <3>4, Quotient
  <2>6. GroupOf(i, n) = k + a + 1
    <3>1. GroupOf(i, n) = (i - z) \div (q + 1) + a + 1
      BY <1>1, <1>3, <1>5, <1>6, <1>9 DEF GroupOf
    <3> QED
      BY <2>1, <2>2, <2>3, <3>1
  <2>7. (k + a + 1) - 1 = k + a /\ k + a \in Int /\ k + a + 1 \in Int
    OBVIOUS
  <2>8. GroupEnd(k + a, n) = z + k * p
    <3>1. (k + a) - a = k /\ k >= 0
      OBVIOUS
    <3>2. GroupEnd(k + a, n) = (k + a) * q + k
      BY <1>7, <2>7, <3>1
    <3>3. (k + a) * q + k = a * q + k * p
      BY <2>2
    <3> QED
      BY <1>6, <3>2, <3>3
  <2>9. GroupEnd(k + a + 1, n) = z + (k * p + p)
    <3>1. (k + a + 1) - a = k + 1 /\ k + 1 >= 0
      OBVIOUS
    <3>2. GroupEnd(k + a + 1, n) = (k + a + 1) * q + (k + 1)
      BY <1>7, <2>7, <3>1
    <3>3. (k + a + 1) * q + (k + 1) = a * q + (k * p + p)
      BY <2>2
    <3> QED
      BY <1>6, <3>2, <3>3
  <2>10. k + a + 1 \in 1..c
    BY <1>5, <2>5
  <2>11. k * p \in Int
    OBVIOUS
  <2>12. z + k * p <= i /\ i < z + (k * p + p)
    BY <2>1, <2>4, <2>11
  <2> QED
    BY <1>1, <2>6, <2>7, <2>8, <2>9, <2>10, <2>12
<1> QED
  BY <1>8, <1>9

(***************************************************************************)
(* Sums and flattened sequences.                                           *)
(***************************************************************************)

\* A sum of natural numbers is one.
LEMMA SumNat ==
    ASSUME NEW s \in Seq(Nat)
    PROVE  SumSeq(s) \in Nat
<1>1. PICK n \in Nat : n = Len(s)
  OBVIOUS
<1>2. \A i \in 1..n : s[i] \in Nat
  BY <1>1
<1> DEFINE step == [x \in Nat \X Nat |-> IF x[1] \in 1..n THEN x[2] + s[x[1]] ELSE x[2]]
           Rec(f) == [i \in 0..Len(s) |-> IF i = 0 THEN 0 ELSE f[i - 1] + s[i]]
<1>3. step \in [Nat \X Nat -> Nat]
  BY <1>2
<1>4. PICK f : IsRun(f, n, Nat, 0, step)
  <2>1. PICK t : t = step
    OBVIOUS
  <2>2. t \in [Nat \X Nat -> Nat]
    BY <1>3, <2>1, Zenon
  <2>3. PICK f : IsRun(f, n, Nat, 0, t)
    BY <2>2, RunsExist
  <2> HIDE DEF step
  <2> QED
    BY <2>1, <2>3, Zenon
<1>5. f \in [0..n -> Nat] /\ f[0] = 0 /\ \A i \in 1..n : f[i] = step[<<i, f[i - 1]>>]
  <2> HIDE DEF step
  <2> QED
    BY <1>4 DEF IsRun
<1>6. ASSUME NEW i \in 1..n PROVE f[i] = f[i - 1] + s[i]
  <2>1. i - 1 \in 0..n /\ i \in Nat
    OBVIOUS
  <2>2. <<i, f[i - 1]>> \in Nat \X Nat
    BY <1>5, <2>1
  <2> QED
    BY <1>5, <2>2
<1>7. f = Rec(f)
  BY <1>1, <1>5, <1>6
<1>8. PICK g : g = Rec(g) /\ SumSeq(s) = g[Len(s)]
  <2>1. \E A : A = Rec(A)
    BY <1>7
  <2>2. (CHOOSE A : A = Rec(A)) = Rec(CHOOSE A : A = Rec(A))
    <3> HIDE DEF Rec
    <3> QED
      BY <2>1, Zenon
  <2>3. SumSeq(s) = (CHOOSE A : A = Rec(A))[Len(s)]
    BY Zenon DEF SumSeq
  <2> HIDE DEF Rec
  <2> QED
    BY <2>2, <2>3, Zenon
<1>9. g[0] = 0 /\ \A i \in 1..n : g[i] = g[i - 1] + s[i]
  <2>1. \A i \in 0..n : Rec(g)[i] = IF i = 0 THEN 0 ELSE g[i - 1] + s[i]
    BY <1>1
  <2> HIDE DEF Rec
  <2>2. \A i \in 0..n : g[i] = IF i = 0 THEN 0 ELSE g[i - 1] + s[i]
    BY <1>8, <2>1
  <2>3. 0 \in 0..n /\ \A i \in 1..n : i \in 0..n /\ i # 0
    OBVIOUS
  <2> QED
    BY <2>2, <2>3
<1> HIDE DEF Rec, step
<1> DEFINE Bad == {i \in 0..n : g[i] \notin Nat}
<1>10. Bad = {}
  <2> SUFFICES ASSUME Bad # {} PROVE FALSE
    OBVIOUS
  <2>1. PICK i \in Bad : \A j \in Bad : i <= j
    <3>1. Bad \subseteq Nat
      OBVIOUS
    <3> QED
      BY <3>1, NatMin, Zenon
  <2>2. i \in 1..n
    BY <1>9, <2>1
  <2>3. i - 1 \in 0..n /\ ~(i <= i - 1)
    BY <2>2
  <2>4. g[i - 1] \in Nat
    BY <2>1, <2>3
  <2>5. g[i] = g[i - 1] + s[i] /\ s[i] \in Nat
    BY <1>2, <1>9, <2>2
  <2>6. g[i] \in Nat
    BY <2>4, <2>5
  <2> QED
    BY <2>1, <2>6
<1>11. n \in 0..n
  OBVIOUS
<1> QED
  BY <1>1, <1>8, <1>10, <1>11

(***************************************************************************)
(* The best test of a day.                                                 *)
(***************************************************************************)

\* One of finitely many places has the greatest value.
LEMMA GreatestAt ==
    ASSUME NEW b \in Nat, NEW I, I \subseteq 0..b, I # {}, NEW f, \A i \in I : f[i] \in Int
    PROVE  \E i \in I : \A j \in I : f[i] >= f[j]
<1> DEFINE Has(T) == \E i \in T : \A j \in T : f[i] >= f[j]
           Bad == {n \in Nat : \E T \in SUBSET I : T \subseteq 0..n /\ T # {} /\ ~Has(T)}
<1>1. Bad = {}
  <2> SUFFICES ASSUME Bad # {} PROVE FALSE
    OBVIOUS
  <2>1. PICK n \in Bad : \A m \in Bad : n <= m
    BY NatMin, Zenon
  <2>2. PICK T \in SUBSET I : T \subseteq 0..n /\ T # {} /\ ~Has(T)
    BY <2>1
  <2>3. PICK R : R = T \ {n}
    OBVIOUS
  <2>4. CASE R = {}
    <3>1. T = {n} /\ f[n] \in Int
      BY <2>2, <2>3, <2>4
    <3>2. Has(T)
      BY <3>1
    <3> QED
      BY <2>2, <3>2
  <2>5. CASE R # {}
    <3>1. n # 0
      <4>1. n = 0 => T \subseteq {0}
        BY <2>2
      <4> QED
        BY <2>3, <2>5, <4>1
    <3>2. n - 1 \in Nat /\ ~(n <= n - 1) /\ R \subseteq 0..(n - 1) /\ R \in SUBSET I
      BY <2>1, <2>2, <2>3, <3>1
    <3> HIDE DEF Has
    <3>3. Has(R)
      BY <2>1, <2>5, <3>2
    <3> USE DEF Has
    <3>4. PICK m \in R : \A j \in R : f[m] >= f[j]
      BY <3>3
    <3>5. CASE n \notin T
      BY <2>2, <2>3, <3>3, <3>5
    <3>6. CASE n \in T
      <4>1. T = R \cup {n} /\ f[n] \in Int /\ f[m] \in Int /\ \A j \in R : f[j] \in Int
        BY <2>2, <2>3, <3>6
      <4>2. CASE f[m] >= f[n]
        BY <2>2, <3>4, <4>1, <4>2
      <4>3. CASE f[n] >= f[m]
        <5>1. \A j \in T : f[n] >= f[j]
          BY <3>4, <4>1, <4>3
        <5> QED
          BY <2>2, <4>1, <5>1
      <4> QED
        BY <4>1, <4>2, <4>3
    <3> QED
      BY <3>5, <3>6
  <2> QED
    BY <2>4, <2>5
<1> HIDE DEF Has
<1>2. Has(I)
  BY <1>1
<1> QED
  BY <1>2 DEF Has

\* What GetMax gives is one of the tests, of the day that was asked for.
LEMMA MaxIsTest ==
    ASSUME NEW r, NEW day, r.tests \in Seq(TestTx), GetMax(r, day) # EmptyElement
    PROVE  r.day = day /\ \E i \in DOMAIN r.tests : GetMax(r, day).rps = r.tests[i].rps
<1>2. PICK n \in Nat : n = Len(r.tests) /\ DOMAIN r.tests = 1..n
  OBVIOUS
<1>3. \A i \in 1..n : r.tests[i].rps \in Nat /\ r.tests[i].geo \in Nat
  <2>1. \A i \in 1..n : r.tests[i] \in TestTx
    BY <1>2
  <2>2. \A x \in TestTx : x.rps \in Nat /\ x.geo \in Nat
    BY DEF TestTx
  <2> QED
    BY <2>1, <2>2
<1> DEFINE worked == {i \in DOMAIN r.tests : r.tests[i].rps # 0}
           geos == {r.tests[i].geo : i \in worked}
           inGeo(g) == {i \in DOMAIN r.tests : r.tests[i].geo = g}
           sum(g) == SumSeq([i \in DOMAIN r.tests |->
                                IF i \in inGeo(g) THEN r.tests[i].rps ELSE 0])
           avg(g) == sum(g) \div Cardinality(worked \cap inGeo(g))
           best == {g \in geos : \A h \in geos :
                        IF r.forward THEN avg(g) >= avg(h) ELSE avg(g) <= avg(h)}
<1>4. GetMax(r, day) = IF r.day # day \/ geos = {} THEN EmptyElement
                       ELSE [geo |-> Min(best), rps |-> r.tests[Max(inGeo(Min(best)))].rps]
  BY DEF GetMax
<1>5. r.day = day /\ geos # {}
  BY <1>4, Zenon
<1>6. GetMax(r, day) = [geo |-> Min(best), rps |-> r.tests[Max(inGeo(Min(best)))].rps]
  BY <1>4, <1>5, Zenon
<1>7. \A g \in geos : g \in Nat /\ inGeo(g) \subseteq 0..n /\ inGeo(g) # {}
  BY <1>2, <1>3
<1>8. ASSUME NEW g \in geos PROVE avg(g) \in Int
  <2>1. [i \in DOMAIN r.tests |-> IF i \in inGeo(g) THEN r.tests[i].rps ELSE 0] \in Seq(Nat)
    BY <1>2, <1>3
  <2>2. sum(g) \in Nat
    BY <2>1, SumNat
  <2>3. worked \cap inGeo(g) # {} /\ worked \cap inGeo(g) \subseteq 0..n
    BY <1>2
  <2>4. Cardinality(worked \cap inGeo(g)) \in Nat /\ Cardinality(worked \cap inGeo(g)) # 0
    <3>1. PICK S : S = worked \cap inGeo(g)
      OBVIOUS
    <3>2. S # {} /\ S \subseteq 0..n
      BY <2>3, <3>1, Zenon
    <3>3. IsFiniteSet(S) /\ Cardinality(S) \in Nat
      BY <3>2, RanksExist
    <3>4. Cardinality(S) # 0
      BY <3>2, <3>3, FS_EmptySet
    <3> QED
      BY <3>1, <3>3, <3>4, Zenon
  <2>5. PICK x \in Nat, y \in Nat : x = sum(g) /\ y = Cardinality(worked \cap inGeo(g))
    BY <2>2, <2>4, Zenon
  <2>6. y > 0
    BY <2>4, <2>5
  <2>7. x \div y \in Int
    BY <2>6
  <2> QED
    BY <2>5, <2>7, Zenon
<1> HIDE DEF avg, inGeo, sum
<1>9. worked # {} /\ worked \subseteq 0..n
  BY <1>2, <1>5
<1>10. best # {} /\ best \subseteq Nat
  <2>1. CASE r.forward
    <3>1. PICK f : f = [i \in worked |-> avg(r.tests[i].geo)]
      OBVIOUS
    <3>2. \A i \in worked : f[i] = avg(r.tests[i].geo) /\ f[i] \in Int
      BY <1>8, <3>1
    <3>3. PICK i \in worked : \A j \in worked : f[i] >= f[j]
      BY <1>9, <3>2, GreatestAt
    <3>4. \A j \in worked : avg(r.tests[i].geo) >= avg(r.tests[j].geo)
      BY <3>2, <3>3
    <3>5. r.tests[i].geo \in best
      BY <2>1, <3>4
    <3> QED
      BY <1>7, <3>5
  <2>2. CASE ~r.forward
    <3>1. PICK f : f = [i \in worked |-> -avg(r.tests[i].geo)]
      OBVIOUS
    <3>2. \A i \in worked : f[i] = -avg(r.tests[i].geo) /\ f[i] \in Int /\ avg(r.tests[i].geo) \in Int
      BY <1>8, <3>1
    <3>3. PICK i \in worked : \A j \in worked : f[i] >= f[j]
      BY <1>9, <3>2, GreatestAt
    <3>4. \A j \in worked : avg(r.tests[i].geo) <= avg(r.tests[j].geo)
      BY <3>2, <3>3
    <3>5. r.tests[i].geo \in best
      BY <2>2, <3>4
    <3> QED
      BY <1>7, <3>5
  <2> QED
    BY <2>1, <2>2
<1>11. Min(best) \in geos
  <2>1. Min(best) \in best
    BY <1>10, MinOfSet, Zenon
  <2> QED
    BY <2>1
<1>12. PICK S : S = inGeo(Min(best)) /\ S \subseteq 0..n /\ S # {}
  BY <1>7, <1>11
<1>13. Max(S) \in S
  BY <1>12, MaxOfSet
<1>14. Max(inGeo(Min(best))) \in DOMAIN r.tests
  BY <1>12, <1>13 DEF inGeo
<1>15. GetMax(r, day).rps = r.tests[Max(inGeo(Min(best)))].rps
  <2> HIDE DEF best
  <2>1. PICK a, e : a = Min(best) /\ e = r.tests[Max(inGeo(Min(best)))].rps
    BY Zenon
  <2>2. GetMax(r, day) = [geo |-> a, rps |-> e]
    BY <1>6, <2>1, Zenon
  <2> QED
    BY <2>1, <2>2
<1> QED
  BY <1>5, <1>14, <1>15

(***************************************************************************)
(* The inductive invariant.                                                *)
(***************************************************************************)

Rps(t) == [i \in DOMAIN t |-> t[i].rps]

\* The written blocks are those up to the last one, from some first one on.
AppliedOK ==
    /\ chain \in Chains
    /\ queue \in {<<>>} \cup {<<n>> : n \in 1..Len(chain)}
    /\ fed \in 0..Len(chain) /\ db.number \in 0..Len(chain)
    /\ applied \subseteq 1..db.number
    /\ db.number # 0 => db.number \in applied
    /\ NoGaps

\* The present day is the last one with tests.
DayOK ==
    /\ db.day = DayOf(Len(chain) + 1)
    /\ \A x \in Node, d \in Nat : d > db.day => DayTests(x, d) = <<>>

\* The results of a day and the nodes tested on it.
RpsOK ==
    /\ DOMAIN db.rps = {k \in Node \X Nat : DayTests(k[1], k[2]) # <<>>}
    /\ \A k \in DOMAIN db.rps : db.rps[k] = Rps(DayTests(k[1], k[2]))

TestedOK ==
    /\ DOMAIN db.tested = {d \in Nat : \E x \in Node : DayTests(x, d) # <<>>}
    /\ \A d \in DOMAIN db.tested : db.tested[d] = {x \in Node : DayTests(x, d) # <<>>}

\* The last results of a node are of the last day that has tests of it.
IsLast(x, last) ==
    /\ last.day \in Nat
    /\ last.tests = DayTests(x, last.day)
    /\ last.tests # <<>>
    /\ \A d \in Nat : d > last.day => DayTests(x, d) = <<>>

LastOK ==
    /\ DOMAIN db.last = {x \in Node : \E d \in Nat : DayTests(x, d) # <<>>}
    /\ \A x \in DOMAIN db.last : \E last : IsLast(x, last) /\ db.last[x] = last

Trusting(x) == {n \in applied : x \in Trusted(chain[n])}
Registering(x) == {n \in applied : x \in Registered(chain[n])}

\* Trust is that of the last block, registrations are those of the first.
KeysOK ==
    /\ DOMAIN db.trust = {x \in Node : Trusting(x) # {}}
    /\ \A x \in DOMAIN db.trust :
        \E m \in Trusting(x) : /\ \A n \in Trusting(x) : n <= m
                               /\ db.trust[x] = LastOfKind(chain[m], "trust", x)
    /\ DOMAIN db.names = {x \in Node : Registering(x) # {}}
    /\ \A x \in DOMAIN db.names :
        \E m \in Registering(x) : /\ \A n \in Registering(x) : m <= n
                                  /\ db.names[x] = LastOfKind(chain[m], "register", x)

TablesOK == AppliedOK /\ DayOK /\ RpsOK /\ TestedOK /\ LastOK /\ KeysOK

\* What was read of the results of a day is still the beginning of them.
Begins(s, t) == Len(s) <= Len(t) /\ \A i \in 1..Len(s) : s[i] = t[i]

RpsMap == UNION {[D -> Seq(Nat)] : D \in SUBSET Node}

RatingOK ==
    query.kind = "rating" =>
        /\ query \in [kind : {"rating"}, node : Node, count : Nat \ {0}, day : Nat,
                      todo : SUBSET Node, had : Nat, read : RpsMap, group : Int]
        /\ \A y \in query.todo : <<y, query.day>> \in DOMAIN db.rps
        /\ \A y \in DOMAIN query.read :
            /\ query.read[y] # <<>>
            /\ <<y, query.day>> \in DOMAIN db.rps
            /\ Begins(query.read[y], db.rps[<<y, query.day>>])
        /\ query.had >= query.count =>
            /\ query.node \in query.todo \cup DOMAIN query.read
            /\ <<query.node, query.day>> \in DOMAIN db.rps
            /\ query.had <= Len(db.rps[<<query.node, query.day>>])
            /\ query.node \in DOMAIN query.read => query.had <= Len(query.read[query.node])
            /\ query.group # -1 => query.group \in 1..CountGroups

LastQueryOK ==
    /\ query.kind \in {"none", "rating", "last", "lastRps", "lastAnswer"}
    /\ query.kind = "last" =>
        /\ query.result.tests \in Seq(TestTx)
        /\ <<query.node, query.result.day>> \in DOMAIN db.rps
        /\ Begins(Rps(query.result.tests), db.rps[<<query.node, query.result.day>>])
    /\ query.kind = "lastRps" /\ query.element # EmptyElement =>
        /\ query.day = query.today
        /\ <<query.node, query.day>> \in DOMAIN db.rps
        /\ \E i \in 1..Len(db.rps[<<query.node, query.day>>]) :
            db.rps[<<query.node, query.day>>][i] = query.element.rps
    /\ LastResultOfToday

NtInv == TablesOK /\ RatingOK /\ LastQueryOK

(***************************************************************************)
(* The tests of a block.                                                   *)
(***************************************************************************)

\* Of a transaction of a kind.
LEMMA TxOfKind ==
    ASSUME NEW b \in Block, NEW x
    PROVE  \A i \in OfKind(b, "test", x) : b.txs[i] \in TestTx
<1> SUFFICES ASSUME NEW i \in OfKind(b, "test", x) PROVE b.txs[i] \in TestTx
  OBVIOUS
<1>1. i \in DOMAIN b.txs /\ b.txs[i].kind = "test"
  BY DEF OfKind
<1>2. b.txs \in Seq(TestTx \cup ValueTx \cup [kind : {"unreadable"}])
  BY DEF Block
<1>3. b.txs[i] \in TestTx \cup ValueTx \cup [kind : {"unreadable"}]
  BY <1>1, <1>2
<1>4. \A t \in ValueTx \cup [kind : {"unreadable"}] : t.kind # "test"
  BY DEF ValueTx
<1> QED
  BY <1>1, <1>3, <1>4

\* The tests of a node are listed, if there are any.
LEMMA TestsFacts ==
    ASSUME NEW b \in Block, NEW x \in Node
    PROVE  /\ TestsIn(b, x) \in Seq(TestTx)
           /\ TestsIn(b, x) # <<>> <=> x \in TestedIn(b)
<1>1. b.txs \in Seq(TestTx \cup ValueTx \cup [kind : {"unreadable"}])
  BY DEF Block
<1>2. PICK n \in Nat : n = Len(b.txs) /\ DOMAIN b.txs = 1..n
  BY <1>1
<1>3. OfKind(b, "test", x) \subseteq 0..n
  BY <1>2 DEF OfKind
<1>4. PICK f, S : f = b.txs /\ S = OfKind(b, "test", x)
  OBVIOUS
<1>5. \A i \in S : f[i] \in TestTx
  BY <1>4, TxOfKind
<1>6. Listed(f, S) \in Seq(TestTx) /\ (Listed(f, S) = <<>> <=> S = {})
  BY <1>3, <1>4, <1>5, ListedFacts
<1> QED
  BY <1>4, <1>6 DEF TestsIn, TestedIn, KeysOfKind

\* The results of tests are listed with the tests.
LEMMA RpsFacts ==
    ASSUME NEW s \in Seq(TestTx), NEW t \in Seq(TestTx)
    PROVE  /\ Rps(s) \in Seq(Nat) /\ Len(Rps(s)) = Len(s)
           /\ Rps(s) = <<>> <=> s = <<>>
           /\ Rps(s \o t) = Rps(s) \o Rps(t)
<1>1. \A u \in Seq(TestTx) :
        /\ Rps(u) \in Seq(Nat) /\ Len(Rps(u)) = Len(u)
        /\ \A i \in 1..Len(u) : Rps(u)[i] = u[i].rps
  <2> TAKE u \in Seq(TestTx)
  <2>1. PICK n \in Nat : n = Len(u) /\ DOMAIN u = 1..n
    OBVIOUS
  <2>2. \A i \in 1..n : u[i] \in TestTx
    BY <2>1
  <2>3. \A e \in TestTx : e.rps \in Nat
    BY DEF TestTx
  <2>4. Rps(u) = [i \in 1..n |-> u[i].rps]
    BY <2>1 DEF Rps
  <2>5. Rps(u) \in [1..n -> Nat]
    BY <2>2, <2>3, <2>4
  <2> QED
    BY <2>1, <2>4, <2>5
<1>2. s \o t \in Seq(TestTx)
  OBVIOUS
<1>3. Rps(s) = <<>> <=> s = <<>>
  <2>1. Len(Rps(s)) = Len(s) /\ Rps(s) \in Seq(Nat)
    BY <1>1
  <2>2. Rps(s) = <<>> <=> Len(Rps(s)) = 0
    BY <2>1
  <2>3. s = <<>> <=> Len(s) = 0
    OBVIOUS
  <2> QED
    BY <2>1, <2>2, <2>3
<1>4. Rps(s \o t) = Rps(s) \o Rps(t)
  <2>1. PICK a, b, c : a = Rps(s) /\ b = Rps(t) /\ c = Rps(s \o t)
    OBVIOUS
  <2>2. PICK m \in Nat, n \in Nat : m = Len(s) /\ n = Len(t)
    OBVIOUS
  <2>3. /\ a \in Seq(Nat) /\ Len(a) = m /\ b \in Seq(Nat) /\ Len(b) = n
    BY <1>1, <2>1, <2>2
  <2>4. Len(s \o t) = m + n
    BY <2>2
  <2>5. c \in Seq(Nat) /\ Len(c) = m + n
    BY <1>1, <1>2, <2>1, <2>4
  <2>6. PICK u : u = a \o b
    OBVIOUS
  <2>7. /\ u \in Seq(Nat) /\ Len(u) = m + n
        /\ \A i \in 1..(m + n) : u[i] = IF i <= m THEN a[i] ELSE b[i - m]
    BY <2>3, <2>6, ConcatProperties
  <2>8. PICK v : v = s \o t
    OBVIOUS
  <2>9. \A i \in 1..(m + n) : v[i] = IF i <= m THEN s[i] ELSE t[i - m]
    BY <2>2, <2>8
  <2>10. /\ \A i \in 1..m : a[i] = s[i].rps
         /\ \A i \in 1..n : b[i] = t[i].rps
         /\ \A i \in 1..(m + n) : c[i] = v[i].rps
    BY <1>1, <1>2, <2>1, <2>2, <2>4, <2>8
  <2>11. ASSUME NEW i \in 1..(m + n) PROVE c[i] = u[i]
    <3>1. CASE i <= m
      <4>1. i \in 1..m
        BY <3>1
      <4> QED
        BY <2>7, <2>9, <2>10, <3>1, <4>1
    <3>2. CASE ~(i <= m)
      <4>1. i - m \in 1..n
        BY <3>2
      <4> QED
        BY <2>7, <2>9, <2>10, <3>2, <4>1
    <3> QED
      BY <3>1, <3>2
  <2>12. c = u
    BY <2>5, <2>7, <2>11
  <2> QED
    BY <2>1, <2>6, <2>12
<1> QED
  BY <1>1, <1>3, <1>4

(***************************************************************************)
(* The days of the written blocks.                                         *)
(***************************************************************************)

\* The chain and the numbers of the written blocks.
LEMMA ChainFacts ==
    ASSUME AppliedOK
    PROVE  /\ chain \in Seq(Block) /\ Len(chain) \in Nat /\ Len(chain) < SizeModulus
           /\ DOMAIN chain = 1..Len(chain) /\ \A n \in 1..Len(chain) : chain[n] \in Block
           /\ applied \subseteq 1..Len(chain) /\ applied \subseteq Nat
           /\ \A n \in applied : n <= db.number
           /\ db.number \in Nat
<1>1. chain \in Seq(Block) /\ Len(chain) < SizeModulus
  BY NodeTestsAssumption DEF AppliedOK
<1>2. Len(chain) \in Nat /\ DOMAIN chain = 1..Len(chain)
  BY <1>1
<1>3. \A n \in 1..Len(chain) : chain[n] \in Block
  BY <1>1
<1>4. db.number \in 0..Len(chain) /\ applied \subseteq 1..db.number
  BY DEF AppliedOK
<1> QED
  BY <1>1, <1>2, <1>3, <1>4

\* The state blocks among the written blocks before block n.
DayEnds(n) == {m \in applied : m < n /\ chain[m].state}

\* A day is a number, not larger than the number of blocks.
LEMMA DayFacts ==
    ASSUME AppliedOK, NEW n
    PROVE  /\ IsFiniteSet(DayEnds(n)) /\ DayOf(n) = Cardinality(DayEnds(n))
           /\ DayOf(n) \in 0..Len(chain)
<1>1. DayEnds(n) \subseteq 1..Len(chain)
  BY ChainFacts DEF DayEnds
<1>2. PICK k \in Nat : k = Len(chain)
  BY ChainFacts
<1>3. IsFiniteSet(1..k) /\ Cardinality(1..k) = k
  BY FS_Interval
<1>4. IsFiniteSet(DayEnds(n)) /\ Cardinality(DayEnds(n)) <= k
  BY <1>1, <1>2, <1>3, FS_Subset
<1>5. Cardinality(DayEnds(n)) \in Nat
  BY <1>4, FS_CardinalityType
<1>6. DayOf(n) = Cardinality(DayEnds(n))
  BY DEF DayOf, DayEnds
<1> QED
  BY <1>2, <1>4, <1>5, <1>6

\* What the blocks say about a node on a day, block by block.
Parts(x, d) ==
    [n \in DOMAIN chain |->
        IF n \in applied /\ DayOf(n) = d THEN TestsIn(chain[n], x) ELSE <<>>]

\* The parts are sequences of tests, and the tests of the day are them in a row.
LEMMA PartsFacts ==
    ASSUME AppliedOK, NEW x \in Node, NEW d
    PROVE  /\ Parts(x, d) \in Seq(Seq(TestTx)) /\ Len(Parts(x, d)) = Len(chain)
           /\ DayTests(x, d) = FlattenSeq(Parts(x, d))
<1>1. \A n \in 1..Len(chain) : TestsIn(chain[n], x) \in Seq(TestTx)
  BY ChainFacts, TestsFacts
<1>2. PICK k \in Nat : k = Len(chain)
  BY ChainFacts
<1>3. PICK V : V = Seq(TestTx)
  OBVIOUS
<1>4. \A n \in 1..k : Parts(x, d)[n] \in V
  <2>1. <<>> \in V
    BY <1>3
  <2> QED
    BY <1>1, <1>2, <1>3, <2>1, ChainFacts DEF Parts
<1>5. PICK p : p = Parts(x, d)
  OBVIOUS
<1>6. p \in [1..k -> V]
  BY <1>2, <1>4, <1>5, ChainFacts DEF Parts
<1>7. p \in Seq(V) /\ Len(p) = k
  BY <1>6
<1>8. DayTests(x, d) = FlattenSeq(Parts(x, d))
  BY DEF DayTests, Parts
<1> QED
  BY <1>2, <1>3, <1>5, <1>7, <1>8

\* The tests of a node on a day.
LEMMA DayTestsType ==
    ASSUME AppliedOK, NEW x \in Node, NEW d
    PROVE  DayTests(x, d) \in Seq(TestTx)
BY PartsFacts, FlattenType

\* Block n is the next one that is written.
Adds(n) ==
    /\ n \in 1..Len(chain) /\ n > db.number
    /\ chain' = chain /\ applied' = applied \cup {n} /\ db'.number = n

\* A new block leaves the blocks before it in their days, and is itself in the
\* present one.
LEMMA DaysStay ==
    ASSUME AppliedOK, AppliedOK', DayOK, NEW n, Adds(n)
    PROVE  /\ n \notin applied /\ \A m \in applied : m < n
           /\ \A m \in applied : DayOf(m)' = DayOf(m)
           /\ DayOf(n)' = db.day
           /\ DayOf(Len(chain) + 1)' = IF chain[n].state THEN db.day + 1 ELSE db.day
<1>1. n \in Nat /\ n \in 1..Len(chain) /\ chain' = chain /\ applied' = applied \cup {n}
  BY ChainFacts DEF Adds
<1>2. n \notin applied /\ \A m \in applied : m \in Nat /\ m < n
  BY ChainFacts DEF Adds
<1>3. DayEnds(n)' = DayEnds(n)
  <2>1. ~(n < n)
    BY <1>1
  <2> QED
    BY <1>1, <2>1 DEF DayEnds
<1>4. \A m \in applied : DayEnds(m)' = DayEnds(m)
  <2>1. \A m \in applied : ~(n < m)
    BY <1>1, <1>2
  <2> QED
    BY <1>1, <2>1 DEF DayEnds
<1>5. PICK e \in Nat : e = Len(chain) + 1
  BY ChainFacts
<1>6. \A m \in applied \cup {n} : m < e
  BY <1>1, <1>5, ChainFacts
<1>7. DayEnds(n) = DayEnds(e)
  BY <1>2, <1>6 DEF DayEnds
<1>8. DayEnds(e)' = IF chain[n].state THEN DayEnds(e) \cup {n} ELSE DayEnds(e)
  BY <1>1, <1>6 DEF DayEnds
<1>9. db.day = Cardinality(DayEnds(e)) /\ IsFiniteSet(DayEnds(e)) /\ n \notin DayEnds(e)
  BY <1>2, <1>5, DayFacts DEF DayOK, DayEnds
<1>10. Cardinality(DayEnds(e) \cup {n}) = Cardinality(DayEnds(e)) + 1
  BY <1>9, FS_AddElement
<1>11. \A m : DayOf(m)' = Cardinality(DayEnds(m)') /\ DayOf(m) = Cardinality(DayEnds(m))
  BY DEF DayOf, DayEnds
<1>12. DayOf(n)' = db.day
  BY <1>3, <1>7, <1>9, <1>11
<1>13. DayOf(e)' = IF chain[n].state THEN db.day + 1 ELSE db.day
  BY <1>8, <1>9, <1>10, <1>11
<1>14. DayOf(Len(chain) + 1)' = DayOf(e)'
  BY <1>1, <1>5 DEF DayOf
<1> QED
  BY <1>2, <1>4, <1>11, <1>12, <1>13, <1>14

\* Its tests are put behind those of the present day, and of no other.
LEMMA TestsGrow ==
    ASSUME AppliedOK, AppliedOK', DayOK, NEW n, Adds(n), NEW x \in Node, NEW d
    PROVE  DayTests(x, d)' =
            DayTests(x, d) \o (IF d = db.day THEN TestsIn(chain[n], x) ELSE <<>>)
<1>1. n \in 1..Len(chain) /\ chain' = chain /\ applied' = applied \cup {n}
  BY DEF Adds
<1>2. PICK k \in Nat : k = Len(chain) /\ DOMAIN chain = 1..k
  BY ChainFacts
<1>3. PICK s, t : s = Parts(x, d) /\ t = Parts(x, d)'
  OBVIOUS
<1>4. /\ s \in Seq(Seq(TestTx)) /\ Len(s) = k
      /\ DayTests(x, d) = FlattenSeq(s)
  BY <1>2, <1>3, PartsFacts
<1>5. /\ t \in Seq(Seq(TestTx)) /\ Len(t) = k
      /\ DayTests(x, d)' = FlattenSeq(t)
  <2>1. Parts(x, d)' \in Seq(Seq(TestTx))
    <3>1. \A m \in 1..k : TestsIn(chain[m], x) \in Seq(TestTx)
      BY <1>2, ChainFacts, TestsFacts
    <3>2. PICK V : V = Seq(TestTx)
      OBVIOUS
    <3>3. <<>> \in V
      BY <3>2
    <3>4. t = [m \in 1..k |-> IF m \in applied \cup {n} /\ DayOf(m)' = d
                              THEN TestsIn(chain[m], x) ELSE <<>>]
      BY <1>1, <1>2, <1>3 DEF Parts
    <3>5. t \in [1..k -> V]
      BY <3>1, <3>2, <3>3, <3>4
    <3>6. t \in Seq(V)
      BY <3>5
    <3> QED
      BY <1>3, <3>2, <3>6
  <2>2. DOMAIN t = 1..k
    BY <1>1, <1>2, <1>3 DEF Parts
  <2>3. Len(t) = k
    BY <1>3, <2>1, <2>2
  <2>4. DayTests(x, d)' = FlattenSeq(t)
    BY <1>3 DEF DayTests, Parts
  <2> QED
    BY <1>3, <2>1, <2>3, <2>4
<1>6. \A i \in 1..k :
        /\ s[i] = IF i \in applied /\ DayOf(i) = d THEN TestsIn(chain[i], x) ELSE <<>>
        /\ t[i] = IF i \in applied \cup {n} /\ DayOf(i)' = d
                  THEN TestsIn(chain[i], x) ELSE <<>>
  BY <1>1, <1>2, <1>3 DEF Parts
<1>7. \A i \in n..k : s[i] = <<>>
  <2>1. \A i \in n..k : i \in 1..k /\ i \notin applied
    BY <1>1, <1>2, DaysStay, ChainFacts
  <2> QED
    BY <1>6, <2>1
<1>8. \A i \in 1..k : i # n => t[i] = s[i]
  BY <1>6, DaysStay
<1>9. t[n] = IF d = db.day THEN TestsIn(chain[n], x) ELSE <<>>
  BY <1>1, <1>2, <1>6, DaysStay
<1>10. FlattenSeq(t) = FlattenSeq(s) \o t[n]
  <2>1. n \in 1..k
    BY <1>1, <1>2
  <2> QED
    BY <1>4, <1>5, <1>7, <1>8, <2>1, FlattenGrow
<1> QED
  BY <1>4, <1>5, <1>9, <1>10

(***************************************************************************)
(* A block is written.                                                     *)
(***************************************************************************)

\* The tables after block n.
RpsAfter(n) ==
    db'.rps = [k \in DOMAIN db.rps \cup (TestedIn(chain[n]) \X {db.day}) |->
                Lookup(db.rps, k, <<>>)
                    \o (IF k \in TestedIn(chain[n]) \X {db.day}
                        THEN RpsIn(chain[n], k[1]) ELSE <<>>)]

LastAfter(n) ==
    db'.last = [x \in DOMAIN db.last \cup TestedIn(chain[n]) |->
                IF x \in TestedIn(chain[n])
                THEN AddElements(Lookup(db.last, x, EmptyResult), TestsIn(chain[n], x),
                                 db.day)
                ELSE db.last[x]]

TestedAfter(n) ==
    db'.tested = IF TestedIn(chain[n]) = {} THEN db.tested
                 ELSE Update(db.tested, db.day,
                             Lookup(db.tested, db.day, {}) \cup TestedIn(chain[n]))

KeysAfter(n) ==
    /\ db'.names = PlusNodes(db.names, chain[n])
    /\ db'.trust = [x \in DOMAIN db.trust \cup Trusted(chain[n]) |->
                    IF x \in Trusted(chain[n]) THEN LastOfKind(chain[n], "trust", x)
                    ELSE db.trust[x]]

Writes(n) ==
    /\ Adds(n)
    /\ db'.day = IF chain[n].state THEN db.day + 1 ELSE db.day
    /\ RpsAfter(n) /\ LastAfter(n) /\ TestedAfter(n) /\ KeysAfter(n)
    /\ query' = query

\* Work writes the next block, on top of the last one or as the first.
LEMMA WorkWrites ==
    ASSUME AppliedOK, Work
    PROVE  AppliedOK' /\ \E n : Writes(n)
<1>1. PICK n \in 1..Len(chain) : queue = <<n>>
  BY DEF AppliedOK, Work
<1>2. /\ Fits(n) /\ db' = Written(n) /\ applied' = applied \cup {n} /\ queue' = <<>>
      /\ UNCHANGED <<chain, fed, query>>
  BY <1>1 DEF Work
<1>3. db'.number = n
  BY <1>2 DEF Written
<1>4. db'.day = IF chain[n].state THEN db.day + 1 ELSE db.day
  BY <1>2 DEF Written
<1>5. RpsAfter(n)
  BY <1>2 DEF Written, RpsAfter, TestDay
<1>6. LastAfter(n)
  BY <1>2 DEF Written, LastAfter, TestDay
<1>7. TestedAfter(n)
  BY <1>2 DEF Written, TestedAfter, TestDay
<1>8. KeysAfter(n)
  BY <1>2 DEF Written, KeysAfter
<1>9. Adds(n)
  BY <1>2, <1>3 DEF Adds, Fits
<1>10. n \in Nat /\ Len(chain) \in Nat /\ db.number \in Nat
  BY ChainFacts
<1>11. NoGaps'
  <2> SUFFICES ASSUME NEW a \in applied \cup {n}, NEW b \in applied \cup {n}, NEW k \in a..b
               PROVE  k \in applied \cup {n}
    BY <1>2 DEF NoGaps
  <2>1. \A m \in applied : m \in Nat /\ m <= db.number
    BY ChainFacts
  <2>2. CASE db.number = 0
    <3>1. applied = {}
      BY <2>2 DEF AppliedOK
    <3> QED
      BY <1>10, <3>1
  <2>3. CASE db.number # 0
    <3>1. n = db.number + 1 /\ db.number \in applied
      BY <1>2, <2>3 DEF Fits, AppliedOK
    <3>2. \A m \in applied : \A j \in m..db.number : j \in applied
      BY <3>1 DEF AppliedOK, NoGaps
    <3>3. CASE a = n
      <4>1. b <= n /\ b \in Nat
        BY <1>10, <2>1, <3>1
      <4> QED
        BY <1>10, <3>3, <4>1
    <3>4. CASE a \in applied
      <4>1. a \in Nat /\ b \in Nat /\ b <= n
        BY <1>10, <2>1, <3>1, <3>4
      <4>2. k = n \/ k \in a..db.number
        BY <1>10, <3>1, <4>1
      <4> QED
        BY <3>2, <3>4, <4>2
    <3> QED
      BY <3>3, <3>4
  <2> QED
    BY <2>2, <2>3
<1>12. applied \cup {n} \subseteq 1..n
  BY <1>9, <1>10, ChainFacts DEF Adds
<1>13. AppliedOK'
  <2>1. chain' \in Chains /\ fed' \in 0..Len(chain') /\ queue' = <<>>
    BY <1>2 DEF AppliedOK
  <2>2. db'.number \in 0..Len(chain') /\ applied' \subseteq 1..db'.number
    BY <1>2, <1>3, <1>10, <1>12
  <2>3. db'.number \in applied'
    BY <1>2, <1>3
  <2> QED
    BY <1>11, <2>1, <2>2, <2>3 DEF AppliedOK
<1>14. Writes(n)
  BY <1>2, <1>4, <1>5, <1>6, <1>7, <1>8, <1>9 DEF Writes
<1> QED
  BY <1>13, <1>14

\* The results on the present day grow where the node was tested.
LEMMA Grown ==
    ASSUME TablesOK, AppliedOK', NEW n, Adds(n)
    PROVE  /\ chain[n] \in Block /\ TestedIn(chain[n]) \subseteq Node
           /\ db.day \in Nat
           /\ \A x \in Node, d \in Nat :
                DayTests(x, d)' = IF d = db.day
                                  THEN DayTests(x, d) \o TestsIn(chain[n], x)
                                  ELSE DayTests(x, d)
           /\ \A x \in Node, d \in Nat :
                DayTests(x, d)' # <<>> <=>
                    DayTests(x, d) # <<>> \/ (d = db.day /\ x \in TestedIn(chain[n]))
           /\ \A x \in Node, d \in Nat :
                x \notin TestedIn(chain[n]) => DayTests(x, d)' = DayTests(x, d)
<1>1. AppliedOK /\ DayOK
  BY DEF TablesOK
<1>2. chain[n] \in Block /\ TestedIn(chain[n]) \subseteq Node
  BY <1>1, ChainFacts DEF Adds, TestedIn, KeysOfKind
<1>3. db.day \in Nat
  BY <1>1, DayFacts, ChainFacts DEF DayOK
<1>4. ASSUME NEW x \in Node, NEW d \in Nat
      PROVE  /\ DayTests(x, d)' = IF d = db.day
                                  THEN DayTests(x, d) \o TestsIn(chain[n], x)
                                  ELSE DayTests(x, d)
             /\ DayTests(x, d)' # <<>> <=>
                    DayTests(x, d) # <<>> \/ (d = db.day /\ x \in TestedIn(chain[n]))
             /\ x \notin TestedIn(chain[n]) => DayTests(x, d)' = DayTests(x, d)
  <2>1. DayTests(x, d)' =
          DayTests(x, d) \o (IF d = db.day THEN TestsIn(chain[n], x) ELSE <<>>)
    BY <1>1, TestsGrow
  <2>2. PICK s, t : s = DayTests(x, d) /\ t = TestsIn(chain[n], x)
    OBVIOUS
  <2>3. s \in Seq(TestTx) /\ t \in Seq(TestTx) /\ (t # <<>> <=> x \in TestedIn(chain[n]))
    BY <1>1, <1>2, <2>2, DayTestsType, TestsFacts
  <2>4. s \o <<>> = s /\ (s \o t = <<>> <=> s = <<>> /\ t = <<>>)
    BY <2>3
  <2>5. DayTests(x, d)' = IF d = db.day THEN s \o t ELSE s
    BY <2>1, <2>2, <2>4
  <2> QED
    BY <2>2, <2>3, <2>4, <2>5
<1> QED
  BY <1>2, <1>3, <1>4

\* The day after a block.
LEMMA DayWritten ==
    ASSUME TablesOK, AppliedOK', NEW n, Writes(n)
    PROVE  DayOK' /\ db.day \in Nat /\ db'.day \in Nat /\ db'.day >= db.day
<1>1. Adds(n) /\ db'.day = IF chain[n].state THEN db.day + 1 ELSE db.day
  BY DEF Writes
<1>2. AppliedOK /\ DayOK /\ chain' = chain
  BY <1>1 DEF TablesOK, Adds
<1>3. db.day \in Nat /\ db'.day \in Nat /\ db'.day >= db.day
  BY <1>1, Grown
<1>4. db'.day = DayOf(Len(chain) + 1)'
  BY <1>1, <1>2, DaysStay
<1>5. ASSUME NEW x \in Node, NEW d \in Nat, d > db'.day PROVE DayTests(x, d)' = <<>>
  <2>1. d > db.day /\ d # db.day
    BY <1>3, <1>5
  <2>2. DayTests(x, d) = <<>>
    BY <1>2, <2>1 DEF DayOK
  <2> QED
    BY <1>1, <2>1, <2>2, Grown
<1> QED
  BY <1>3, <1>4, <1>5 DEF DayOK

\* What is found under a key that may be missing.
LEMMA RpsFound ==
    ASSUME AppliedOK, RpsOK, NEW k \in Node \X Nat
    PROVE  /\ Lookup(db.rps, k, <<>>) = Rps(DayTests(k[1], k[2]))
           /\ DayTests(k[1], k[2]) \in Seq(TestTx)
<1>1. DayTests(k[1], k[2]) \in Seq(TestTx)
  BY DayTestsType
<1>2. CASE k \in DOMAIN db.rps
  BY <1>1, <1>2 DEF RpsOK, Lookup
<1>3. CASE k \notin DOMAIN db.rps
  <2>1. DayTests(k[1], k[2]) = <<>>
    BY <1>3 DEF RpsOK
  <2>2. Rps(<<>>) = <<>>
    BY RpsFacts, EmptySeq
  <2> QED
    BY <1>1, <1>3, <2>1, <2>2 DEF Lookup
<1> QED
  BY <1>2, <1>3

\* The results after a block are those of its days.
LEMMA RpsWritten ==
    ASSUME TablesOK, AppliedOK', NEW n, Writes(n)
    PROVE  RpsOK'
<1>1. Adds(n) /\ RpsAfter(n)
  BY DEF Writes
<1>2. AppliedOK /\ RpsOK
  BY DEF TablesOK
<1>0. PICK T : T = TestedIn(chain[n]) /\ T \subseteq Node
  BY <1>1, Grown
<1>3. PICK day \in Nat : T = TestedIn(chain[n]) /\ day = db.day /\ T \subseteq Node
  BY <1>1, <1>0, Grown
<1>4. PICK D : D = T \X {day}
  OBVIOUS
<1>5. \A k \in Node \X Nat : k \in D <=> k[1] \in T /\ k[2] = day
  BY <1>3, <1>4
<1>6. db'.rps = [k \in DOMAIN db.rps \cup D |->
                    Lookup(db.rps, k, <<>>)
                        \o (IF k \in D THEN RpsIn(chain[n], k[1]) ELSE <<>>)]
  BY <1>1, <1>3, <1>4 DEF RpsAfter
<1>7. \A k \in Node \X Nat :
        k \in DOMAIN db.rps \cup D <=> DayTests(k[1], k[2])' # <<>>
  <2> TAKE k \in Node \X Nat
  <2>1. k[1] \in Node /\ k[2] \in Nat
    OBVIOUS
  <2>2. k \in DOMAIN db.rps <=> DayTests(k[1], k[2]) # <<>>
    BY <1>2 DEF RpsOK
  <2>3. DayTests(k[1], k[2])' # <<>> <=>
            DayTests(k[1], k[2]) # <<>> \/ (k[2] = day /\ k[1] \in T)
    BY <1>1, <1>3, <2>1, Grown
  <2> QED
    BY <1>5, <2>2, <2>3
<1>8. DOMAIN db.rps \cup D \subseteq Node \X Nat
  BY <1>2, <1>3, <1>4 DEF RpsOK
<1>9. DOMAIN db'.rps = {k \in Node \X Nat : DayTests(k[1], k[2])' # <<>>}
  BY <1>6, <1>7, <1>8
<1>10. ASSUME NEW k \in DOMAIN db'.rps PROVE db'.rps[k] = Rps(DayTests(k[1], k[2])')
  <2>1. k \in DOMAIN db.rps \cup D /\ k \in Node \X Nat /\ k[1] \in Node /\ k[2] \in Nat
    BY <1>6, <1>8, <1>10
  <2>2. PICK s \in Seq(TestTx) : s = DayTests(k[1], k[2]) /\ Lookup(db.rps, k, <<>>) = Rps(s)
    BY <1>2, <2>1, RpsFound
  <2>3. PICK t \in Seq(TestTx) : t = TestsIn(chain[n], k[1])
    BY <1>1, <2>1, Grown, TestsFacts
  <2>4. RpsIn(chain[n], k[1]) = Rps(t)
    BY <2>3 DEF RpsIn, Rps
  <2>5. db'.rps[k] = Rps(s) \o (IF k \in D THEN Rps(t) ELSE <<>>)
    BY <1>6, <2>1, <2>2, <2>4
  <2>6. CASE k \in D
    <3>1. DayTests(k[1], k[2])' = s \o t
      BY <1>1, <1>3, <1>5, <2>1, <2>2, <2>3, <2>6, Grown
    <3> QED
      BY <2>5, <2>6, <3>1, RpsFacts
  <2>7. CASE k \notin D
    <3>1. DayTests(k[1], k[2])' = s
      <4>1. CASE k[2] = day
        <5>1. k[1] \notin T
          BY <1>5, <2>1, <2>7, <4>1
        <5> QED
          BY <1>1, <1>3, <2>1, <2>2, <5>1, Grown
      <4>2. CASE k[2] # day
        BY <1>1, <1>3, <2>1, <2>2, <4>2, Grown
      <4> QED
        BY <4>1, <4>2
    <3>2. Rps(s) \o <<>> = Rps(s)
      <4>1. Rps(s) \in Seq(Nat)
        BY RpsFacts
      <4> QED
        BY <4>1, ConcatEmptySeq
    <3> QED
      BY <2>5, <2>7, <3>1, <3>2
  <2> QED
    BY <2>6, <2>7
<1> QED
  BY <1>9, <1>10 DEF RpsOK, Rps

\* So are the nodes that were tested.
LEMMA TestedWritten ==
    ASSUME TablesOK, AppliedOK', NEW n, Writes(n)
    PROVE  TestedOK'
<1>1. Adds(n) /\ TestedAfter(n)
  BY DEF Writes
<1>2. TestedOK
  BY DEF TablesOK
<1>0. PICK T : T = TestedIn(chain[n]) /\ T \subseteq Node
  BY <1>1, Grown
<1>3. PICK day \in Nat : T = TestedIn(chain[n]) /\ day = db.day /\ T \subseteq Node
  BY <1>1, <1>0, Grown
<1>4. \A x \in Node, d \in Nat :
        DayTests(x, d)' # <<>> <=> DayTests(x, d) # <<>> \/ (d = day /\ x \in T)
  BY <1>1, <1>3, Grown
<1>5. CASE T = {}
  <2>1. db'.tested = db.tested
    BY <1>1, <1>3, <1>5 DEF TestedAfter
  <2>2. \A x \in Node, d \in Nat : DayTests(x, d)' # <<>> <=> DayTests(x, d) # <<>>
    BY <1>4, <1>5
  <2> QED
    BY <1>2, <2>1, <2>2 DEF TestedOK
<1>6. CASE T # {}
  <2>1. PICK old : old = Lookup(db.tested, day, {})
    OBVIOUS
  <2>2. old = {x \in Node : DayTests(x, day) # <<>>}
    BY <1>2, <2>1 DEF TestedOK, Lookup
  <2>3. db'.tested = [d \in DOMAIN db.tested \cup {day} |->
                        IF d = day THEN old \cup T ELSE db.tested[d]]
    BY <1>1, <1>3, <1>6, <2>1 DEF TestedAfter, Update
  <2>4. DOMAIN db'.tested = {d \in Nat : \E x \in Node : DayTests(x, d)' # <<>>}
    BY <1>2, <1>3, <1>4, <1>6, <2>3 DEF TestedOK
  <2>5. ASSUME NEW d \in DOMAIN db'.tested
        PROVE  db'.tested[d] = {x \in Node : DayTests(x, d)' # <<>>}
    <3>1. d \in Nat /\ d \in DOMAIN db.tested \cup {day}
      BY <2>3, <2>4
    <3>2. CASE d = day
      BY <1>3, <1>4, <2>2, <2>3, <3>1, <3>2
    <3>3. CASE d # day
      BY <1>2, <1>4, <2>3, <3>1, <3>3 DEF TestedOK
    <3> QED
      BY <3>2, <3>3
  <2> QED
    BY <2>4, <2>5 DEF TestedOK
<1> QED
  BY <1>5, <1>6

\* And the last results: an older day is given up, the present one continued.
LEMMA LastWritten ==
    ASSUME TablesOK, AppliedOK', NEW n, Writes(n)
    PROVE  LastOK'
<1>1. Adds(n) /\ LastAfter(n)
  BY DEF Writes
<1>2. LastOK /\ DayOK
  BY DEF TablesOK
<1>3. PICK T : T = TestedIn(chain[n]) /\ T \subseteq Node
  BY <1>1, Grown
<1>4. PICK day \in Nat : day = db.day
  BY <1>1, Grown
<1>5. \A x \in Node, d \in Nat :
        DayTests(x, d)' # <<>> <=> DayTests(x, d) # <<>> \/ (d = day /\ x \in T)
  BY <1>1, <1>3, <1>4, Grown
<1>6. db'.last = [x \in DOMAIN db.last \cup T |->
                    IF x \in T
                    THEN AddElements(Lookup(db.last, x, EmptyResult), TestsIn(chain[n], x), day)
                    ELSE db.last[x]]
  BY <1>1, <1>3, <1>4 DEF LastAfter
<1>7. DOMAIN db'.last = {x \in Node : \E d \in Nat : DayTests(x, d)' # <<>>}
  BY <1>2, <1>3, <1>5, <1>6 DEF LastOK, IsLast
<1>8. ASSUME NEW x \in DOMAIN db'.last
      PROVE  \E last : IsLast(x, last)' /\ db'.last[x] = last
  <2>1. x \in Node /\ x \in DOMAIN db.last \cup T
    BY <1>6, <1>7
  <2>2. CASE x \in T
    <3>1. PICK old : old = Lookup(db.last, x, EmptyResult)
      OBVIOUS
    <3>2. PICK t : t = TestsIn(chain[n], x)
      OBVIOUS
    <3>3. PICK s \in Seq(TestTx) : s = DayTests(x, day)
      BY <2>1, DayTestsType DEF TablesOK
    <3>4. (IF old.day = day THEN old.tests ELSE <<>>) = s
      <4>1. CASE x \in DOMAIN db.last
        <5>1. old = db.last[x] /\ old.day \in Nat
          BY <1>2, <3>1, <4>1 DEF Lookup, LastOK, IsLast
        <5>2. ~(old.day > day)
          <6>1. DayTests(x, old.day) # <<>>
            BY <1>2, <4>1, <5>1 DEF LastOK, IsLast
          <6> QED
            BY <1>2, <1>4, <2>1, <5>1, <6>1 DEF DayOK
        <5>3. CASE old.day = day
          BY <1>2, <3>3, <4>1, <5>1, <5>3 DEF LastOK, IsLast
        <5>4. CASE old.day # day
          <6>1. day > old.day
            BY <5>1, <5>2, <5>4
          <6> QED
            BY <1>2, <3>3, <4>1, <5>1, <5>4, <6>1 DEF LastOK, IsLast
        <5> QED
          BY <5>3, <5>4
      <4>2. CASE x \notin DOMAIN db.last
        <5>1. s = <<>>
          BY <1>2, <2>1, <3>3, <4>2 DEF LastOK, IsLast
        <5>2. old.tests = <<>>
          BY <3>1, <4>2 DEF Lookup, EmptyResult
        <5> QED
          BY <5>1, <5>2
      <4> QED
        BY <4>1, <4>2
    <3>5. PICK last : last = db'.last[x]
      OBVIOUS
    <3>6. last.day = day /\ last.tests = s \o t
      <4>1. last = AddElements(old, t, day)
        BY <1>6, <2>1, <2>2, <3>1, <3>2, <3>5
      <4> QED
        BY <3>4, <4>1 DEF AddElements
    <3>7. DayTests(x, day)' = s \o t
      BY <1>1, <1>4, <2>1, <3>2, <3>3, Grown
    <3>8. s \o t # <<>>
      BY <1>5, <2>1, <2>2, <3>7
    <3>9. \A d \in Nat : d > day => DayTests(x, d)' = <<>>
      <4>1. \A d \in Nat : d > day => DayTests(x, d) = <<>> /\ d # day
        BY <1>2, <1>4, <2>1 DEF DayOK
      <4> QED
        BY <1>5, <2>1, <4>1
    <3> QED
      BY <3>5, <3>6, <3>7, <3>8, <3>9 DEF IsLast
  <2>3. CASE x \notin T
    <3>1. db'.last[x] = db.last[x] /\ x \in DOMAIN db.last
      BY <1>6, <2>1, <2>3
    <3>2. \A d \in Nat : DayTests(x, d)' = DayTests(x, d)
      BY <1>1, <1>3, <2>1, <2>3, Grown
    <3>3. PICK last : last = db.last[x] /\ last.day \in Nat
      BY <1>2, <3>1 DEF LastOK, IsLast
    <3>4. last.tests = DayTests(x, last.day)' /\ last.tests # <<>>
      BY <1>2, <3>1, <3>2, <3>3 DEF LastOK, IsLast
    <3>5. \A d \in Nat : d > last.day => DayTests(x, d)' = <<>>
      BY <1>2, <3>1, <3>2, <3>3 DEF LastOK, IsLast
    <3> QED
      BY <3>1, <3>3, <3>4, <3>5 DEF IsLast
  <2> QED
    BY <2>2, <2>3
<1> QED
  BY <1>7, <1>8 DEF LastOK

\* Trust is overwritten, a registration is not.
LEMMA KeysWritten ==
    ASSUME TablesOK, AppliedOK', NEW n, Writes(n)
    PROVE  KeysOK'
<1>1. Adds(n) /\ KeysAfter(n) /\ chain' = chain /\ applied' = applied \cup {n}
  BY DEF Writes, Adds
<1>2. KeysOK /\ AppliedOK
  BY DEF TablesOK
<1>3. n \in Nat /\ \A m \in applied : m \in Nat /\ m < n
  BY <1>1, <1>2, ChainFacts DEF Adds
<1>4. PICK T, R : T = Trusted(chain[n]) /\ R = Registered(chain[n])
  OBVIOUS
<1>5. T \subseteq Node /\ R \subseteq Node
  BY <1>4 DEF Trusted, Registered, KeysOfKind
<1>6. /\ \A x : Trusting(x)' = IF x \in T THEN Trusting(x) \cup {n} ELSE Trusting(x)
      /\ \A x : Registering(x)' = IF x \in R THEN Registering(x) \cup {n} ELSE Registering(x)
  BY <1>1, <1>4 DEF Trusting, Registering
<1>7. \A x : (\A m \in Trusting(x) : m \in applied) /\ (\A m \in Registering(x) : m \in applied)
  BY DEF Trusting, Registering
<1>8. db'.trust = [x \in DOMAIN db.trust \cup T |->
                    IF x \in T THEN LastOfKind(chain[n], "trust", x) ELSE db.trust[x]]
  BY <1>1, <1>4 DEF KeysAfter
<1>9. db'.names = [x \in DOMAIN db.names \cup R |->
                    IF x \in DOMAIN db.names THEN db.names[x]
                    ELSE LastOfKind(chain[n], "register", x)]
  BY <1>1, <1>4 DEF KeysAfter, PlusNodes
<1>10. DOMAIN db'.trust = {x \in Node : Trusting(x)' # {}}
  BY <1>2, <1>5, <1>6, <1>8 DEF KeysOK
<1>11. DOMAIN db'.names = {x \in Node : Registering(x)' # {}}
  BY <1>2, <1>5, <1>6, <1>9 DEF KeysOK
<1>12. ASSUME NEW x \in DOMAIN db'.trust
       PROVE  \E m \in Trusting(x)' :
                /\ \A k \in Trusting(x)' : k <= m
                /\ db'.trust[x] = LastOfKind(chain[m], "trust", x)
  <2>1. CASE x \in T
    <3>1. n \in Trusting(x)' /\ \A k \in Trusting(x)' : k <= n
      BY <1>3, <1>6, <1>7, <2>1
    <3> QED
      BY <1>8, <2>1, <3>1
  <2>2. CASE x \notin T
    <3>1. x \in DOMAIN db.trust /\ db'.trust[x] = db.trust[x] /\ Trusting(x)' = Trusting(x)
      BY <1>6, <1>8, <2>2
    <3> QED
      BY <1>2, <3>1 DEF KeysOK
  <2> QED
    BY <2>1, <2>2
<1>13. ASSUME NEW x \in DOMAIN db'.names
       PROVE  \E m \in Registering(x)' :
                /\ \A k \in Registering(x)' : m <= k
                /\ db'.names[x] = LastOfKind(chain[m], "register", x)
  <2>1. CASE x \in DOMAIN db.names
    <3>1. PICK m \in Registering(x) : /\ \A k \in Registering(x) : m <= k
                                      /\ db.names[x] = LastOfKind(chain[m], "register", x)
      BY <1>2, <2>1 DEF KeysOK
    <3>2. m <= n /\ m \in Registering(x)' /\ \A k \in Registering(x)' : m <= k
      BY <1>3, <1>6, <1>7, <3>1
    <3>3. db'.names[x] = db.names[x]
      BY <1>9, <2>1
    <3> QED
      BY <3>1, <3>2, <3>3
  <2>2. CASE x \notin DOMAIN db.names
    <3>1. x \in R /\ x \in Node
      BY <1>5, <1>9, <2>2
    <3>2. Registering(x)' = {n}
      BY <1>2, <1>6, <2>2, <3>1 DEF KeysOK
    <3>3. db'.names[x] = LastOfKind(chain[n], "register", x)
      BY <1>9, <2>2, <3>1
    <3>4. n <= n
      BY <1>3
    <3> QED
      BY <3>2, <3>3, <3>4
  <2> QED
    BY <2>1, <2>2
<1>14. \A x, m : LastOfKind(chain'[m], "trust", x) = LastOfKind(chain[m], "trust", x)
                 /\ LastOfKind(chain'[m], "register", x) = LastOfKind(chain[m], "register", x)
  BY <1>1
<1> QED
  BY <1>10, <1>11, <1>12, <1>13, <1>14 DEF KeysOK

\* The tables after a block are complete again.
LEMMA TablesWritten ==
    ASSUME TablesOK, AppliedOK', NEW n, Writes(n)
    PROVE  TablesOK'
BY DayWritten, RpsWritten, TestedWritten, LastWritten, KeysWritten DEF TablesOK

\* The other steps leave the blocks and the tables alone.
LEMMA TablesStay ==
    ASSUME TablesOK, UNCHANGED <<chain, applied, db>>,
           queue' \in {<<>>} \cup {<<n>> : n \in 1..Len(chain)}, fed' \in 0..Len(chain)
    PROVE  TablesOK'
<1>1. AppliedOK'
  BY DEF TablesOK, AppliedOK, NoGaps
<1>2. \A n : DayOf(n)' = DayOf(n)
  BY DEF DayOf
<1>3. \A x, d : DayTests(x, d)' = DayTests(x, d)
  BY <1>2 DEF DayTests
<1>4. DayOK'
  BY <1>2, <1>3 DEF TablesOK, DayOK
<1>5. RpsOK'
  BY <1>3 DEF TablesOK, RpsOK
<1>6. TestedOK'
  BY <1>3 DEF TablesOK, TestedOK
<1>7. LastOK'
  <2>1. \A x, last : IsLast(x, last)' <=> IsLast(x, last)
    BY <1>3 DEF IsLast
  <2> QED
    BY <1>3, <2>1 DEF TablesOK, LastOK
<1>8. KeysOK'
  <2>1. \A x : Trusting(x)' = Trusting(x) /\ Registering(x)' = Registering(x)
    BY DEF Trusting, Registering
  <2> QED
    BY <2>1 DEF TablesOK, KeysOK
<1> QED
  BY <1>1, <1>4, <1>5, <1>6, <1>7, <1>8 DEF TablesOK

(***************************************************************************)
(* A query while blocks are written.                                       *)
(***************************************************************************)

\* Results are kept and only added to.
More ==
    \A k \in DOMAIN db.rps :
        /\ k \in DOMAIN db'.rps
        /\ db.rps[k] \in Seq(Nat) /\ db'.rps[k] \in Seq(Nat)
        /\ Begins(db.rps[k], db'.rps[k])

\* A sequence begins with itself.
LEMMA BeginsSame ==
    ASSUME NEW s \in Seq(Nat)
    PROVE  Begins(s, s)
BY DEF Begins

\* The beginning of a beginning is one.
LEMMA BeginsMore ==
    ASSUME NEW s \in Seq(Nat), NEW t \in Seq(Nat), NEW u \in Seq(Nat),
           Begins(s, t), Begins(t, u)
    PROVE  Begins(s, u)
BY DEF Begins

\* What is added to a sequence leaves its beginning.
LEMMA BeginsConcat ==
    ASSUME NEW s \in Seq(Nat), NEW t \in Seq(Nat)
    PROVE  s \o t \in Seq(Nat) /\ Begins(s, s \o t)
BY DEF Begins

\* The results under a key: there are some.
LEMMA RpsUnder ==
    ASSUME AppliedOK, RpsOK, NEW k \in DOMAIN db.rps
    PROVE  db.rps[k] \in Seq(Nat) /\ db.rps[k] # <<>> /\ k \in Node \X Nat
<1>1. k \in Node \X Nat /\ k[1] \in Node /\ DayTests(k[1], k[2]) # <<>>
  BY DEF RpsOK
<1>2. PICK s \in Seq(TestTx) : s = DayTests(k[1], k[2])
  BY <1>1, DayTestsType
<1>3. db.rps[k] = Rps(s)
  BY <1>2 DEF RpsOK
<1> QED
  BY <1>1, <1>2, <1>3, RpsFacts

\* A block only adds to the results.
LEMMA MoreWritten ==
    ASSUME TablesOK, AppliedOK', NEW n, Writes(n)
    PROVE  More
<1> SUFFICES ASSUME NEW k \in DOMAIN db.rps
             PROVE  /\ k \in DOMAIN db'.rps
                    /\ db.rps[k] \in Seq(Nat) /\ db'.rps[k] \in Seq(Nat)
                    /\ Begins(db.rps[k], db'.rps[k])
  BY DEF More
<1>1. AppliedOK /\ RpsOK /\ Adds(n) /\ RpsAfter(n)
  BY DEF TablesOK, Writes
<1>2. PICK s \in Seq(Nat) : s = db.rps[k]
  BY <1>1, RpsUnder
<1>3. k \in Node \X Nat /\ k[1] \in Node
  BY <1>1, RpsUnder
<1>4. PICK t \in Seq(Nat) : t = RpsIn(chain[n], k[1])
  <2>1. TestsIn(chain[n], k[1]) \in Seq(TestTx)
    BY <1>1, <1>3, Grown, TestsFacts
  <2>2. RpsIn(chain[n], k[1]) = Rps(TestsIn(chain[n], k[1]))
    BY DEF RpsIn, Rps
  <2> QED
    BY <2>1, <2>2, RpsFacts
<1>5. Lookup(db.rps, k, <<>>) = s
  BY <1>2 DEF Lookup
<1>6. PICK D : D = TestedIn(chain[n]) \X {db.day}
  OBVIOUS
<1>7. db'.rps = [j \in DOMAIN db.rps \cup D |->
                    Lookup(db.rps, j, <<>>)
                        \o (IF j \in D THEN RpsIn(chain[n], j[1]) ELSE <<>>)]
  BY <1>1, <1>6 DEF RpsAfter
<1>8. k \in DOMAIN db'.rps /\ db'.rps[k] = s \o (IF k \in D THEN t ELSE <<>>)
  BY <1>4, <1>5, <1>7
<1>9. CASE k \in D
  BY <1>2, <1>8, <1>9, BeginsConcat
<1>10. CASE k \notin D
  <2>1. s \o <<>> = s
    OBVIOUS
  <2> QED
    BY <1>2, <1>8, <1>10, <2>1, BeginsSame
<1> QED
  BY <1>9, <1>10

\* So does a step that writes nothing.
LEMMA MoreSame ==
    ASSUME TablesOK, db' = db
    PROVE  More
<1>1. \A k \in DOMAIN db.rps : db.rps[k] \in Seq(Nat)
  BY RpsUnder DEF TablesOK
<1>2. \A k \in DOMAIN db.rps : Begins(db.rps[k], db.rps[k])
  BY <1>1, BeginsSame
<1> QED
  BY <1>1, <1>2 DEF More

\* What a query has read stays the beginning of what there is.
LEMMA QueryStays ==
    ASSUME RatingOK, LastQueryOK, More, query' = query
    PROVE  RatingOK' /\ LastQueryOK'
<1>1. RatingOK'
  <2> SUFFICES ASSUME query.kind = "rating" PROVE RatingOK'
    BY DEF RatingOK
  <2>1. query \in [kind : {"rating"}, node : Node, count : Nat \ {0}, day : Nat,
                   todo : SUBSET Node, had : Nat, read : RpsMap, group : Int]
    BY DEF RatingOK
  <2>2. \A y \in query.todo : <<y, query.day>> \in DOMAIN db'.rps
    BY DEF RatingOK, More
  <2>3. ASSUME NEW y \in DOMAIN query.read
        PROVE  /\ query.read[y] # <<>>
               /\ <<y, query.day>> \in DOMAIN db'.rps
               /\ Begins(query.read[y], db'.rps[<<y, query.day>>])
    <3>1. query.read \in RpsMap
      BY <2>1
    <3>2. query.read[y] \in Seq(Nat)
      BY <3>1 DEF RpsMap
    <3>3. PICK k : k = <<y, query.day>>
      OBVIOUS
    <3>4. query.read[y] # <<>> /\ k \in DOMAIN db.rps /\ Begins(query.read[y], db.rps[k])
      BY <3>3 DEF RatingOK
    <3>5. /\ k \in DOMAIN db'.rps /\ db.rps[k] \in Seq(Nat) /\ db'.rps[k] \in Seq(Nat)
          /\ Begins(db.rps[k], db'.rps[k])
      BY <3>4 DEF More
    <3>6. Begins(query.read[y], db'.rps[k])
      BY <3>2, <3>4, <3>5, BeginsMore
    <3> QED
      BY <3>3, <3>4, <3>5, <3>6
  <2>4. ASSUME query.had >= query.count
        PROVE  /\ query.node \in query.todo \cup DOMAIN query.read
               /\ <<query.node, query.day>> \in DOMAIN db'.rps
               /\ query.had <= Len(db'.rps[<<query.node, query.day>>])
               /\ query.node \in DOMAIN query.read => query.had <= Len(query.read[query.node])
               /\ query.group # -1 => query.group \in 1..CountGroups
    <3>1. PICK k : k = <<query.node, query.day>>
      OBVIOUS
    <3>2. /\ query.node \in query.todo \cup DOMAIN query.read
          /\ query.node \in DOMAIN query.read => query.had <= Len(query.read[query.node])
          /\ query.group # -1 => query.group \in 1..CountGroups
      BY <2>4 DEF RatingOK
    <3>3. k \in DOMAIN db.rps /\ query.had <= Len(db.rps[k])
      BY <2>4, <3>1 DEF RatingOK
    <3>4. /\ k \in DOMAIN db'.rps /\ db.rps[k] \in Seq(Nat) /\ db'.rps[k] \in Seq(Nat)
          /\ Begins(db.rps[k], db'.rps[k])
      BY <3>3 DEF More
    <3>5. query.had \in Nat
      BY <2>1
    <3>6. query.had <= Len(db'.rps[k])
      BY <3>3, <3>4, <3>5 DEF Begins
    <3> QED
      BY <3>1, <3>2, <3>4, <3>6
  <2> QED
    BY <2>1, <2>2, <2>3, <2>4 DEF RatingOK
<1>2. query.kind = "last" =>
        /\ query.result.tests \in Seq(TestTx)
        /\ <<query.node, query.result.day>> \in DOMAIN db'.rps
        /\ Begins(Rps(query.result.tests), db'.rps[<<query.node, query.result.day>>])
  <2> SUFFICES ASSUME query.kind = "last"
               PROVE  /\ query.result.tests \in Seq(TestTx)
                      /\ <<query.node, query.result.day>> \in DOMAIN db'.rps
                      /\ Begins(Rps(query.result.tests), db'.rps[<<query.node, query.result.day>>])
    OBVIOUS
  <2>1. PICK k : k = <<query.node, query.result.day>>
    OBVIOUS
  <2>2. PICK t : t = Rps(query.result.tests)
    OBVIOUS
  <2>3. query.result.tests \in Seq(TestTx) /\ k \in DOMAIN db.rps /\ Begins(t, db.rps[k])
    BY <2>1, <2>2 DEF LastQueryOK
  <2>4. t \in Seq(Nat)
    BY <2>2, <2>3, RpsFacts
  <2>5. /\ k \in DOMAIN db'.rps /\ db.rps[k] \in Seq(Nat) /\ db'.rps[k] \in Seq(Nat)
        /\ Begins(db.rps[k], db'.rps[k])
    BY <2>3 DEF More
  <2>6. Begins(t, db'.rps[k])
    BY <2>3, <2>4, <2>5, BeginsMore
  <2> QED
    BY <2>1, <2>2, <2>3, <2>5, <2>6
<1>3. query.kind = "lastRps" /\ query.element # EmptyElement =>
        /\ query.day = query.today
        /\ <<query.node, query.day>> \in DOMAIN db'.rps
        /\ \E i \in 1..Len(db'.rps[<<query.node, query.day>>]) :
            db'.rps[<<query.node, query.day>>][i] = query.element.rps
  <2> SUFFICES ASSUME query.kind = "lastRps", query.element # EmptyElement
               PROVE  /\ query.day = query.today
                      /\ <<query.node, query.day>> \in DOMAIN db'.rps
                      /\ \E i \in 1..Len(db'.rps[<<query.node, query.day>>]) :
                            db'.rps[<<query.node, query.day>>][i] = query.element.rps
    OBVIOUS
  <2>1. PICK k : k = <<query.node, query.day>>
    OBVIOUS
  <2>2. /\ query.day = query.today /\ k \in DOMAIN db.rps
        /\ \E i \in 1..Len(db.rps[k]) : db.rps[k][i] = query.element.rps
    BY <2>1 DEF LastQueryOK
  <2>3. /\ k \in DOMAIN db'.rps /\ db.rps[k] \in Seq(Nat) /\ db'.rps[k] \in Seq(Nat)
        /\ Begins(db.rps[k], db'.rps[k])
    BY <2>2 DEF More
  <2>4. \E i \in 1..Len(db'.rps[k]) : db'.rps[k][i] = query.element.rps
    BY <2>2, <2>3 DEF Begins
  <2> QED
    BY <2>1, <2>2, <2>3, <2>4
<1>4. LastResultOfToday'
  BY DEF LastResultOfToday, LastQueryOK, EmptyElement
<1>5. LastQueryOK'
  BY <1>2, <1>3, <1>4 DEF LastQueryOK, EmptyElement
<1> QED
  BY <1>1, <1>5

(***************************************************************************)
(* The steps of a query.                                                   *)
(***************************************************************************)

\* The keys of the days: 0 for day 0, then the later days before the earlier.
LEMMA DayKeys ==
    ASSUME NEW d \in Nat, d < SizeModulus
    PROVE  DayKey(d) \in Nat /\ (d # 0 => DayKey(d) = SizeModulus - d)
<1>1. PICK M \in Nat : M = SizeModulus /\ M > 0
  BY NodeTestsAssumption
<1>2. (-d) % M \in Nat
  BY <1>1
<1>3. d # 0 => (-d) % M = M - d
  <2> SUFFICES ASSUME d # 0 PROVE (-d) % M = M - d
    OBVIOUS
  <2>1. -d = M * (-1) + (M - d) /\ M - d \in 0..(M - 1)
    BY <1>1
  <2> QED
    BY <1>1, <2>1
<1> QED
  BY <1>1, <1>2, <1>3 DEF DayKey

\* The day of a rating is a day with tests, if there is one, and the latest if
\* day 0 has none.
LEMMA LastDayFacts ==
    ASSUME TablesOK
    PROVE  /\ LastTestedDay \in Nat
           /\ DOMAIN db.tested # {} => LastTestedDay \in DOMAIN db.tested
           /\ LastDayIsLatest
<1>1. AppliedOK /\ DayOK /\ TestedOK
  BY DEF TablesOK
<1>2. PICK k \in Nat : k = Len(chain) /\ k < SizeModulus
  BY <1>1, ChainFacts
<1>3. db.day \in Nat /\ db.day <= k
  BY <1>1, <1>2, DayFacts DEF DayOK
<1>4. PICK D : D = DOMAIN db.tested
  OBVIOUS
<1>5. \A d \in D : d \in Nat /\ d <= k
  <2> TAKE d \in D
  <2>1. d \in Nat /\ \E x \in Node : DayTests(x, d) # <<>>
    BY <1>1, <1>4 DEF TestedOK
  <2>2. ~(d > db.day)
    BY <1>1, <2>1 DEF DayOK
  <2> QED
    BY <1>3, <2>1, <2>2
<1>6. CASE D = {}
  BY <1>4, <1>6 DEF LastTestedDay, LastDayIsLatest
<1>7. CASE D # {}
  <2>1. PICK M \in Nat : M = SizeModulus /\ k < M
    BY <1>2, NodeTestsAssumption
  <2>2. \A d \in D : DayKey(d) \in Nat /\ (d # 0 => DayKey(d) = M - d)
    <3>1. \A d \in D : d \in Nat /\ d < SizeModulus
      BY <1>5, <2>1
    <3> QED
      BY <2>1, <3>1, DayKeys
  <2>3. \E d \in D : \A e \in D : DayKey(d) <= DayKey(e)
    <3>1. PICK K : K = {DayKey(d) : d \in D}
      OBVIOUS
    <3>2. K \subseteq Nat /\ K # {}
      BY <1>7, <2>2, <3>1
    <3>3. PICK x \in K : \A y \in K : x <= y
      BY <3>2, NatMin, Zenon
    <3> QED
      BY <3>1, <3>3
  <2>4. PICK L : L = LastTestedDay /\ L \in D /\ \A e \in D : DayKey(L) <= DayKey(e)
    <3>1. LastTestedDay = CHOOSE d \in D : \A e \in D : DayKey(d) <= DayKey(e)
      BY <1>4, <1>7 DEF LastTestedDay
    <3> QED
      BY <2>3, <3>1, Zenon
  <2>5. LastDayIsLatest
    <3> SUFFICES ASSUME 0 \notin D PROVE L = Max(D)
      BY <1>4, <2>4 DEF LastDayIsLatest
    <3>1. D \subseteq 0..k
      BY <1>5
    <3>2. Max(D) \in D /\ \A y \in D : Max(D) >= y
      BY <1>7, <3>1, MaxOfSet
    <3>3. PICK m \in D : m = Max(D) /\ \A y \in D : m >= y
      BY <3>2
    <3>4. m \in Nat /\ L \in Nat /\ m # 0 /\ L # 0 /\ m >= L
      BY <1>5, <2>4, <3>3
    <3>5. M - L <= M - m
      BY <2>2, <2>4, <3>3, <3>4
    <3>6. L = m
      BY <3>4, <3>5
    <3> QED
      BY <3>3, <3>6
  <2> QED
    BY <1>4, <1>5, <2>4, <2>5
<1> QED
  BY <1>6, <1>7

\* The question of a rating reads the nodes of the latest day.
LEMMA AskRatingStep ==
    ASSUME TablesOK, NEW x \in Node, NEW count \in MinTests, AskRating(x, count)
    PROVE  RatingOK' /\ LastQueryOK'
<1>1. AppliedOK /\ RpsOK /\ TestedOK /\ db' = db
  BY DEF TablesOK, AskRating
<1>2. count \in Nat \ {0}
  BY NodeTestsAssumption
<1>3. PICK L \in Nat : L = LastTestedDay
  BY LastDayFacts
<1>4. PICK T : T = Lookup(db.tested, L, {})
  OBVIOUS
<1>5. \A y \in T : y \in Node /\ <<y, L>> \in DOMAIN db.rps
  BY <1>1, <1>4 DEF Lookup, TestedOK, RpsOK
<1>6. PICK k : k = <<x, L>>
  OBVIOUS
<1>7. PICK had \in Nat : /\ had = Len(Lookup(db.rps, k, <<>>))
                         /\ had # 0 => k \in DOMAIN db.rps /\ had = Len(db.rps[k])
  <2>1. CASE k \in DOMAIN db.rps
    <3>1. db.rps[k] \in Seq(Nat)
      BY <1>1, <2>1, RpsUnder
    <3> QED
      BY <2>1, <3>1 DEF Lookup
  <2>2. CASE k \notin DOMAIN db.rps
    BY <2>2 DEF Lookup
  <2> QED
    BY <2>1, <2>2
<1>8. had # 0 => x \in T
  <2> SUFFICES ASSUME k \in DOMAIN db.rps PROVE x \in T
    BY <1>7
  <2>1. DayTests(x, L) # <<>>
    BY <1>1, <1>6 DEF RpsOK
  <2> QED
    BY <1>1, <1>4, <2>1 DEF TestedOK, Lookup
<1>9. PICK none : none = [y \in {} |-> <<>>]
  OBVIOUS
<1>10. none \in RpsMap /\ DOMAIN none = {}
  <2>1. none \in [{} -> Seq(Nat)] /\ {} \in SUBSET Node
    BY <1>9
  <2> QED
    BY <1>9, <2>1 DEF RpsMap
<1>11. query' = [kind |-> "rating", node |-> x, count |-> count, day |-> L, todo |-> T,
                 had |-> had, read |-> none, group |-> -1]
  BY <1>3, <1>4, <1>6, <1>7, <1>9 DEF AskRating
<1>12. /\ query'.kind = "rating" /\ query'.node = x /\ query'.count = count
       /\ query'.day = L /\ query'.todo = T /\ query'.had = had /\ query'.read = none
       /\ query'.group = -1
  BY <1>11
<1>13. query' \in [kind : {"rating"}, node : Node, count : Nat \ {0}, day : Nat,
                   todo : SUBSET Node, had : Nat, read : RpsMap, group : Int]
  <2>1. T \in SUBSET Node
    BY <1>5
  <2>2. none \in RpsMap
    BY <1>10
  <2>3. -1 \in Int
    OBVIOUS
  <2> QED
    BY <1>2, <1>11, <2>1, <2>2, <2>3
<1>14. had >= count => had # 0
  BY <1>2
<1>15. had >= count => x \in T /\ k \in DOMAIN db.rps /\ had <= Len(db.rps[k])
  BY <1>7, <1>8, <1>14
<1>16. RatingOK'
  BY <1>1, <1>5, <1>6, <1>10, <1>12, <1>13, <1>15 DEF RatingOK
<1>17. LastQueryOK'
  BY <1>12 DEF LastQueryOK, LastResultOfToday
<1> QED
  BY <1>16, <1>17

\* The results of the next node are read.
LEMMA RatingReadStep ==
    ASSUME TablesOK, RatingOK, RatingRead
    PROVE  RatingOK' /\ LastQueryOK'
<1>1. AppliedOK /\ RpsOK /\ db' = db /\ query.kind = "rating" /\ query.todo # {}
  BY DEF TablesOK, RatingRead
<1>2. query \in [kind : {"rating"}, node : Node, count : Nat \ {0}, day : Nat,
                 todo : SUBSET Node, had : Nat, read : RpsMap, group : Int]
  BY <1>1 DEF RatingOK
<1>3. PICK y \in query.todo : y = Min(query.todo)
  <2>1. query.todo \subseteq Nat
    BY <1>2, NodeTestsAssumption
  <2> QED
    BY <1>1, <2>1, MinOfSet, Zenon
<1>4. PICK k : k = <<y, query.day>>
  OBVIOUS
<1>5. k \in DOMAIN db.rps /\ y \in Node
  BY <1>1, <1>2, <1>4 DEF RatingOK
<1>6. PICK r \in Seq(Nat) : r = db.rps[k] /\ r # <<>>
  BY <1>1, <1>5, RpsUnder
<1>7. PICK read : read = Update(query.read, y, r)
  OBVIOUS
<1>8. query' = [query EXCEPT !.todo = query.todo \ {y}, !.read = read]
  BY <1>3, <1>4, <1>5, <1>6, <1>7 DEF RatingRead, RatingDay, Lookup
<1>9. read = [z \in DOMAIN query.read \cup {y} |-> IF z = y THEN r ELSE query.read[z]]
  BY <1>7 DEF Update
<1>10. read \in RpsMap
  <2>1. PICK D \in SUBSET Node : query.read \in [D -> Seq(Nat)]
    <3>1. query.read \in RpsMap
      BY <1>2
    <3> QED
      BY <3>1 DEF RpsMap
  <2>2. read \in [D \cup {y} -> Seq(Nat)] /\ D \cup {y} \in SUBSET Node
    BY <1>5, <1>9, <2>1
  <2> QED
    BY <2>2 DEF RpsMap
<1>11. /\ query'.kind = "rating" /\ query'.node = query.node /\ query'.count = query.count
       /\ query'.day = query.day /\ query'.todo = query.todo \ {y} /\ query'.had = query.had
       /\ query'.read = read /\ query'.group = query.group
  BY <1>2, <1>8
<1>12. query' \in [kind : {"rating"}, node : Node, count : Nat \ {0}, day : Nat,
                   todo : SUBSET Node, had : Nat, read : RpsMap, group : Int]
  BY <1>2, <1>8, <1>10
<1>13. \A z \in query.todo \ {y} : <<z, query.day>> \in DOMAIN db.rps
  BY <1>1 DEF RatingOK
<1>14. ASSUME NEW z \in DOMAIN read
       PROVE  /\ read[z] # <<>> /\ <<z, query.day>> \in DOMAIN db.rps
              /\ Begins(read[z], db.rps[<<z, query.day>>])
  <2>1. CASE z = y
    BY <1>4, <1>5, <1>6, <1>9, <2>1, BeginsSame
  <2>2. CASE z # y
    <3>1. z \in DOMAIN query.read /\ read[z] = query.read[z]
      BY <1>9, <2>2
    <3> QED
      BY <1>1, <3>1 DEF RatingOK
  <2> QED
    BY <2>1, <2>2
<1>15. ASSUME query.had >= query.count
       PROVE  /\ query.node \in (query.todo \ {y}) \cup DOMAIN read
              /\ <<query.node, query.day>> \in DOMAIN db.rps
              /\ query.had <= Len(db.rps[<<query.node, query.day>>])
              /\ query.node \in DOMAIN read => query.had <= Len(read[query.node])
              /\ query.group # -1 => query.group \in 1..CountGroups
  <2>1. /\ query.node \in query.todo \cup DOMAIN query.read
        /\ <<query.node, query.day>> \in DOMAIN db.rps
        /\ query.had <= Len(db.rps[<<query.node, query.day>>])
        /\ query.node \in DOMAIN query.read => query.had <= Len(query.read[query.node])
        /\ query.group # -1 => query.group \in 1..CountGroups
    BY <1>1, <1>15 DEF RatingOK
  <2>2. query.node \in (query.todo \ {y}) \cup DOMAIN read
    BY <1>9, <2>1
  <2>3. query.node \in DOMAIN read => query.had <= Len(read[query.node])
    <3>1. CASE query.node = y
      BY <1>4, <1>6, <1>9, <2>1, <3>1
    <3>2. CASE query.node # y
      BY <1>9, <2>1, <3>2
    <3> QED
      BY <3>1, <3>2
  <2> QED
    BY <2>1, <2>2, <2>3
<1>16. RatingOK'
  BY <1>1, <1>11, <1>12, <1>13, <1>14, <1>15 DEF RatingOK
<1>17. LastQueryOK'
  BY <1>11 DEF LastQueryOK, LastResultOfToday
<1> QED
  BY <1>16, <1>17

\* The place of the node gives its group.
LEMMA RatingAnswerStep ==
    ASSUME TablesOK, RatingOK, RatingAnswer
    PROVE  RatingOK' /\ LastQueryOK'
<1>1. db' = db /\ query.kind = "rating" /\ query.todo = {}
  BY DEF RatingAnswer
<1>2. query \in [kind : {"rating"}, node : Node, count : Nat \ {0}, day : Nat,
                 todo : SUBSET Node, had : Nat, read : RpsMap, group : Int]
  BY <1>1 DEF RatingOK
<1> DEFINE rated == {y \in DOMAIN query.read : Len(query.read[y]) >= query.count}
           avg == [y \in rated |-> FindAvg(query.read[y])]
           below == {y \in rated : avg[y] < avg[query.node]}
           same == {y \in rated : avg[y] = avg[query.node]}
<1>3. \E group \in Int :
        /\ query' = [query EXCEPT !.group = group]
        /\ query.node \in rated => group \in 1..CountGroups
  <2>1. CASE query.node \in rated
    <3>1. PICK i \in Cardinality(below)..(Cardinality(below \cup same) - 1) :
            query' = [query EXCEPT !.group = GroupOf(i, Cardinality(rated))]
      BY <2>1, Zenon DEF RatingAnswer
    <3>2. IsFiniteSet(rated) /\ below \subseteq rated /\ below \cup same \subseteq rated
      <4>1. rated \subseteq Node
        <5>1. query.read \in RpsMap
          BY <1>2
        <5>2. DOMAIN query.read \subseteq Node
          BY <5>1 DEF RpsMap
        <5> QED
          BY <5>2
      <4> QED
        BY <4>1, FS_Subset, NodeTestsAssumption
    <3>3. PICK R, B, C : R = rated /\ B = below /\ C = below \cup same
      BY Zenon
    <3>4. IsFiniteSet(R) /\ B \subseteq R /\ C \subseteq R
      BY <3>2, <3>3, Zenon
    <3>5. /\ Cardinality(R) \in Nat /\ Cardinality(B) \in Nat /\ Cardinality(C) \in Nat
          /\ Cardinality(C) <= Cardinality(R)
      BY <3>4, FS_Subset, FS_CardinalityType
    <3>6. PICK n \in Nat : n = Cardinality(R)
      BY <3>5
    <3>7. i \in Cardinality(B)..(Cardinality(C) - 1)
      BY <3>1, <3>3, Zenon
    <3>8. i \in Nat /\ i < n
      BY <3>5, <3>6, <3>7
    <3>9. GroupOf(i, n) \in 1..CountGroups
      BY <3>8, GroupFound
    <3>10. query' = [query EXCEPT !.group = GroupOf(i, n)]
      BY <3>1, <3>3, <3>6, Zenon
    <3> QED
      BY <3>9, <3>10
  <2>2. CASE query.node \notin rated
    <3>1. query' = [query EXCEPT !.group = 0]
      BY <2>2, Zenon DEF RatingAnswer
    <3>2. 0 \in Int
      OBVIOUS
    <3> QED
      BY <2>2, <3>1, <3>2, Zenon
  <2> QED
    BY <2>1, <2>2
<1>4. PICK group \in Int : /\ query' = [query EXCEPT !.group = group]
                           /\ query.node \in rated => group \in 1..CountGroups
  BY <1>3, Zenon
<1>5. /\ query'.kind = "rating" /\ query'.node = query.node /\ query'.count = query.count
      /\ query'.day = query.day /\ query'.todo = query.todo /\ query'.had = query.had
      /\ query'.read = query.read /\ query'.group = group
  BY <1>2, <1>4
<1>6. query' \in [kind : {"rating"}, node : Node, count : Nat \ {0}, day : Nat,
                  todo : SUBSET Node, had : Nat, read : RpsMap, group : Int]
  BY <1>2, <1>4
<1>7. ASSUME query.had >= query.count PROVE query.node \in rated
  <2>1. query.node \in DOMAIN query.read /\ query.had <= Len(query.read[query.node])
    BY <1>1, <1>7 DEF RatingOK
  <2>2. query.read[query.node] \in Seq(Nat)
    <3>1. query.read \in RpsMap
      BY <1>2
    <3> QED
      BY <2>1, <3>1 DEF RpsMap
  <2>3. query.had \in Nat /\ query.count \in Nat /\ Len(query.read[query.node]) \in Nat
    BY <1>2, <2>2
  <2> QED
    BY <1>7, <2>1, <2>3
<1>8. query.had >= query.count => group \in 1..CountGroups
  BY <1>4, <1>7
<1> HIDE DEF rated
<1>9. RatingOK'
  BY <1>1, <1>5, <1>6, <1>8 DEF RatingOK
<1>10. LastQueryOK'
  BY <1>5 DEF LastQueryOK, LastResultOfToday
<1> QED
  BY <1>9, <1>10

\* The last results of a node are read.
LEMMA AskLastStep ==
    ASSUME TablesOK, NEW x \in Node, AskLast(x)
    PROVE  RatingOK' /\ LastQueryOK'
<1>1. /\ AppliedOK /\ RpsOK /\ LastOK /\ db' = db /\ x \in DOMAIN db.last
      /\ query' = [kind |-> "last", node |-> x, result |-> db.last[x], today |-> -1]
  BY DEF TablesOK, AskLast
<1>2. PICK r : r = db.last[x] /\ IsLast(x, r)
  BY <1>1 DEF LastOK
<1>3. r.day \in Nat /\ r.tests = DayTests(x, r.day) /\ r.tests # <<>>
  BY <1>2 DEF IsLast
<1>4. r.tests \in Seq(TestTx)
  BY <1>1, <1>3, DayTestsType
<1>5. PICK k : k = <<x, r.day>>
  OBVIOUS
<1>6. k \in DOMAIN db.rps /\ db.rps[k] = Rps(r.tests)
  BY <1>1, <1>3, <1>5 DEF RpsOK
<1>7. Begins(Rps(r.tests), db.rps[k])
  <2>1. Rps(r.tests) \in Seq(Nat)
    BY <1>4, RpsFacts
  <2> QED
    BY <1>6, <2>1, BeginsSame
<1>8. query'.kind = "last" /\ query'.node = x /\ query'.result = r
  BY <1>1, <1>2
<1>9. RatingOK'
  BY <1>8 DEF RatingOK
<1>10. LastQueryOK'
  BY <1>1, <1>4, <1>5, <1>6, <1>7, <1>8 DEF LastQueryOK, LastResultOfToday
<1> QED
  BY <1>9, <1>10

\* The present day is read and the best result taken.
LEMMA LastDayStep ==
    ASSUME TablesOK, LastQueryOK, LastDay
    PROVE  RatingOK' /\ LastQueryOK'
<1>1. query.kind = "last" /\ db' = db
  BY DEF LastDay
<1>2. PICK r : r = query.result
  OBVIOUS
<1>3. PICK e : e = GetMax(r, db.day)
  OBVIOUS
<1>4. PICK day : day = IF e = EmptyElement THEN 0 ELSE r.day
  OBVIOUS
<1>5. query' = [kind |-> "lastRps", node |-> query.node, today |-> db.day, element |-> e,
                day |-> day]
  BY <1>2, <1>3, <1>4 DEF LastDay
<1>6. /\ query'.kind = "lastRps" /\ query'.node = query.node /\ query'.today = db.day
      /\ query'.element = e /\ query'.day = day
  BY <1>5
<1>7. ASSUME e # EmptyElement
      PROVE  /\ day = db.day /\ <<query.node, day>> \in DOMAIN db.rps
             /\ \E i \in 1..Len(db.rps[<<query.node, day>>]) :
                    db.rps[<<query.node, day>>][i] = e.rps
  <2>1. PICK k : k = <<query.node, r.day>>
    OBVIOUS
  <2>2. r.tests \in Seq(TestTx) /\ k \in DOMAIN db.rps /\ Begins(Rps(r.tests), db.rps[k])
    BY <1>1, <1>2, <2>1 DEF LastQueryOK
  <2>3. r.day = db.day /\ \E i \in DOMAIN r.tests : e.rps = r.tests[i].rps
    BY <1>3, <1>7, <2>2, MaxIsTest
  <2>4. PICK i \in DOMAIN r.tests : e.rps = r.tests[i].rps
    BY <2>3
  <2>5. Len(Rps(r.tests)) = Len(r.tests) /\ Rps(r.tests) \in Seq(Nat)
    BY <2>2, RpsFacts
  <2>6. i \in 1..Len(r.tests) /\ Rps(r.tests)[i] = e.rps
    BY <2>2, <2>4 DEF Rps
  <2>7. PICK t, s : t = Rps(r.tests) /\ s = db.rps[k]
    OBVIOUS
  <2>8. i \in 1..Len(t) /\ t[i] = e.rps /\ Begins(t, s)
    BY <2>2, <2>5, <2>6, <2>7
  <2>9. Len(t) <= Len(s) /\ t[i] = s[i]
    BY <2>8 DEF Begins
  <2>10. day = r.day
    BY <1>4, <1>7
  <2>11. i \in 1..Len(s)
    <3>1. s \in Seq(Nat) /\ t \in Seq(Nat)
      BY <2>2, <2>5, <2>7, RpsUnder DEF TablesOK
    <3> QED
      BY <2>8, <2>9, <3>1
  <2> QED
    BY <2>1, <2>2, <2>3, <2>7, <2>8, <2>9, <2>10, <2>11
<1>8. RatingOK'
  BY <1>6 DEF RatingOK
<1>9. LastQueryOK'
  BY <1>1, <1>6, <1>7 DEF LastQueryOK, LastResultOfToday, EmptyElement
<1> QED
  BY <1>8, <1>9

\* The results of the day of the answer are read.
LEMMA LastAnswerStep ==
    ASSUME TablesOK, LastQueryOK, LastAnswer
    PROVE  RatingOK' /\ LastQueryOK'
<1>1. query.kind = "lastRps" /\ db' = db
  BY DEF LastAnswer
<1>2. PICK rps : rps = Lookup(db.rps, <<query.node, query.day>>, <<>>)
  OBVIOUS
<1>3. query' = [kind |-> "lastAnswer", node |-> query.node, today |-> query.today,
                element |-> query.element, day |-> query.day, rps |-> rps]
  BY <1>2 DEF LastAnswer
<1>4. /\ query'.kind = "lastAnswer" /\ query'.today = query.today
      /\ query'.element = query.element /\ query'.day = query.day /\ query'.rps = rps
  BY <1>3
<1>5. ASSUME query.element # EmptyElement
      PROVE  query.day = query.today /\ \E i \in DOMAIN rps : rps[i] = query.element.rps
  <2>1. PICK k : k = <<query.node, query.day>>
    OBVIOUS
  <2>2. /\ query.day = query.today /\ k \in DOMAIN db.rps
        /\ \E i \in 1..Len(db.rps[k]) : db.rps[k][i] = query.element.rps
    BY <1>1, <1>5, <2>1 DEF LastQueryOK
  <2>3. rps = db.rps[k]
    BY <1>2, <2>1, <2>2 DEF Lookup
  <2>4. DOMAIN rps = 1..Len(rps)
    <3>1. rps \in Seq(Nat)
      BY <2>2, <2>3, RpsUnder DEF TablesOK
    <3> QED
      BY <3>1
  <2> QED
    BY <2>2, <2>3, <2>4
<1>6. RatingOK'
  BY <1>4 DEF RatingOK
<1>7. LastQueryOK'
  BY <1>4, <1>5 DEF LastQueryOK, LastResultOfToday, EmptyElement
<1> QED
  BY <1>6, <1>7

(***************************************************************************)
(* The invariant.                                                          *)
(***************************************************************************)

\* Nothing is written at the start.
LEMMA InitHolds ==
    ASSUME NtInit
    PROVE  NtInv
<1>1. /\ chain \in Chains /\ applied = {} /\ queue = <<>> /\ fed = 0
      /\ db.number = 0 /\ db.day = 0 /\ query = Idle
  BY DEF NtInit
<1>2. /\ DOMAIN db.rps = {} /\ DOMAIN db.last = {} /\ DOMAIN db.tested = {}
      /\ DOMAIN db.names = {} /\ DOMAIN db.trust = {}
  BY DEF NtInit
<1>3. PICK k \in Nat : k = Len(chain)
  BY <1>1, NodeTestsAssumption
<1>4. AppliedOK
  BY <1>1, <1>3 DEF AppliedOK, NoGaps
<1>5. \A n : DayOf(n) = 0
  <2>1. \A n : {m \in applied : m < n /\ chain[m].state} = {}
    BY <1>1
  <2> QED
    BY <2>1, FS_EmptySet DEF DayOf
<1>6. ASSUME NEW x \in Node, NEW d PROVE DayTests(x, d) = <<>>
  <2>1. PICK s : s = Parts(x, d)
    OBVIOUS
  <2>2. s \in Seq(Seq(TestTx)) /\ Len(s) = k /\ DayTests(x, d) = FlattenSeq(s)
    BY <1>3, <1>4, <2>1, PartsFacts
  <2>3. \A i \in 1..Len(s) : s[i] = <<>>
    BY <1>1, <1>3, <1>4, <2>1, <2>2, ChainFacts DEF Parts
  <2> QED
    BY <2>2, <2>3, FlattenNone
<1>7. DayOK
  BY <1>1, <1>5, <1>6 DEF DayOK
<1>8. RpsOK
  BY <1>2, <1>6 DEF RpsOK
<1>9. TestedOK
  BY <1>2, <1>6 DEF TestedOK
<1>10. LastOK
  BY <1>2, <1>6 DEF LastOK
<1>11. KeysOK
  BY <1>1, <1>2 DEF KeysOK, Trusting, Registering
<1>12. query.kind = "none"
  BY <1>1 DEF Idle
<1>13. RatingOK /\ LastQueryOK
  BY <1>12 DEF RatingOK, LastQueryOK, LastResultOfToday
<1> QED
  BY <1>4, <1>7, <1>8, <1>9, <1>10, <1>11, <1>13 DEF NtInv, TablesOK

\* A step of the query leaves the tables alone.
LEMMA QueryOnly ==
    ASSUME TablesOK, UNCHANGED <<chain, db, queue, fed, applied>>
    PROVE  TablesOK'
<1>1. queue' \in {<<>>} \cup {<<n>> : n \in 1..Len(chain)} /\ fed' \in 0..Len(chain)
  BY DEF TablesOK, AppliedOK
<1> QED
  BY <1>1, TablesStay

\* Every step keeps the invariant.
LEMMA NextHolds ==
    ASSUME NtInv, [NtNext]_ntVars
    PROVE  NtInv'
<1>1. TablesOK /\ RatingOK /\ LastQueryOK /\ AppliedOK
  BY DEF NtInv, TablesOK
<1>2. Len(chain) \in Nat /\ fed \in 0..Len(chain) /\ db.number \in 0..Len(chain)
  BY <1>1, ChainFacts DEF AppliedOK
<1>3. queue # <<>> => Tail(queue) = <<>>
  <2> SUFFICES ASSUME queue # <<>> PROVE Tail(queue) = <<>>
    OBVIOUS
  <2>1. PICK n \in 1..Len(chain) : queue = <<n>>
    BY <1>1 DEF AppliedOK
  <2>2. Tail(<<n>>) = <<>>
    OBVIOUS
  <2> QED
    BY <2>1, <2>2
<1>4. CASE Process
  <2>1. /\ UNCHANGED <<chain, applied, db>> /\ query' = query /\ fed' = fed + 1
        /\ queue' = <<fed + 1>> /\ fed < Len(chain)
    BY <1>4 DEF Process
  <2>2. fed + 1 \in 1..Len(chain) /\ fed + 1 \in 0..Len(chain)
    BY <1>2, <2>1
  <2>3. TablesOK'
    BY <1>1, <2>1, <2>2, TablesStay
  <2> QED
    BY <1>1, <2>1, <2>3, MoreSame, QueryStays DEF NtInv
<1>5. CASE Work
  <2>1. AppliedOK'
    BY <1>1, <1>5, WorkWrites
  <2>2. PICK n : Writes(n)
    BY <1>1, <1>5, WorkWrites
  <2>3. TablesOK' /\ More
    BY <1>1, <2>1, <2>2, TablesWritten, MoreWritten
  <2>4. query' = query
    BY <2>2 DEF Writes
  <2> QED
    BY <1>1, <2>3, <2>4, QueryStays DEF NtInv
<1>6. CASE WorkRefused \/ WorkFails
  <2>1. /\ UNCHANGED <<chain, applied, db>> /\ query' = query /\ fed' = fed
        /\ queue' = <<>>
    BY <1>3, <1>6 DEF WorkRefused, WorkFails
  <2>2. TablesOK'
    BY <1>1, <1>2, <2>1, TablesStay
  <2> QED
    BY <1>1, <2>1, <2>2, MoreSame, QueryStays DEF NtInv
<1>7. CASE Restart
  <2>1. /\ UNCHANGED <<chain, applied, db>> /\ query' = Idle
        /\ fed' \in 0..db.number /\ queue' = <<>>
    BY <1>7 DEF Restart
  <2>2. fed' \in 0..Len(chain)
    BY <1>2, <2>1
  <2>3. TablesOK'
    BY <1>1, <2>1, <2>2, TablesStay
  <2>4. query'.kind = "none"
    BY <2>1 DEF Idle
  <2>5. RatingOK' /\ LastQueryOK'
    BY <2>4 DEF RatingOK, LastQueryOK, LastResultOfToday
  <2> QED
    BY <2>3, <2>5 DEF NtInv
<1>8. CASE Ask
  <2>1. PICK x \in Node : AskLast(x) \/ \E count \in MinTests : AskRating(x, count)
    BY <1>8 DEF Ask
  <2>2. UNCHANGED <<chain, db, queue, fed, applied>>
    BY <2>1 DEF AskLast, AskRating
  <2>3. TablesOK'
    BY <1>1, <2>2, QueryOnly
  <2>4. RatingOK' /\ LastQueryOK'
    BY <1>1, <2>1, AskLastStep, AskRatingStep
  <2> QED
    BY <2>3, <2>4 DEF NtInv
<1>9. CASE RatingRead \/ RatingAnswer
  <2>1. UNCHANGED <<chain, db, queue, fed, applied>>
    BY <1>9 DEF RatingRead, RatingAnswer
  <2>2. TablesOK'
    BY <1>1, <2>1, QueryOnly
  <2>3. RatingOK' /\ LastQueryOK'
    BY <1>1, <1>9, RatingReadStep, RatingAnswerStep
  <2> QED
    BY <2>2, <2>3 DEF NtInv
<1>10. CASE LastDay \/ LastAnswer
  <2>1. UNCHANGED <<chain, db, queue, fed, applied>>
    BY <1>10 DEF LastDay, LastAnswer
  <2>2. TablesOK'
    BY <1>1, <2>1, QueryOnly
  <2>3. RatingOK' /\ LastQueryOK'
    BY <1>1, <1>10, LastDayStep, LastAnswerStep
  <2> QED
    BY <2>2, <2>3 DEF NtInv
<1>11. CASE UNCHANGED ntVars
  <2>1. UNCHANGED <<chain, db, queue, fed, applied>> /\ query' = query
    BY <1>11 DEF ntVars
  <2>2. TablesOK'
    BY <1>1, <2>1, QueryOnly
  <2> QED
    BY <1>1, <2>1, <2>2, MoreSame, QueryStays DEF NtInv
<1> QED
  BY <1>4, <1>5, <1>6, <1>7, <1>8, <1>9, <1>10, <1>11 DEF NtNext

\* The tables are what the written blocks say, each with the days of its own,
\* and what a query has read is the beginning of what they hold: for every
\* chain, whatever the worker, the failing batches, the restarts and the query
\* do in between.
THEOREM NtInvariant == NtSpec => []NtInv
<1>1. NtInit => NtInv
  BY InitHolds
<1>2. NtInv /\ [NtNext]_ntVars => NtInv'
  BY NextHolds
<1> QED
  BY <1>1, <1>2, PTL DEF NtSpec

(***************************************************************************)
(* What the invariant says.                                                *)
(***************************************************************************)

\* The types follow from the invariant.
LEMMA TypesFollow ==
    ASSUME NtInv
    PROVE  NtTypeOK
<1>1. AppliedOK /\ DayOK /\ RpsOK /\ TestedOK /\ LastOK
  BY DEF NtInv, TablesOK
<1>2. /\ queue \in {<<>>} \cup {<<n>> : n \in 1..Len(chain)}
      /\ fed \in 0..Len(chain) /\ db.number \in 0..Len(chain)
      /\ applied \subseteq 1..Len(chain)
  BY <1>1, ChainFacts DEF AppliedOK
<1>3. db.day \in Nat
  BY <1>1, DayFacts, ChainFacts DEF DayOK
<1>4. DOMAIN db.rps = UNION {db.tested[d] \X {d} : d \in DOMAIN db.tested}
  <2>1. ASSUME NEW k \in DOMAIN db.rps
        PROVE  \E d \in DOMAIN db.tested : k \in db.tested[d] \X {d}
    <3>1. k \in Node \X Nat /\ DayTests(k[1], k[2]) # <<>>
      BY <1>1 DEF RpsOK
    <3>2. k = <<k[1], k[2]>> /\ k[1] \in Node /\ k[2] \in Nat
      BY <3>1
    <3>3. k[2] \in DOMAIN db.tested /\ k[1] \in db.tested[k[2]]
      BY <1>1, <3>1, <3>2 DEF TestedOK
    <3> QED
      BY <3>2, <3>3
  <2>2. ASSUME NEW d \in DOMAIN db.tested, NEW x \in db.tested[d]
        PROVE  <<x, d>> \in DOMAIN db.rps
    <3>1. x \in Node /\ d \in Nat /\ DayTests(x, d) # <<>>
      BY <1>1 DEF TestedOK
    <3> QED
      BY <1>1, <3>1 DEF RpsOK
  <2> QED
    BY <2>1, <2>2
<1>5. \A k \in DOMAIN db.rps : db.rps[k] \in Seq(Nat) /\ db.rps[k] # <<>>
  BY <1>1, RpsUnder
<1>6. \A x \in DOMAIN db.last : db.last[x].tests # <<>>
  BY <1>1 DEF LastOK, IsLast
<1> QED
  BY <1>2, <1>3, <1>4, <1>5, <1>6 DEF NtTypeOK

\* The queue, the counters and the keys of the two tables of a day.
THEOREM NtTypes == NtSpec => []NtTypeOK
BY NtInvariant, TypesFollow, PTL

\* The last results of a node, its trust and its registration.
LEMMA LatestFollows ==
    ASSUME TablesOK
    PROVE  LatestKept
<1>1. AppliedOK /\ DayOK /\ LastOK /\ KeysOK
  BY DEF TablesOK
<1>0. Len(chain) \in Nat /\ applied \subseteq 1..Len(chain)
  BY <1>1, ChainFacts
<1>2. PICK k \in Nat : k = Len(chain) /\ applied \subseteq 0..k
  BY <1>0
<1>3. PICK day \in Nat : day = db.day
  BY <1>1, DayFacts, ChainFacts DEF DayOK
<1>4. ASSUME NEW x \in Node, NEW days, days = {d \in 0..day : DayTests(x, d) # <<>>}
      PROVE  Lookup(db.last, x, EmptyResult).tests
                = IF days = {} THEN <<>> ELSE DayTests(x, Max(days))
  <2>1. CASE x \in DOMAIN db.last
    <3>1. PICK r : r = db.last[x] /\ IsLast(x, r)
      BY <1>1, <2>1 DEF LastOK
    <3>2. /\ r.day \in Nat /\ r.tests = DayTests(x, r.day) /\ r.tests # <<>>
          /\ \A d \in Nat : d > r.day => DayTests(x, d) = <<>>
      BY <3>1 DEF IsLast
    <3>3. ~(r.day > day)
      BY <1>1, <1>3, <3>2 DEF DayOK
    <3>4. r.day \in days /\ days \subseteq 0..day
      BY <1>4, <3>2, <3>3
    <3>5. Max(days) \in days /\ \A d \in days : Max(days) >= d
      BY <3>4, MaxOfSet
    <3>6. PICK m \in days : m = Max(days) /\ \A d \in days : m >= d
      BY <3>5
    <3>7. m = r.day
      <4>1. m \in Nat /\ m >= r.day /\ DayTests(x, m) # <<>>
        BY <1>4, <3>4, <3>6
      <4>2. ~(m > r.day)
        BY <3>2, <4>1
      <4> QED
        BY <3>2, <4>1, <4>2
    <3> QED
      BY <2>1, <3>1, <3>2, <3>4, <3>6, <3>7 DEF Lookup
  <2>2. CASE x \notin DOMAIN db.last
    <3>1. days = {}
      BY <1>1, <1>4, <2>2 DEF LastOK
    <3> QED
      BY <2>2, <3>1 DEF Lookup, EmptyResult
  <2> QED
    BY <2>1, <2>2
<1>5. ASSUME NEW x \in Node, Trusting(x) # {}
      PROVE  db.trust[x] = LastOfKind(chain[Max(Trusting(x))], "trust", x)
  <2>1. PICK m \in Trusting(x) : /\ \A n \in Trusting(x) : n <= m
                                 /\ db.trust[x] = LastOfKind(chain[m], "trust", x)
    BY <1>1, <1>5 DEF KeysOK
  <2>2. Trusting(x) \subseteq 0..k
    BY <1>2 DEF Trusting
  <2>3. PICK j \in Trusting(x) : j = Max(Trusting(x)) /\ j >= m
    BY <1>5, <2>1, <2>2, MaxOfSet
  <2>4. j = m
    BY <2>1, <2>2, <2>3
  <2> QED
    BY <2>1, <2>3, <2>4
<1>6. ASSUME NEW x \in Node, Registering(x) # {}
      PROVE  db.names[x] = LastOfKind(chain[Min(Registering(x))], "register", x)
  <2>1. PICK m \in Registering(x) : /\ \A n \in Registering(x) : m <= n
                                    /\ db.names[x] = LastOfKind(chain[m], "register", x)
    BY <1>1, <1>6 DEF KeysOK
  <2>2. Registering(x) \subseteq Nat
    <3>1. Registering(x) \subseteq applied /\ 0..k \subseteq Nat
      BY DEF Registering
    <3> QED
      BY <1>2, <3>1
  <2>3. PICK j \in Registering(x) : j = Min(Registering(x)) /\ j <= m
    BY <1>6, <2>1, <2>2, MinOfSet
  <2>4. j = m
    BY <2>1, <2>2, <2>3
  <2> QED
    BY <2>1, <2>3, <2>4
<1> QED
  BY <1>3, <1>4, <1>5, <1>6 DEF LatestKept, Trusting, Registering

\* The tables are complete.
LEMMA CompleteFollows ==
    ASSUME NtInv
    PROVE  TablesComplete
<1>1. TablesOK /\ AppliedOK /\ DayOK /\ RpsOK
  BY DEF NtInv, TablesOK
<1>2. db.day \in Nat
  BY <1>1, DayFacts, ChainFacts DEF DayOK
<1>3. ASSUME NEW x \in Node, NEW d \in 0..db.day
      PROVE  Lookup(db.rps, <<x, d>>, <<>>) = Rps(DayTests(x, d))
  <2>0. d \in Nat
    BY <1>2
  <2>1. PICK k \in Node \X Nat : k = <<x, d>>
    BY <2>0
  <2> QED
    BY <1>1, <2>1, RpsFound
<1>4. DaysComplete
  BY <1>1, <1>3 DEF DaysComplete, DayOK, Rps
<1> QED
  BY <1>1, <1>4, LatestFollows DEF TablesComplete, AppliedOK

\* No test of a written block is lost, counted twice or for another day; the
\* last results, the trust and the registration of a node are those of the
\* right block, and no block is left out between two written ones, after any
\* number of failed batches and restarts.
THEOREM TablesAreComplete == NtSpec => []TablesComplete
BY NtInvariant, CompleteFollows, PTL

\* So are the reads of a rating, for their day.
LEMMA RatingFollows ==
    ASSUME NtInv
    PROVE  RatingOfOneDay
<1> SUFFICES ASSUME query.kind = "rating" PROVE RatingOfOneDay
  BY DEF RatingOfOneDay
<1>1. TablesOK /\ AppliedOK /\ RpsOK /\ RatingOK
  BY DEF NtInv, TablesOK
<1>2. LastDayIsLatest
  BY <1>1, LastDayFacts
<1>3. query \in [kind : {"rating"}, node : Node, count : Nat \ {0}, day : Nat,
                 todo : SUBSET Node, had : Nat, read : RpsMap, group : Int]
  BY <1>1 DEF RatingOK
<1>4. ASSUME NEW y \in DOMAIN query.read
      PROVE  /\ query.read[y] # <<>>
             /\ IsPrefix(query.read[y], Lookup(db.rps, <<y, query.day>>, <<>>))
  <2>1. query.read \in RpsMap
    BY <1>3
  <2>2. PICK s \in Seq(Nat) : s = query.read[y]
    BY <2>1 DEF RpsMap
  <2>3. PICK k : k = <<y, query.day>>
    OBVIOUS
  <2>4. s # <<>> /\ k \in DOMAIN db.rps /\ Begins(s, db.rps[k])
    BY <1>1, <2>2, <2>3 DEF RatingOK
  <2>5. PICK t \in Seq(Nat) : t = db.rps[k]
    BY <1>1, <2>4, RpsUnder
  <2>6. Lookup(db.rps, k, <<>>) = t
    BY <2>4, <2>5 DEF Lookup
  <2>7. PICK n \in Nat : n = Len(s)
    OBVIOUS
  <2>8. n <= Len(t) /\ \A i \in 1..n : s[i] = t[i]
    BY <2>4, <2>5, <2>7 DEF Begins
  <2>9. SubSeq(s, 1, n) = SubSeq(t, 1, n)
    BY <2>7, <2>8
  <2>10. IsPrefix(s, t)
    BY <2>7, <2>8, <2>9 DEF IsPrefix
  <2> QED
    BY <2>2, <2>3, <2>4, <2>6, <2>10
<1>5. query.group # -1 /\ query.had >= query.count => query.group \in 1..CountGroups
  BY <1>1 DEF RatingOK
<1> QED
  BY <1>2, <1>4, <1>5 DEF RatingOfOneDay

\* A rating is about one day, the latest if day 0 has no tests, and about what
\* that day had at some time since the question; a node with enough tests then
\* gets a group.
THEOREM RatingsOfOneDay == NtSpec => []RatingOfOneDay
<1>1. NtInv => RatingOfOneDay
  BY RatingFollows
<1> QED
  BY <1>1, NtInvariant, PTL

\* A last result is of the day that was read as the present one and is among
\* the results that its average is taken over.
THEOREM LastResultsOfToday == NtSpec => []LastResultOfToday
<1>1. NtInv => LastResultOfToday
  BY DEF NtInv, LastQueryOK
<1> QED
  BY <1>1, NtInvariant, PTL

\* The arithmetic of the groups is that of the loop it replaced; GroupFound has
\* it for every number of nodes.
THEOREM GroupsMatchLoop == NtSpec => []GroupsAsInLoop
<1>1. CountGroups + 3 \in Nat
  BY NodeTestsAssumption
<1>2. ASSUME NEW n \in 1..(CountGroups + 3), NEW i \in 0..(n - 1)
      PROVE  LET g == GroupOf(i, n)
             IN  /\ g \in 1..CountGroups
                 /\ GroupEnd(g - 1, n) <= i /\ i < GroupEnd(g, n)
  <2>1. n \in Nat /\ i \in Nat /\ i < n
    BY <1>1
  <2> QED
    BY <2>1, GroupFound
<1>3. GroupsAsInLoop
  BY <1>2 DEF GroupsAsInLoop
<1> QED
  BY <1>3, PTL
=============================================================================
