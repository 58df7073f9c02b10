------------------------------- MODULE Lemmas -------------------------------
(***************************************************************************)
(* Facts about numbers, sequences and finite sets that the proofs of the   *)
(* components share: what the operators Min, Max, RemoveAt, RemoveFirst,   *)
(* FlattenSeq and SumFunctionOnSet of the community modules return, and    *)
(* the least element of a set of numbers, which takes the place of an      *)
(* induction.                                                              *)
(***************************************************************************)
EXTENDS Integers, Ranks, SequencesExt, FiniteSetTheorems, SequenceTheorems,
        WellFoundedInduction, TLAPS

(***************************************************************************)
(* Numbers.                                                                *)
(***************************************************************************)

\* Every nonempty set of natural numbers has a least element.
LEMMA NatMin ==
    ASSUME NEW T, T \subseteq Nat, T # {}
    PROVE  \E x \in T : \A y \in T : x <= y
<1>1. IsWellFoundedOn(OpToRel(<, Nat), Nat)
  BY NatLessThanWellFounded, Zenon
<1>2. PICK x \in T : \A y \in T : ~(<<y, x>> \in OpToRel(<, Nat))
  BY <1>1, WFMin, Zenon
<1>3. ASSUME NEW y \in T
      PROVE  x <= y
  <2>1. x \in Nat /\ y \in Nat
    OBVIOUS
  <2>2. y < x => <<y, x>> \in OpToRel(<, Nat)
    BY <2>1 DEF OpToRel
  <2>3. ~(y < x)
    BY <1>2, <2>2, Zenon
  <2> QED
    BY <2>1, <2>3
<1> QED
  BY <1>3

\* Every nonempty set of natural numbers up to b has a greatest element.
LEMMA NatMax ==
    ASSUME NEW b \in Nat, NEW T, T \subseteq 0..b, T # {}
    PROVE  \E x \in T : \A y \in T : y <= x
<1> DEFINE U == {b - y : y \in T}
<1>1. U \subseteq Nat /\ U # {}
  <2>1. \A y \in T : y \in Nat /\ y <= b
    OBVIOUS
  <2>2. \A y \in T : b - y \in Nat
    BY <2>1
  <2>3. PICK y \in T : TRUE
    OBVIOUS
  <2>4. b - y \in U
    OBVIOUS
  <2> QED
    BY <2>2, <2>4
<1>2. PICK u \in U : \A v \in U : u <= v
  BY <1>1, NatMin, Zenon
<1>3. PICK x \in T : u = b - x
  OBVIOUS
<1>4. \A y \in T : b - y \in U
  OBVIOUS
<1>5. \A y \in T : b - x <= b - y
  BY <1>2, <1>3, <1>4
<1>6. \A y \in T : y <= x
  BY <1>5
<1> QED
  BY <1>6

\* Min of a set of natural numbers is its least element.
LEMMA MinOfSet ==
    ASSUME NEW T, T \subseteq Nat, T # {}
    PROVE  Min(T) \in T /\ \A y \in T : Min(T) <= y
<1>1. \E x \in T : \A y \in T : x <= y
  BY NatMin, Zenon
<1> QED
  BY <1>1, Zenon DEF Min

\* Max of a bounded set of natural numbers is its greatest element.
LEMMA MaxOfSet ==
    ASSUME NEW b \in Nat, NEW T, T \subseteq 0..b, T # {}
    PROVE  Max(T) \in T /\ \A y \in T : Max(T) >= y
<1>1. PICK x \in T : \A y \in T : y <= x
  BY NatMax, Zenon
<1>2. \A y \in T : x >= y
  BY <1>1
<1> QED
  BY <1>2, Zenon DEF Max

\* Min and Max of two numbers.
LEMMA MinOfTwo ==
    ASSUME NEW a \in Int, NEW b \in Int
    PROVE  Min({a, b}) = IF a <= b THEN a ELSE b
<1>1. \E x \in {a, b} : \A y \in {a, b} : x <= y
  OBVIOUS
<1>2. Min({a, b}) \in {a, b} /\ \A y \in {a, b} : Min({a, b}) <= y
  BY <1>1, Zenon DEF Min
<1> QED
  BY <1>2

LEMMA MaxOfTwo ==
    ASSUME NEW a \in Int, NEW b \in Int
    PROVE  Max({a, b}) = IF a >= b THEN a ELSE b
<1>1. \E x \in {a, b} : \A y \in {a, b} : x >= y
  OBVIOUS
<1>2. Max({a, b}) \in {a, b} /\ \A y \in {a, b} : Max({a, b}) >= y
  BY <1>1, Zenon DEF Max
<1> QED
  BY <1>2

(***************************************************************************)
(* Sequences.                                                              *)
(***************************************************************************)

\* A function on 1..n is a sequence of length n.
LEMMA SeqOfFunction ==
    ASSUME NEW S, NEW n \in Nat, NEW f \in [1..n -> S]
    PROVE  f \in Seq(S) /\ Len(f) = n
OBVIOUS

\* RemoveAt leaves out the element at a position.
LEMMA RemoveAtElements ==
    ASSUME NEW S, NEW q \in Seq(S), NEW i \in 1..Len(q)
    PROVE  /\ RemoveAt(q, i) \in Seq(S)
           /\ Len(RemoveAt(q, i)) = Len(q) - 1
           /\ \A j \in 1..(Len(q) - 1) :
                RemoveAt(q, i)[j] = IF j < i THEN q[j] ELSE q[j + 1]
<1> DEFINE f == SubSeq(q, 1, i - 1)
           g == SubSeq(q, i + 1, Len(q))
<1>1. /\ f \in Seq(S) /\ Len(f) = i - 1
      /\ \A j \in 1..(i - 1) : f[j] = q[j]
  OBVIOUS
<1>2. /\ g \in Seq(S) /\ Len(g) = Len(q) - i
      /\ \A j \in 1..(Len(q) - i) : g[j] = q[i + j]
  OBVIOUS
<1>3. RemoveAt(q, i) = f \o g
  BY DEF RemoveAt
<1> HIDE DEF f, g
<1>4. f \o g \in Seq(S) /\ Len(f \o g) = Len(q) - 1
  <2>1. f \o g \in Seq(S)
    BY <1>1, <1>2
  <2>2. Len(f \o g) = Len(f) + Len(g)
    BY <1>1, <1>2, ConcatProperties, Zenon
  <2> QED
    BY <1>1, <1>2, <2>1, <2>2
<1>5. \A j \in 1..(Len(q) - 1) :
        (f \o g)[j] = IF j < i THEN q[j] ELSE q[j + 1]
  BY <1>1, <1>2
<1> QED
  BY <1>3, <1>4, <1>5

\* It keeps the elements distinct and removes no other.
LEMMA RemoveAtInjective ==
    ASSUME NEW S, NEW q \in Seq(S), IsInjective(q), NEW i \in 1..Len(q)
    PROVE  /\ RemoveAt(q, i) \in Seq(S)
           /\ IsInjective(RemoveAt(q, i))
           /\ ToSet(RemoveAt(q, i)) = ToSet(q) \ {q[i]}
<1> DEFINE r == RemoveAt(q, i)
<1>1. /\ r \in Seq(S) /\ Len(r) = Len(q) - 1
      /\ \A j \in 1..(Len(q) - 1) : r[j] = IF j < i THEN q[j] ELSE q[j + 1]
  BY RemoveAtElements
<1>2. Len(q) \in Nat /\ DOMAIN r = 1..(Len(q) - 1) /\ DOMAIN q = 1..Len(q)
  BY <1>1
<1>3. \A j, k \in 1..Len(q) : q[j] = q[k] => j = k
  BY <1>2 DEF IsInjective
<1> HIDE DEF r
<1>4. \A j, k \in DOMAIN r : r[j] = r[k] => j = k
  BY <1>1, <1>2, <1>3
<1>5. \A j \in DOMAIN r : r[j] \in ToSet(q) \ {q[i]}
  BY <1>1, <1>2, <1>3 DEF ToSet
<1>6. ASSUME NEW x \in ToSet(q) \ {q[i]}
      PROVE  \E j \in DOMAIN r : r[j] = x
  <2>1. PICK k \in 1..Len(q) : q[k] = x /\ k # i
    BY <1>2 DEF ToSet
  <2>2. CASE k < i
    BY <2>1, <2>2, <1>1, <1>2
  <2>3. CASE k > i
    <3>1. k - 1 \in DOMAIN r /\ ~(k - 1 < i) /\ k - 1 + 1 = k
      BY <2>1, <2>3, <1>2
    <3> QED
      BY <2>1, <1>1, <1>2, <3>1
  <2> QED
    BY <2>1, <2>2, <2>3
<1>7. ToSet(r) = ToSet(q) \ {q[i]}
  BY <1>5, <1>6, Zenon DEF ToSet
<1> QED
  BY <1>1, <1>4, <1>7 DEF r, IsInjective

\* RemoveFirst removes an element of a sequence of distinct elements.
LEMMA RemoveFirstInjective ==
    ASSUME NEW S, NEW q \in Seq(S), IsInjective(q), NEW e
    PROVE  /\ RemoveFirst(q, e) \in Seq(S)
           /\ IsInjective(RemoveFirst(q, e))
           /\ ToSet(RemoveFirst(q, e)) = ToSet(q) \ {e}
<1>0. Len(q) \in Nat /\ DOMAIN q = 1..Len(q)
  OBVIOUS
<1>1. CASE \E i \in 1..Len(q) : q[i] = e
  <2> DEFINE I == {i \in 1..Len(q) : q[i] = e}
             m == Min(I)
  <2>1. I \subseteq Nat /\ I # {}
    BY <1>1
  <2>2. m \in I
    BY <2>1, MinOfSet, Zenon
  <2>3. RemoveFirst(q, e) = RemoveAt(q, m)
    BY <1>1, <2>1 DEF RemoveFirst, SelectInSeq
  <2>4. m \in 1..Len(q) /\ q[m] = e
    BY <2>2
  <2> HIDE DEF m
  <2> QED
    BY <2>3, <2>4, RemoveAtInjective
<1>2. CASE ~\E i \in 1..Len(q) : q[i] = e
  <2>1. RemoveFirst(q, e) = q
    BY <1>2 DEF RemoveFirst
  <2>2. e \notin ToSet(q)
    BY <1>0, <1>2 DEF ToSet
  <2> QED
    BY <2>1, <2>2
<1> QED
  BY <1>1, <1>2

\* An element that moves to the front.
LEMMA MoveToFront ==
    ASSUME NEW S, NEW q \in Seq(S), IsInjective(q), NEW i \in 1..Len(q)
    PROVE  /\ <<q[i]>> \o RemoveAt(q, i) \in Seq(S)
           /\ IsInjective(<<q[i]>> \o RemoveAt(q, i))
           /\ ToSet(<<q[i]>> \o RemoveAt(q, i)) = ToSet(q)
<1> DEFINE r == RemoveAt(q, i)
           s == <<q[i]>> \o r
<1>1. r \in Seq(S) /\ IsInjective(r) /\ ToSet(r) = ToSet(q) \ {q[i]}
  BY RemoveAtInjective
<1>2. q[i] \in S /\ q[i] \in ToSet(q)
  BY DEF ToSet
<1> HIDE DEF r
<1>3. /\ s \in Seq(S) /\ DOMAIN s = 1..(Len(r) + 1) /\ s[1] = q[i]
      /\ Len(r) \in Nat /\ DOMAIN r = 1..Len(r)
      /\ \A j \in 2..(Len(r) + 1) : s[j] = r[j - 1]
  BY <1>1, <1>2
<1> HIDE DEF s
<1>4. \A j \in 1..Len(r) : r[j] # q[i] /\ r[j] \in ToSet(q)
  BY <1>1, <1>3 DEF ToSet
<1>5. \A j, k \in 1..Len(r) : r[j] = r[k] => j = k
  BY <1>1, <1>3 DEF IsInjective
<1>6. \A j, k \in DOMAIN s : s[j] = s[k] => j = k
  BY <1>3, <1>4, <1>5
<1>7. \A j \in DOMAIN s : s[j] \in ToSet(q)
  BY <1>2, <1>3, <1>4
<1>8. ASSUME NEW x \in ToSet(q)
      PROVE  \E j \in DOMAIN s : s[j] = x
  <2>1. CASE x = q[i]
    BY <2>1, <1>3
  <2>2. CASE x # q[i]
    <3>0. x \in ToSet(r)
      BY <2>2, <1>1
    <3>1. PICK k \in 1..Len(r) : r[k] = x
      BY <3>0, <1>3 DEF ToSet
    <3>2. k + 1 \in DOMAIN s /\ s[k + 1] = x
      BY <3>1, <1>3
    <3> QED
      BY <3>2
  <2> QED
    BY <2>1, <2>2
<1>9. ToSet(s) = ToSet(q)
  BY <1>7, <1>8, Zenon DEF ToSet
<1> QED
  BY <1>3, <1>6, <1>9 DEF s, r, IsInjective

\* A sequence is one over any set that has its elements.
LEMMA SeqOver ==
    ASSUME NEW S, NEW q \in Seq(S), NEW D, ToSet(q) \subseteq D
    PROVE  q \in Seq(D)
<1>1. Len(q) \in Nat /\ DOMAIN q = 1..Len(q) /\ q = [i \in 1..Len(q) |-> q[i]]
  OBVIOUS
<1>2. \A i \in 1..Len(q) : q[i] \in D
  BY <1>1 DEF ToSet
<1>3. q \in [1..Len(q) -> D]
  BY <1>1, <1>2
<1> QED
  BY <1>1, <1>3

\* A sequence without elements is empty.
LEMMA EmptyToSet ==
    ASSUME NEW S, NEW q \in Seq(S), ToSet(q) = {}
    PROVE  q = <<>>
<1>1. Len(q) \in Nat /\ DOMAIN q = 1..Len(q)
  OBVIOUS
<1>2. Len(q) # 0 => q[1] \in ToSet(q)
  BY <1>1 DEF ToSet
<1>3. Len(q) = 0
  BY <1>1, <1>2
<1> QED
  BY <1>3

\* A new element at the end.
LEMMA AppendNew ==
    ASSUME NEW S, NEW q \in Seq(S), IsInjective(q), NEW e, e \notin ToSet(q)
    PROVE  /\ Append(q, e) \in Seq(S \cup {e})
           /\ IsInjective(Append(q, e))
           /\ ToSet(Append(q, e)) = ToSet(q) \cup {e}
<1> DEFINE s == Append(q, e)
<1>1. /\ DOMAIN q = 1..Len(q) /\ Len(q) \in Nat
      /\ s \in Seq(S \cup {e}) /\ DOMAIN s = 1..(Len(q) + 1)
      /\ s[Len(q) + 1] = e /\ \A j \in 1..Len(q) : s[j] = q[j]
  OBVIOUS
<1> HIDE DEF s
<1>2. \A j \in 1..Len(q) : q[j] # e
  BY <1>1 DEF ToSet
<1>3. \A j, k \in DOMAIN s : s[j] = s[k] => j = k
  BY <1>1, <1>2 DEF IsInjective
<1>4. \A j \in DOMAIN s : s[j] \in ToSet(q) \cup {e}
  BY <1>1 DEF ToSet
<1>5. ASSUME NEW x \in ToSet(q) \cup {e}
      PROVE  \E j \in DOMAIN s : s[j] = x
  BY <1>1 DEF ToSet
<1>6. ToSet(s) = ToSet(q) \cup {e}
  BY <1>4, <1>5, Zenon DEF ToSet
<1> QED
  BY <1>1, <1>3, <1>6 DEF s, IsInjective

(***************************************************************************)
(* Functions defined by recursion on the natural numbers.  The step is a   *)
(* function, not an operator, so that the provers can be given it.         *)
(***************************************************************************)

\* g is the recursion from base by step, up to n.
IsRun(g, n, T, base, step) ==
    /\ g \in [0..n -> T] /\ g[0] = base
    /\ \A i \in 1..n : g[i] = step[<<i, g[i - 1]>>]

LEMMA RunsExist ==
    ASSUME NEW T, NEW base \in T, NEW step \in [Nat \X T -> T], NEW n \in Nat
    PROVE  \E g : IsRun(g, n, T, base, step)
<1> DEFINE Bad == {m \in Nat : ~(\E g : IsRun(g, m, T, base, step))}
<1> SUFFICES ASSUME Bad # {} PROVE FALSE
  OBVIOUS
<1>1. PICK m \in Bad : \A k \in Bad : m <= k
  <2>1. Bad \subseteq Nat
    OBVIOUS
  <2> QED
    BY <2>1, NatMin, Zenon
<1>2. m \in Nat /\ ~(\E g : IsRun(g, m, T, base, step))
  OBVIOUS
<1>3. CASE m = 0
  <2> DEFINE g == [i \in 0..0 |-> base]
  <2>1. IsRun(g, 0, T, base, step)
    BY DEF IsRun
  <2> QED
    BY <1>2, <1>3, <2>1
<1>4. CASE m # 0
  <2>1. m - 1 \in Nat /\ m - 1 \notin Bad
    BY <1>1, <1>2, <1>4
  <2>2. PICK f : IsRun(f, m - 1, T, base, step)
    BY <2>1
  <2>3. /\ f \in [0..(m - 1) -> T] /\ f[0] = base
        /\ \A i \in 1..(m - 1) : f[i] = step[<<i, f[i - 1]>>]
    BY <2>2 DEF IsRun
  <2>4. f[m - 1] \in T /\ <<m, f[m - 1]>> \in Nat \X T
    BY <1>2, <2>1, <2>3
  <2>5. PICK v \in T : v = step[<<m, f[m - 1]>>]
    BY <2>4
  <2> DEFINE g == [i \in 0..m |-> IF i = m THEN v ELSE f[i]]
  <2>6. g \in [0..m -> T] /\ g[0] = base
    BY <1>2, <1>4, <2>3
  <2>7. ASSUME NEW i \in 1..m PROVE g[i] = step[<<i, g[i - 1]>>]
    <3>1. g[i - 1] = f[i - 1]
      BY <1>2
    <3>2. CASE i = m
      <4>1. g[m] = v
        BY <1>2
      <4> HIDE DEF g
      <4> QED
        BY <2>5, <3>1, <3>2, <4>1
    <3>3. CASE i # m
      <4>1. i \in 1..(m - 1) /\ g[i] = f[i]
        BY <1>2, <3>3
      <4> QED
        BY <2>3, <3>1, <4>1
    <3> QED
      BY <3>2, <3>3
  <2>8. IsRun(g, m, T, base, step)
    <3> HIDE DEF g
    <3> QED
      BY <2>6, <2>7 DEF IsRun
  <2> QED
    BY <1>2, <2>8
<1> QED
  BY <1>3, <1>4

\* Two such functions agree where both are defined.
LEMMA RunsAgree ==
    ASSUME NEW T, NEW base, NEW step, NEW m \in Nat, NEW n \in Nat, m <= n,
           NEW f, IsRun(f, m, T, base, step), NEW g, IsRun(g, n, T, base, step)
    PROVE  \A i \in 0..m : f[i] = g[i]
<1> DEFINE Bad == {i \in 0..m : f[i] # g[i]}
<1> SUFFICES ASSUME Bad # {} PROVE FALSE
  OBVIOUS
<1>1. PICK i \in Bad : \A k \in Bad : i <= k
  <2>1. Bad \subseteq Nat
    OBVIOUS
  <2> QED
    BY <2>1, NatMin, Zenon
<1>2. i \in 0..m /\ f[i] # g[i]
  OBVIOUS
<1>3. i # 0
  BY <1>2 DEF IsRun
<1>4. i - 1 \in 0..m /\ i - 1 \notin Bad /\ i \in 1..m /\ i \in 1..n
  BY <1>1, <1>2, <1>3
<1>5. f[i - 1] = g[i - 1]
  BY <1>4
<1>6. f[i] = step[<<i, f[i - 1]>>] /\ g[i] = step[<<i, g[i - 1]>>]
  BY <1>4 DEF IsRun
<1> QED
  BY <1>2, <1>5, <1>6

\* f is the recursion for all numbers.
IsRecursion(f, T, base, step) ==
    /\ f \in [Nat -> T] /\ f[0] = base
    /\ \A n \in Nat \ {0} : f[n] = step[<<n, f[n - 1]>>]

LEMMA Recursion ==
    ASSUME NEW T, NEW base \in T, NEW step \in [Nat \X T -> T]
    PROVE  \E f : IsRecursion(f, T, base, step)
<1> DEFINE Run(n) == CHOOSE g : IsRun(g, n, T, base, step)
<1>1. \A n \in Nat : IsRun(Run(n), n, T, base, step)
  <2> SUFFICES ASSUME NEW n \in Nat PROVE IsRun(Run(n), n, T, base, step)
    OBVIOUS
  <2>1. \E g : IsRun(g, n, T, base, step)
    BY RunsExist
  <2> QED
    BY <2>1, Zenon
<1> DEFINE f == [n \in Nat |-> Run(n)[n]]
<1> HIDE DEF Run
<1>2. ASSUME NEW n \in Nat PROVE Run(n)[n] \in T
  BY <1>1 DEF IsRun
<1>3. f \in [Nat -> T]
  BY <1>2
<1>4. f[0] = base
  BY <1>1 DEF IsRun
<1>5. ASSUME NEW n \in Nat \ {0} PROVE f[n] = step[<<n, f[n - 1]>>]
  <2>1. n - 1 \in Nat /\ n - 1 <= n /\ n - 1 \in 0..(n - 1) /\ n \in 1..n
    OBVIOUS
  <2>2. IsRun(Run(n), n, T, base, step) /\ IsRun(Run(n - 1), n - 1, T, base, step)
    BY <1>1, <2>1
  <2>3. Run(n - 1)[n - 1] = Run(n)[n - 1]
    BY <2>1, <2>2, RunsAgree
  <2>4. Run(n)[n] = step[<<n, Run(n)[n - 1]>>]
    BY <2>1, <2>2 DEF IsRun
  <2> QED
    BY <2>1, <2>3, <2>4
<1> HIDE DEF f
<1> QED
  BY <1>3, <1>4, <1>5 DEF IsRecursion

(***************************************************************************)
(* FlattenSeq: the parts of a sequence of sequences put together.          *)
(***************************************************************************)

\* The parts put together up to each place.
IsFlat(g, s, n, V) ==
    /\ g \in [1..n -> Seq(V)] /\ g[1] = s[1]
    /\ \A i \in 2..n : g[i] = g[i - 1] \o s[i]

\* FlattenSeq has the partial results that its definition calls for.
LEMMA FlatExists ==
    ASSUME NEW V, NEW s \in Seq(Seq(V)), NEW n \in Nat, n = Len(s), n # 0
    PROVE  \E g : IsFlat(g, s, n, V) /\ FlattenSeq(s) = g[n]
<1> DEFINE T == Seq(V)
           Next1(i, q) == q \o s[i]
           step == [x \in Nat \X T |-> IF x[1] \in 1..n THEN Next1(x[1], x[2]) ELSE x[2]]
           Rec(f) == [i \in 1..Len(s) |-> IF i = 1 THEN s[i] ELSE f[i - 1] \o s[i]]
<1>1. <<>> \in T
  OBVIOUS
<1>2. ASSUME NEW i \in 1..n, NEW q \in T PROVE Next1(i, q) \in T
  <2>1. s[i] \in Seq(V)
    OBVIOUS
  <2> QED
    BY <2>1
<1>3. step \in [Nat \X T -> T]
  <2> HIDE DEF T, Next1
  <2>1. ASSUME NEW x \in Nat \X T
        PROVE  (IF x[1] \in 1..n THEN Next1(x[1], x[2]) ELSE x[2]) \in T
    BY <1>2
  <2> QED
    BY <2>1
<1>4. PICK f : IsRun(f, n, T, <<>>, step)
  <2>1. PICK W, b, t : W = T /\ b = <<>> /\ t = step
    BY Zenon
  <2>2. b \in W /\ t \in [Nat \X W -> W]
    BY <1>1, <1>3, <2>1, Zenon
  <2>3. PICK f : IsRun(f, n, W, b, t)
    BY <2>2, RunsExist
  <2> HIDE DEF T, step
  <2> QED
    BY <2>1, <2>3, Zenon
<1>5. f \in [0..n -> T] /\ f[0] = <<>> /\ \A i \in 1..n : f[i] = step[<<i, f[i - 1]>>]
  <2> HIDE DEF T, step
  <2> QED
    BY <1>4 DEF IsRun
<1>6. ASSUME NEW i \in 1..n PROVE f[i] = Next1(i, f[i - 1])
  <2>1. i - 1 \in 0..n /\ i \in Nat
    OBVIOUS
  <2>2. <<i, f[i - 1]>> \in Nat \X T
    BY <1>5, <2>1
  <2> HIDE DEF T, Next1
  <2> QED
    BY <1>5, <2>2
<1>7. PICK h : h = [i \in 1..n |-> f[i]]
  OBVIOUS
<1>8. h \in [1..n -> Seq(V)] /\ h[1] = s[1] /\ \A i \in 2..n : h[i] = h[i - 1] \o s[i]
  <2>1. h \in [1..n -> Seq(V)]
    BY <1>5, <1>7
  <2>2. 1 \in 1..n /\ 1 - 1 = 0 /\ s[1] \in Seq(V)
    OBVIOUS
  <2>3. f[1] = <<>> \o s[1]
    <3>1. f[1] = f[1 - 1] \o s[1]
      BY <1>6, <2>2
    <3> QED
      BY <1>5, <2>2, <3>1
  <2>4. h[1] = s[1]
    BY <1>7, <2>2, <2>3
  <2>5. \A i \in 2..n : i \in 1..n /\ i - 1 \in 1..n
    OBVIOUS
  <2>6. \A i \in 2..n : h[i] = h[i - 1] \o s[i]
    BY <1>6, <1>7, <2>5
  <2> QED
    BY <2>1, <2>4, <2>6
<1>9. h = Rec(h)
  <2>1. \A i \in 1..n : i = 1 \/ i \in 2..n
    OBVIOUS
  <2>2. \A i \in 1..n : h[i] = IF i = 1 THEN s[i] ELSE h[i - 1] \o s[i]
    BY <1>8, <2>1
  <2> QED
    BY <1>8, <2>2
<1>10. PICK g : g = Rec(g) /\ FlattenSeq(s) = g[n]
  <2>1. \E A : A = Rec(A)
    BY <1>9
  <2>2. (CHOOSE A : A = Rec(A)) = Rec(CHOOSE A : A = Rec(A))
    <3> HIDE DEF Rec
    <3> QED
      BY <2>1, Zenon
  <2>3. FlattenSeq(s) = (CHOOSE A : A = Rec(A))[Len(s)]
    BY Zenon DEF FlattenSeq
  <2> HIDE DEF Rec
  <2> QED
    BY <2>2, <2>3, Zenon
<1>11. \A i \in 1..n : g[i] = IF i = 1 THEN s[i] ELSE g[i - 1] \o s[i]
  <2>1. \A i \in 1..n : Rec(g)[i] = IF i = 1 THEN s[i] ELSE g[i - 1] \o s[i]
    OBVIOUS
  <2> HIDE DEF Rec
  <2> QED
    BY <1>10, <2>1
<1>12. g = [i \in 1..n |-> g[i]]
  <2>1. DOMAIN Rec(g) = 1..n /\ Rec(g) = [i \in DOMAIN Rec(g) |-> Rec(g)[i]]
    OBVIOUS
  <2> HIDE DEF Rec
  <2> QED
    BY <1>10, <2>1
<1> HIDE DEF Rec, step
<1> DEFINE Bad == {i \in 1..n : g[i] \notin Seq(V)}
<1>13. Bad = {}
  <2> SUFFICES ASSUME Bad # {} PROVE FALSE
    OBVIOUS
  <2>1. PICK i \in Bad : \A j \in Bad : i <= j
    <3>1. Bad \subseteq Nat
      OBVIOUS
    <3> QED
      BY <3>1, NatMin, Zenon
  <2>2. s[i] \in Seq(V)
    BY <2>1
  <2>3. i # 1
    BY <1>11, <2>1, <2>2
  <2>4. i - 1 \in 1..n /\ ~(i <= i - 1)
    BY <2>1, <2>3
  <2>5. g[i - 1] \in Seq(V)
    BY <2>1, <2>4
  <2>6. g[i] = g[i - 1] \o s[i]
    BY <1>11, <2>1, <2>3
  <2>7. g[i - 1] \o s[i] \in Seq(V)
    BY <2>2, <2>5
  <2> QED
    BY <2>1, <2>6, <2>7
<1>14. IsFlat(g, s, n, V)
  <2>1. g \in [1..n -> Seq(V)]
    BY <1>12, <1>13
  <2>2. 1 \in 1..n /\ \A i \in 2..n : i \in 1..n /\ i # 1
    OBVIOUS
  <2>3. g[1] = s[1]
    BY <1>11, <2>2
  <2>4. \A i \in 2..n : g[i] = g[i - 1] \o s[i]
    BY <1>11, <2>2
  <2> QED
    BY <2>1, <2>3, <2>4 DEF IsFlat
<1> QED
  BY <1>10, <1>14

\* Nothing but empty parts.
LEMMA FlattenNone ==
    ASSUME NEW V, NEW s \in Seq(Seq(V)), \A i \in 1..Len(s) : s[i] = <<>>
    PROVE  FlattenSeq(s) = <<>>
<1>0. PICK n \in Nat : n = Len(s)
  OBVIOUS
<1>1. CASE n = 0
  <2>1. s = <<>>
    <3>1. PICK W : W = Seq(V)
      OBVIOUS
    <3>2. s \in Seq(W)
      BY <3>1
    <3> QED
      BY <1>0, <1>1, <3>2, EmptySeq
  <2> QED
    BY <1>0, <1>1, <2>1 DEF FlattenSeq
<1>2. CASE n # 0
  <2>1. PICK g : IsFlat(g, s, n, V) /\ FlattenSeq(s) = g[n]
    BY <1>0, <1>2, FlatExists
  <2>2. g[1] = s[1] /\ \A i \in 2..n : g[i] = g[i - 1] \o s[i]
    BY <2>1 DEF IsFlat
  <2> DEFINE Bad == {i \in 1..n : g[i] # <<>>}
  <2>3. Bad = {}
    <3> SUFFICES ASSUME Bad # {} PROVE FALSE
      OBVIOUS
    <3>1. PICK i \in Bad : \A j \in Bad : i <= j
      <4>1. Bad \subseteq Nat
        OBVIOUS
      <4> QED
        BY <4>1, NatMin, Zenon
    <3>2. i # 1
      BY <1>0, <2>2, <3>1
    <3>3. i - 1 \in 1..n /\ ~(i <= i - 1) /\ i \in 2..n
      BY <3>1, <3>2
    <3>4. g[i - 1] = <<>>
      BY <3>1, <3>3
    <3>5. g[i] = <<>> \o <<>>
      BY <1>0, <2>2, <3>3, <3>4
    <3> QED
      BY <3>1, <3>5
  <2>4. n \in 1..n
    BY <1>2
  <2> QED
    BY <2>1, <2>3, <2>4
<1> QED
  BY <1>1, <1>2

\* A part that was empty, with nothing behind it, goes to the end.
LEMMA FlattenGrow ==
    ASSUME NEW V, NEW s \in Seq(Seq(V)), NEW t \in Seq(Seq(V)),
           NEW n \in Nat, n = Len(s), n = Len(t), NEW k \in 1..n,
           \A i \in k..n : s[i] = <<>>, \A i \in 1..n : i # k => t[i] = s[i]
    PROVE  FlattenSeq(t) = FlattenSeq(s) \o t[k]
<1>0. n # 0
  OBVIOUS
<1>1. PICK g : IsFlat(g, s, n, V) /\ FlattenSeq(s) = g[n]
  BY <1>0, FlatExists
<1>2. PICK h : IsFlat(h, t, n, V) /\ FlattenSeq(t) = h[n]
  BY <1>0, FlatExists
<1>3. /\ \A i \in 1..n : g[i] \in Seq(V)
      /\ g[1] = s[1] /\ \A i \in 2..n : g[i] = g[i - 1] \o s[i]
  BY <1>1 DEF IsFlat
<1>4. /\ \A i \in 1..n : h[i] \in Seq(V)
      /\ h[1] = t[1] /\ \A i \in 2..n : h[i] = h[i - 1] \o t[i]
  BY <1>2 DEF IsFlat
<1>5. t[k] \in Seq(V) /\ 1 \in 1..n
  OBVIOUS
<1>6. PICK e : e = t[k]
  OBVIOUS
<1> DEFINE Bad == {i \in 1..n : h[i] # IF i < k THEN g[i] ELSE g[i] \o e}
<1>7. Bad = {}
  <2> SUFFICES ASSUME Bad # {} PROVE FALSE
    OBVIOUS
  <2>1. PICK i \in Bad : \A j \in Bad : i <= j
    <3>1. Bad \subseteq Nat
      OBVIOUS
    <3> QED
      BY <3>1, NatMin, Zenon
  <2>2. i \in 1..n /\ k \in Int
    OBVIOUS
  <2>3. CASE i = 1
    <3>1. CASE k = 1
      <4>1. g[1] = <<>> /\ h[1] = e
        BY <1>3, <1>4, <1>6, <3>1
      <4>2. <<>> \o e = e
        BY <1>5, <1>6
      <4>3. ~(i < k)
        BY <2>3, <3>1
      <4> QED
        BY <2>1, <2>3, <4>1, <4>2, <4>3
    <3>2. CASE k # 1
      <4>1. 1 < k
        BY <3>2
      <4>2. t[1] = s[1]
        BY <1>5, <3>2
      <4> QED
        BY <1>3, <1>4, <2>1, <2>3, <4>1, <4>2
    <3> QED
      BY <3>1, <3>2
  <2>4. CASE i # 1
    <3>1. i - 1 \in 1..n /\ ~(i <= i - 1) /\ i \in 2..n
      BY <2>2, <2>4
    <3>2. h[i - 1] = IF i - 1 < k THEN g[i - 1] ELSE g[i - 1] \o e
      BY <2>1, <3>1
    <3>3. h[i] = h[i - 1] \o t[i] /\ g[i] = g[i - 1] \o s[i]
      BY <1>3, <1>4, <3>1
    <3>4. PICK a \in Seq(V) : a = g[i - 1]
      BY <1>3, <3>1
    <3>5. CASE i < k
      <4>1. t[i] = s[i] /\ i - 1 < k
        BY <2>2, <3>5
      <4> QED
        BY <2>1, <3>2, <3>3, <3>5, <4>1
    <3>6. CASE i = k
      <4>1. s[i] = <<>> /\ i - 1 < k /\ ~(i < k) /\ t[i] = e
        BY <1>6, <3>6
      <4>2. a \o <<>> = a
        OBVIOUS
      <4>3. h[i] = a \o e /\ g[i] = a
        BY <3>2, <3>3, <3>4, <4>1, <4>2
      <4> QED
        BY <2>1, <3>4, <4>1, <4>3
    <3>7. CASE i > k
      <4>1. i \in k..n /\ ~(i - 1 < k) /\ ~(i < k) /\ i # k
        BY <2>2, <3>7
      <4>2. s[i] = <<>> /\ t[i] = <<>>
        BY <2>2, <4>1
      <4>3. a \o <<>> = a /\ (a \o e) \o <<>> = a \o e
        BY <1>5, <1>6
      <4>4. h[i] = a \o e /\ g[i] = a
        BY <3>2, <3>3, <3>4, <4>1, <4>2, <4>3
      <4> QED
        BY <2>1, <4>1, <4>4
    <3> QED
      BY <2>2, <3>5, <3>6, <3>7
  <2> QED
    BY <2>3, <2>4
<1>8. n \in 1..n /\ ~(n < k)
  OBVIOUS
<1>9. h[n] = g[n] \o e
  BY <1>7, <1>8
<1> QED
  BY <1>1, <1>2, <1>6, <1>9

\* The parts put together are a sequence of what they are sequences of.
LEMMA FlattenType ==
    ASSUME NEW V, NEW s \in Seq(Seq(V))
    PROVE  FlattenSeq(s) \in Seq(V)
<1>1. PICK n \in Nat : n = Len(s)
  OBVIOUS
<1>2. CASE n = 0
  <2>1. \A i \in 1..Len(s) : s[i] = <<>>
    BY <1>1, <1>2
  <2>2. FlattenSeq(s) = <<>>
    BY <2>1, FlattenNone
  <2> QED
    BY <2>2
<1>3. CASE n # 0
  <2>1. PICK g : IsFlat(g, s, n, V) /\ FlattenSeq(s) = g[n]
    BY <1>1, <1>3, FlatExists
  <2>2. g \in [1..n -> Seq(V)] /\ n \in 1..n
    BY <1>3, <2>1 DEF IsFlat
  <2> QED
    BY <2>1, <2>2
<1> QED
  BY <1>2, <1>3

(***************************************************************************)
(* Ranks.                                                                  *)
(***************************************************************************)

\* Each number up to the size of the set is the rank of an element.
Ranked(S) == \A i \in 1..Cardinality(S) : OfRank(S, i) # {}

\* A larger number gets the next rank and leaves the others theirs.
LEMMA RankAdd ==
    ASSUME NEW S \in SUBSET Nat, IsFiniteSet(S), NEW K \in Nat, \A j \in S : j < K
    PROVE  /\ Cardinality(S \cup {K}) = Cardinality(S) + 1
           /\ \A i \in 1..Cardinality(S) : OfRank(S \cup {K}, i) = OfRank(S, i)
           /\ OfRank(S \cup {K}, Cardinality(S) + 1) = {K}
<1>1. K \notin S
  OBVIOUS
<1>2. Cardinality(S \cup {K}) = Cardinality(S) + 1
  BY <1>1, FS_AddElement
<1>3. PICK c \in Nat : c = Cardinality(S)
  BY FS_CardinalityType
<1>4. Below(S \cup {K}, K) = S
  <2>1. ~(K < K)
    OBVIOUS
  <2>2. \A j : j \in Below(S \cup {K}, K) <=> j \in S
    BY <2>1 DEF Below
  <2> QED
    BY <2>2
<1>5. \A k \in S : Below(S \cup {K}, k) = Below(S, k)
  BY DEF Below
<1>6. ASSUME NEW k \in S PROVE Cardinality(Below(S, k)) # c
  <2>1. Below(S, k) \in SUBSET S /\ k \notin Below(S, k)
    BY DEF Below
  <2>2. Cardinality(Below(S, k)) < Cardinality(S)
    <3>1. PICK B : B = Below(S, k)
      OBVIOUS
    <3>2. Cardinality(B) <= Cardinality(S) /\ (Cardinality(B) = Cardinality(S) => B = S)
      BY <2>1, <3>1, FS_Subset
    <3>3. B # S
      BY <2>1, <3>1
    <3>4. Cardinality(B) \in Nat
      BY <2>1, <3>1, FS_Subset, FS_CardinalityType
    <3> QED
      BY <1>3, <3>1, <3>2, <3>3, <3>4
  <2>3. Cardinality(Below(S, k)) \in Nat
    BY <2>1, FS_Subset, FS_CardinalityType
  <2> QED
    BY <1>3, <2>2, <2>3
<1>7. ASSUME NEW i \in 1..c PROVE OfRank(S \cup {K}, i) = OfRank(S, i)
  <2>1. Cardinality(Below(S \cup {K}, K)) # i - 1
    BY <1>3, <1>4
  <2> QED
    BY <1>5, <2>1 DEF OfRank
<1>8. OfRank(S \cup {K}, c + 1) = {K}
  <2>1. (c + 1) - 1 = c
    OBVIOUS
  <2>2. \A k \in S : Cardinality(Below(S \cup {K}, k)) # c
    BY <1>5, <1>6
  <2>3. Cardinality(Below(S \cup {K}, K)) = c
    BY <1>3, <1>4
  <2> QED
    BY <2>1, <2>2, <2>3 DEF OfRank
<1> QED
  BY <1>2, <1>3, <1>7, <1>8

\* The element of a rank is an element.
LEMMA NthIn ==
    ASSUME NEW S, Ranked(S), NEW i \in 1..Cardinality(S)
    PROVE  Nth(S, i) \in S
<1>1. OfRank(S, i) # {}
  BY DEF Ranked
<1>2. Nth(S, i) \in OfRank(S, i)
  BY <1>1 DEF Nth
<1> QED
  BY <1>2 DEF OfRank

\* Two maps with the same values under the keys have the same list.
LEMMA ListSame ==
    ASSUME NEW S, NEW f, NEW g, Ranked(S), \A k \in S : g[k] = f[k]
    PROVE  Listed(g, S) = Listed(f, S)
<1>1. \A i \in 1..Cardinality(S) : g[Nth(S, i)] = f[Nth(S, i)]
  BY NthIn
<1> QED
  BY <1>1 DEF Listed

\* The map g has the values in H that f has under the keys in S, and one more.
OneMore(f, g, S, K, H) ==
    (\A k \in S : g[k] = f[k] /\ f[k] \in H) /\ g[K] \in H

\* A larger key goes to the end.
LEMMA ListAdd ==
    ASSUME NEW S \in SUBSET Nat, IsFiniteSet(S), NEW K \in Nat, \A j \in S : j < K,
           NEW f, NEW g, NEW H, Ranked(S), OneMore(f, g, S, K, H)
    PROVE  /\ Ranked(S \cup {K})
           /\ Listed(f, S) \in Seq(H) /\ Len(Listed(f, S)) = Cardinality(S)
           /\ Listed(g, S \cup {K}) = Append(Listed(f, S), g[K])
<1>0. (\A k \in S : g[k] = f[k] /\ f[k] \in H) /\ g[K] \in H
  BY DEF OneMore
<1>1. PICK c \in Nat : c = Cardinality(S)
  BY FS_CardinalityType
<1>2. PICK T : T = S \cup {K}
  OBVIOUS
<1>3. /\ Cardinality(T) = c + 1
      /\ \A i \in 1..c : OfRank(T, i) = OfRank(S, i)
      /\ OfRank(T, c + 1) = {K}
  BY <1>1, <1>2, RankAdd
<1>4. \A i \in 1..c : OfRank(S, i) # {}
  BY <1>1 DEF Ranked
<1>5. Ranked(T)
  <2>1. \A i \in 1..(c + 1) : i = c + 1 \/ i \in 1..c
    OBVIOUS
  <2>2. \A i \in 1..(c + 1) : OfRank(T, i) # {}
    BY <1>3, <1>4, <2>1
  <2> QED
    BY <1>3, <2>2 DEF Ranked
<1>6. \A i \in 1..c : Nth(T, i) = Nth(S, i) /\ Nth(S, i) \in S
  BY <1>1, <1>3, NthIn DEF Nth
<1>7. Nth(T, c + 1) = K
  <2>1. (CHOOSE k \in {K} : TRUE) = K
    OBVIOUS
  <2> QED
    BY <1>3, <2>1 DEF Nth
<1>8. PICK s : s = [i \in 1..c |-> f[Nth(S, i)]]
  OBVIOUS
<1>9. Listed(f, S) = s /\ s \in Seq(H) /\ Len(s) = c
  <2>1. \A i \in 1..c : f[Nth(S, i)] \in H
    BY <1>0, <1>6
  <2>2. s \in [1..c -> H]
    BY <1>8, <2>1
  <2> QED
    BY <1>1, <1>8, <2>2 DEF Listed
<1>10. \A i \in 1..(c + 1) : g[Nth(T, i)] = IF i = c + 1 THEN g[K] ELSE s[i]
  <2>1. \A i \in 1..(c + 1) : i = c + 1 \/ i \in 1..c
    OBVIOUS
  <2>2. \A i \in 1..c : g[Nth(T, i)] = s[i]
    <3>1. \A i \in 1..c : s[i] = f[Nth(S, i)]
      BY <1>8
    <3> QED
      BY <1>0, <1>6, <3>1
  <2>3. c + 1 \notin 1..c
    OBVIOUS
  <2> QED
    BY <1>7, <2>1, <2>2, <2>3
<1>11. Listed(g, T) = [i \in 1..(c + 1) |-> IF i = c + 1 THEN g[K] ELSE s[i]]
  BY <1>3, <1>10 DEF Listed
<1>12. Append(s, g[K]) = [i \in 1..(c + 1) |-> IF i = c + 1 THEN g[K] ELSE s[i]]
  BY <1>9
<1> QED
  BY <1>1, <1>2, <1>5, <1>9, <1>11, <1>12

\* Every set of numbers up to b has an element of each rank.
LEMMA RanksExist ==
    ASSUME NEW b \in Nat, NEW S, S \subseteq 0..b
    PROVE  IsFiniteSet(S) /\ Cardinality(S) \in Nat /\ Ranked(S)
<1>1. \A n \in Nat : \A T : T \subseteq 0..n => IsFiniteSet(T)
  <2> TAKE n \in Nat
  <2> TAKE T
  <2>1. IsFiniteSet(0..n)
    BY FS_Interval
  <2> QED
    BY <2>1, FS_Subset
<1> DEFINE Unranked == {n \in Nat : \E T \in SUBSET (0..n) : ~Ranked(T)}
<1>2. Unranked = {}
  <2> SUFFICES ASSUME Unranked # {} PROVE FALSE
    OBVIOUS
  <2>1. PICK n \in Unranked : \A m \in Unranked : n <= m
    BY NatMin, Zenon
  <2>2. PICK T \in SUBSET (0..n) : ~Ranked(T)
    OBVIOUS
  <2>3. PICK R : R = T \ {n}
    OBVIOUS
  <2>4. Ranked(R)
    <3>1. CASE n = 0
      <4>1. R = {}
        BY <2>2, <2>3, <3>1
      <4>2. Cardinality(R) = 0
        BY <4>1, FS_EmptySet
      <4> QED
        BY <4>2 DEF Ranked
    <3>2. CASE n # 0
      <4>1. n - 1 \in Nat /\ ~(n <= n - 1)
        BY <3>2
      <4>2. R \in SUBSET (0..(n - 1))
        BY <2>2, <2>3, <3>2
      <4>3. n - 1 \notin Unranked
        BY <2>1, <4>1
      <4> QED
        BY <4>1, <4>2, <4>3
    <3> QED
      BY <3>1, <3>2
  <2>5. CASE n \notin T
    BY <2>2, <2>3, <2>4, <2>5
  <2>6. CASE n \in T
    <3>1. T = R \cup {n} /\ R \in SUBSET Nat /\ \A j \in R : j < n
      BY <2>2, <2>3, <2>6
    <3>2. IsFiniteSet(R)
      BY <1>1, <2>2, <2>3
    <3>3. PICK c \in Nat : c = Cardinality(R)
      BY <3>2, FS_CardinalityType
    <3>4. /\ Cardinality(T) = c + 1
          /\ \A i \in 1..c : OfRank(T, i) = OfRank(R, i)
          /\ OfRank(T, c + 1) = {n}
      BY <3>1, <3>2, <3>3, RankAdd
    <3>5. \A i \in 1..(c + 1) : i = c + 1 \/ i \in 1..c
      OBVIOUS
    <3>6. \A i \in 1..c : OfRank(R, i) # {}
      BY <2>4, <3>3 DEF Ranked
    <3>7. \A i \in 1..(c + 1) : OfRank(T, i) # {}
      BY <3>4, <3>5, <3>6
    <3> QED
      BY <2>2, <3>4, <3>7 DEF Ranked
  <2> QED
    BY <2>5, <2>6
<1>3. IsFiniteSet(S)
  BY <1>1
<1>4. Ranked(S)
  BY <1>2
<1> QED
  BY <1>3, <1>4, FS_CardinalityType

\* The list of the values under a set of numbers is a sequence of them, and is
\* empty only when the set is.
LEMMA ListedFacts ==
    ASSUME NEW b \in Nat, NEW S, S \subseteq 0..b, NEW f, NEW H,
           \A k \in S : f[k] \in H
    PROVE  /\ Listed(f, S) \in Seq(H) /\ Len(Listed(f, S)) = Cardinality(S)
           /\ Listed(f, S) = <<>> <=> S = {}
<1>1. IsFiniteSet(S) /\ Ranked(S)
  BY RanksExist
<1>2. PICK c \in Nat : c = Cardinality(S)
  BY RanksExist
<1>3. \A i \in 1..c : f[Nth(S, i)] \in H
  BY <1>1, <1>2, NthIn
<1>4. PICK s : s = [i \in 1..c |-> f[Nth(S, i)]]
  OBVIOUS
<1>5. s \in [1..c -> H]
  BY <1>3, <1>4
<1>6. s \in Seq(H) /\ Len(s) = c
  BY <1>5
<1>7. Listed(f, S) = s
  BY <1>2, <1>4 DEF Listed
<1>8. c = 0 <=> S = {}
  BY <1>1, <1>2, FS_EmptySet
<1>9. s = <<>> <=> c = 0
  BY <1>6
<1> QED
  BY <1>2, <1>6, <1>7, <1>8, <1>9

(***************************************************************************)
(* SumFunctionOnSet: the sum of a function over a finite set.              *)
(***************************************************************************)

Some(s) == CHOOSE x \in s : TRUE

\* g is the sum of f over each subset of S.
IsSum(g, f, S) ==
    g = [s \in SUBSET S |-> IF s = {} THEN 0 ELSE f[Some(s)] + g[s \ {Some(s)}]]

LEMMA SumDef ==
    ASSUME NEW f, NEW S
    PROVE  SumFunctionOnSet(f, S) = (CHOOSE g : IsSum(g, f, S))[S]
BY Zenon DEF SumFunctionOnSet, FoldFunctionOnSet, MapThenFoldSet, IsSum, Some

LEMMA SomeIn ==
    ASSUME NEW s, s # {}
    PROVE  Some(s) \in s
BY Zenon DEF Some

\* A finite set without one of its elements.
LEMMA OneLess ==
    ASSUME NEW s, IsFiniteSet(s), NEW x \in s
    PROVE  /\ Cardinality(s) \in Nat \ {0} /\ IsFiniteSet(s \ {x})
           /\ Cardinality(s \ {x}) = Cardinality(s) - 1
<1>1. IsFiniteSet(s \ {x}) /\ Cardinality(s \ {x}) = Cardinality(s) - 1
  BY FS_RemoveElement
<1>2. Cardinality(s) \in Nat /\ Cardinality(s \ {x}) \in Nat
  BY <1>1, FS_CardinalityType
<1> QED
  BY <1>1, <1>2

\* The sums exist: by recursion over the size of the subset.
LEMMA SumExists ==
    ASSUME NEW S, IsFiniteSet(S), NEW f, \A x \in S : f[x] \in Int
    PROVE  \E g : IsSum(g, f, S) /\ g \in [SUBSET S -> Int]
<1> DEFINE T == [SUBSET S -> Int]
           zero == [s \in SUBSET S |-> 0]
           more(p) == [s \in SUBSET S |->
                          IF s = {} THEN 0 ELSE f[Some(s)] + p[2][s \ {Some(s)}]]
           step == [p \in Nat \X T |-> more(p)]
<1>1. zero \in T
  OBVIOUS
<1>2. \A s \in SUBSET S : s # {} =>
          Some(s) \in S /\ f[Some(s)] \in Int /\ s \ {Some(s)} \in SUBSET S
  BY SomeIn
<1>3. ASSUME NEW p \in Nat \X T
      PROVE  more(p) \in T
  <2>1. p[2] \in T
    BY <1>3
  <2>2. \A s \in SUBSET S : s # {} => p[2][s \ {Some(s)}] \in Int
    BY <1>2, <2>1
  <2> QED
    BY <1>2, <2>2
<1>4. step \in [Nat \X T -> T]
  <2> HIDE DEF more, T
  <2> QED
    BY <1>3
<1>5. PICK h : IsRecursion(h, T, zero, step)
  <2> HIDE DEF T, zero, step
  <2> QED
    BY <1>1, <1>4, Recursion
<1>6. /\ h \in [Nat -> T] /\ h[0] = zero
      /\ \A n \in Nat \ {0} : h[n] = step[<<n, h[n - 1]>>]
  BY <1>5 DEF IsRecursion
<1>7. \A n \in Nat \ {0} : h[n] = more(<<n, h[n - 1]>>)
  <2> TAKE n \in Nat \ {0}
  <2>1. <<n, h[n - 1]>> \in Nat \X T
    <3> HIDE DEF T
    <3> QED
      BY <1>6
  <2> HIDE DEF more, T
  <2> QED
    BY <1>6, <2>1
<1> DEFINE g == [s \in SUBSET S |-> h[Cardinality(s)][s]]
<1>8. \A s \in SUBSET S : IsFiniteSet(s) /\ Cardinality(s) \in Nat
  BY FS_Subset, FS_CardinalityType
<1>9. g \in [SUBSET S -> Int]
  BY <1>6, <1>8
<1>10. ASSUME NEW s \in SUBSET S
       PROVE  g[s] = IF s = {} THEN 0 ELSE f[Some(s)] + g[s \ {Some(s)}]
  <2>1. CASE s = {}
    <3>1. Cardinality(s) = 0
      BY <2>1, FS_EmptySet
    <3> QED
      BY <1>6, <2>1, <3>1
  <2>2. CASE s # {}
    <3> DEFINE n == Cardinality(s)
               r == s \ {Some(s)}
    <3>1. Some(s) \in s /\ r \in SUBSET S
      BY <1>2, <2>2, SomeIn
    <3>2. n \in Nat \ {0} /\ Cardinality(r) = n - 1
      BY <1>8, <3>1, OneLess
    <3>3. g[s] = h[n][s] /\ g[r] = h[n - 1][r]
      BY <3>1, <3>2
    <3>4. h[n] = more(<<n, h[n - 1]>>)
      BY <1>7, <3>2
    <3>5. h[n][s] = f[Some(s)] + h[n - 1][r]
      BY <2>2, <3>4
    <3> HIDE DEF g, n, r
    <3> QED
      BY <2>2, <3>3, <3>5 DEF r
  <2> QED
    BY <2>1, <2>2
<1>11. g = [s \in SUBSET S |-> IF s = {} THEN 0 ELSE f[Some(s)] + g[s \ {Some(s)}]]
  <2> DEFINE k == [s \in SUBSET S |-> IF s = {} THEN 0 ELSE f[Some(s)] + g[s \ {Some(s)}]]
  <2>1. \A s \in SUBSET S : k[s] = g[s]
    <3> HIDE DEF g
    <3> QED
      BY <1>10
  <2>2. g = [s \in SUBSET S |-> g[s]]
    <3> HIDE DEF g
    <3> QED
      BY <1>9
  <2>3. k = [s \in SUBSET S |-> k[s]]
    OBVIOUS
  <2> HIDE DEF g, k
  <2>4. g = k
    BY <2>1, <2>2, <2>3
  <2> QED
    BY <2>4 DEF k
<1> HIDE DEF g
<1> QED
  BY <1>9, <1>11 DEF IsSum


\* Two such functions agree on the sets on which the summed functions do.
LEMMA SumsAgree ==
    ASSUME NEW S, NEW R, NEW T, IsFiniteSet(T), T \subseteq S, T \subseteq R,
           NEW f, NEW e, \A x \in T : f[x] = e[x],
           NEW g, IsSum(g, f, S), NEW k, IsSum(k, e, R)
    PROVE  g[T] = k[T]
<1> DEFINE Bad == {s \in SUBSET T : g[s] # k[s]}
           Sizes == {Cardinality(s) : s \in Bad}
<1>1. \A s \in SUBSET T : IsFiniteSet(s) /\ Cardinality(s) \in Nat
  BY FS_Subset, FS_CardinalityType
<1>2. SUFFICES ASSUME Bad # {} PROVE FALSE
  OBVIOUS
<1>3. Sizes \subseteq Nat /\ Sizes # {}
  BY <1>1, <1>2
<1>4. PICK n \in Sizes : \A m \in Sizes : n <= m
  BY <1>3, NatMin, Zenon
<1>5. PICK s \in Bad : n = Cardinality(s)
  OBVIOUS
<1>6. s \in SUBSET T /\ g[s] # k[s]
  OBVIOUS
<1>7. /\ g[s] = IF s = {} THEN 0 ELSE f[Some(s)] + g[s \ {Some(s)}]
      /\ k[s] = IF s = {} THEN 0 ELSE e[Some(s)] + k[s \ {Some(s)}]
  BY <1>6 DEF IsSum
<1>8. s # {}
  BY <1>6, <1>7
<1>9. Some(s) \in s /\ f[Some(s)] = e[Some(s)]
  BY <1>6, <1>8, SomeIn
<1>10. s \ {Some(s)} \in SUBSET T /\ Cardinality(s \ {Some(s)}) = n - 1 /\ n \in Nat
  BY <1>1, <1>5, <1>6, <1>9, OneLess
<1>11. s \ {Some(s)} \notin Bad
  <2>1. ASSUME s \ {Some(s)} \in Bad PROVE FALSE
    <3>1. n - 1 \in Sizes
      BY <1>10, <2>1
    <3> HIDE DEF Sizes
    <3> QED
      BY <1>4, <1>10, <3>1
  <2> QED
    BY <2>1
<1> QED
  BY <1>6, <1>7, <1>8, <1>9, <1>10, <1>11

LEMMA SumIs ==
    ASSUME NEW S, IsFiniteSet(S), NEW T, T \subseteq S, NEW f, \A x \in S : f[x] \in Int,
           NEW g, IsSum(g, f, S)
    PROVE  SumFunctionOnSet(f, T) = g[T]
<1>1. IsFiniteSet(T) /\ \A x \in T : f[x] \in Int
  BY FS_Subset
<1>2. \E k : IsSum(k, f, T)
  BY <1>1, SumExists
<1>3. PICK k : k = CHOOSE h : IsSum(h, f, T)
  OBVIOUS
<1>4. IsSum(k, f, T)
  BY <1>2, <1>3, Zenon
<1>5. SumFunctionOnSet(f, T) = k[T]
  BY <1>3, SumDef, Zenon
<1>6. g[T] = k[T]
  BY <1>1, <1>4, SumsAgree
<1> QED
  BY <1>5, <1>6

\* The sum over no elements.
LEMMA SumEmpty ==
    ASSUME NEW f
    PROVE  SumFunctionOnSet(f, {}) = 0
<1>1. IsFiniteSet({})
  BY FS_EmptySet
<1>2. PICK g : IsSum(g, f, {})
  BY <1>1, SumExists
<1>3. SumFunctionOnSet(f, {}) = g[{}]
  BY <1>1, <1>2, SumIs
<1>4. g[{}] = 0
  BY <1>2 DEF IsSum
<1> QED
  BY <1>3, <1>4

\* A sum of integers is an integer.
LEMMA SumType ==
    ASSUME NEW S, IsFiniteSet(S), NEW f, \A x \in S : f[x] \in Int
    PROVE  SumFunctionOnSet(f, S) \in Int
<1>1. PICK g : IsSum(g, f, S) /\ g \in [SUBSET S -> Int]
  BY SumExists
<1>2. SumFunctionOnSet(f, S) = g[S]
  BY <1>1, SumIs
<1> QED
  BY <1>1, <1>2

\* Functions that agree on the set have the same sum over it.
LEMMA SumSame ==
    ASSUME NEW S, IsFiniteSet(S), NEW f, NEW e,
           \A x \in S : f[x] \in Int /\ f[x] = e[x]
    PROVE  SumFunctionOnSet(f, S) = SumFunctionOnSet(e, S)
<1>1. PICK g : IsSum(g, f, S)
  BY SumExists
<1>2. \A x \in S : e[x] \in Int
  OBVIOUS
<1>3. PICK k : IsSum(k, e, S)
  BY <1>2, SumExists
<1>4. SumFunctionOnSet(f, S) = g[S]
  BY <1>1, SumIs
<1>5. SumFunctionOnSet(e, S) = k[S]
  BY <1>2, <1>3, SumIs
<1>6. g[S] = k[S]
  <2>1. S \subseteq S /\ \A x \in S : f[x] = e[x]
    OBVIOUS
  <2> QED
    BY <1>1, <1>3, <2>1, SumsAgree
<1> QED
  BY <1>4, <1>5, <1>6

\* The order in which the elements are chosen does not matter.
LEMMA SumWithout ==
    ASSUME NEW S, IsFiniteSet(S), NEW f, \A x \in S : f[x] \in Int, NEW x \in S
    PROVE  SumFunctionOnSet(f, S) = f[x] + SumFunctionOnSet(f, S \ {x})
<1>1. PICK g : IsSum(g, f, S) /\ g \in [SUBSET S -> Int]
  BY SumExists
<1> DEFINE Bad == {s \in SUBSET S : \E y \in s : g[s] # f[y] + g[s \ {y}]}
           Sizes == {Cardinality(s) : s \in Bad}
<1>2. \A s \in SUBSET S : IsFiniteSet(s) /\ Cardinality(s) \in Nat
  BY FS_Subset, FS_CardinalityType
<1>3. Bad = {}
  <2> SUFFICES ASSUME Bad # {} PROVE FALSE
    OBVIOUS
  <2>1. Sizes \subseteq Nat /\ Sizes # {}
    BY <1>2
  <2>2. PICK n \in Sizes : \A m \in Sizes : n <= m
    BY <2>1, NatMin, Zenon
  <2>3. PICK s \in Bad : n = Cardinality(s)
    OBVIOUS
  <2>4. s \in SUBSET S /\ IsFiniteSet(s) /\ n \in Nat
    BY <1>2, <2>3
  <2>5. PICK y \in s : g[s] # f[y] + g[s \ {y}]
    OBVIOUS
  <2>6. PICK z \in s : z = Some(s)
    BY SomeIn
  <2>7. g[s] = f[z] + g[s \ {z}]
    BY <1>1, <2>4, <2>6 DEF IsSum
  <2>8. y # z
    BY <2>5, <2>7
  <2>9. ASSUME NEW u \in s
        PROVE  /\ s \ {u} \in SUBSET S
               /\ \A v \in s \ {u} : g[s \ {u}] = f[v] + g[(s \ {u}) \ {v}]
    <3>1. s \ {u} \in SUBSET S /\ Cardinality(s \ {u}) = n - 1
      BY <2>3, <2>4, OneLess
    <3>2. s \ {u} \notin Bad
      <4>1. ASSUME s \ {u} \in Bad PROVE FALSE
        <5>1. n - 1 \in Sizes
          BY <3>1, <4>1
        <5> HIDE DEF Sizes
        <5> QED
          BY <2>2, <2>4, <5>1
      <4> QED
        BY <4>1
    <3> QED
      BY <3>1, <3>2
  <2>10. g[s \ {z}] = f[y] + g[(s \ {z}) \ {y}]
    BY <2>8, <2>9
  <2>11. g[s \ {y}] = f[z] + g[(s \ {y}) \ {z}]
    BY <2>8, <2>9
  <2>12. (s \ {y}) \ {z} = (s \ {z}) \ {y}
    OBVIOUS
  <2>13. PICK r \in SUBSET S : r = (s \ {z}) \ {y}
    BY <2>4
  <2>14. g[r] \in Int /\ f[y] \in Int /\ f[z] \in Int
    BY <1>1, <2>4, <2>13
  <2>15. g[s] = f[z] + (f[y] + g[r]) /\ g[s \ {y}] = f[z] + g[r]
    BY <2>7, <2>10, <2>11, <2>12, <2>13
  <2> QED
    BY <2>5, <2>14, <2>15
<1>4. g[S] = f[x] + g[S \ {x}]
  BY <1>3
<1>5. SumFunctionOnSet(f, S) = g[S] /\ SumFunctionOnSet(f, S \ {x}) = g[S \ {x}]
  BY <1>1, SumIs
<1> QED
  BY <1>4, <1>5

\* One more element.
LEMMA SumAdd ==
    ASSUME NEW S, IsFiniteSet(S), NEW x, x \notin S, NEW f, \A y \in S \cup {x} : f[y] \in Int
    PROVE  SumFunctionOnSet(f, S \cup {x}) = SumFunctionOnSet(f, S) + f[x]
<1>1. IsFiniteSet(S \cup {x})
  BY FS_AddElement
<1>2. (S \cup {x}) \ {x} = S
  OBVIOUS
<1>3. SumFunctionOnSet(f, S \cup {x}) = f[x] + SumFunctionOnSet(f, (S \cup {x}) \ {x})
  BY <1>1, SumWithout
<1>4. SumFunctionOnSet(f, S) \in Int
  BY SumType
<1>5. PICK v \in Int : v = f[x]
  OBVIOUS
<1>6. PICK t \in Int : t = SumFunctionOnSet(f, S)
  BY <1>4
<1>7. SumFunctionOnSet(f, S \cup {x}) = v + t
  BY <1>2, <1>3, <1>5, <1>6
<1> QED
  BY <1>5, <1>6, <1>7
=============================================================================
