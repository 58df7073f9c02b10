-------------------------- MODULE Rejected_proofs ---------------------------
(***************************************************************************)
(* What Rejected guarantees for every number of rejected blocks and other  *)
(* nodes, and for all limits that the assumptions allow.                   *)
(***************************************************************************)
EXTENDS Rejected, Lemmas, FiniteSetTheorems, TLAPS

Above(S, i) == {j \in S : j > i}

(***************************************************************************)
(* The newest elements of a set of numbers.                                *)
(***************************************************************************)

\* What is above a number in a set of numbers up to b is finite, and not more
\* than what is above it in a larger set.
LEMMA AboveFinite ==
    ASSUME NEW b \in Nat, NEW U, U \subseteq 0..b, NEW S, S \subseteq U, NEW i
    PROVE  /\ IsFiniteSet(U) /\ IsFiniteSet(S)
           /\ IsFiniteSet(Above(S, i)) /\ IsFiniteSet(Above(U, i))
           /\ Cardinality(Above(S, i)) \in Nat
           /\ Cardinality(Above(U, i)) \in Nat
           /\ Cardinality(Above(S, i)) <= Cardinality(Above(U, i))
<1>1. IsFiniteSet(0..b)
  BY FS_Interval
<1>2. IsFiniteSet(U)
  BY <1>1, FS_Subset
<1>3. IsFiniteSet(S)
  BY <1>2, FS_Subset
<1>4. Above(S, i) \subseteq Above(U, i) /\ Above(U, i) \subseteq U
  BY DEF Above
<1>5. IsFiniteSet(Above(U, i))
  BY <1>2, <1>4, FS_Subset
<1>6. /\ IsFiniteSet(Above(S, i))
      /\ Cardinality(Above(S, i)) <= Cardinality(Above(U, i))
  BY <1>4, <1>5, FS_Subset
<1> QED
  BY <1>2, <1>3, <1>5, <1>6, FS_CardinalityType

\* An element is among the k newest when fewer than k are above it.
LEMMA InNewest ==
    ASSUME NEW b \in Nat, NEW S, S \subseteq 0..b, NEW k \in Nat, NEW i
    PROVE  /\ i \in Newest(S, k) <=> i \in S /\ Cardinality(Above(S, i)) < k
           /\ Newest(S, k) \subseteq S
BY DEF Newest, Above

\* The newest elements are above all others.
LEMMA NewestUp ==
    ASSUME NEW b \in Nat, NEW S, S \subseteq 0..b, NEW k \in Nat,
           NEW i \in Newest(S, k), NEW j \in S, j > i
    PROVE  j \in Newest(S, k)
<1>1. i \in S /\ Cardinality(Above(S, i)) < k
  BY InNewest
<1>2. Above(S, j) \subseteq Above(S, i)
  <2>1. i \in Int /\ j \in Int /\ \A x \in S : x \in Int
    BY <1>1
  <2>2. \A x \in S : x > j => x > i
    BY <2>1
  <2> QED
    BY <2>2 DEF Above
<1>3. IsFiniteSet(Above(S, i))
  BY AboveFinite
<1>4. Cardinality(Above(S, j)) <= Cardinality(Above(S, i))
  BY <1>2, <1>3, FS_Subset
<1>5. Cardinality(Above(S, j)) \in Nat /\ Cardinality(Above(S, i)) \in Nat
  BY AboveFinite
<1>6. Cardinality(Above(S, j)) < k
  BY <1>1, <1>4, <1>5
<1> QED
  BY <1>6, InNewest

\* When not all elements are among the newest, the greatest of the others has
\* just the newest above it, and is the next to join them.
LEMMA NextNewest ==
    ASSUME NEW b \in Nat, NEW S, S \subseteq 0..b, NEW k \in Nat,
           Cardinality(Newest(S, k)) = k, k < Cardinality(S)
    PROVE  \E m \in S : /\ Above(S, m) = Newest(S, k)
                        /\ Cardinality(Newest(S, k + 1)) = k + 1
<1> DEFINE N == Newest(S, k)
<1>1. IsFiniteSet(S) /\ N \subseteq S /\ IsFiniteSet(N)
  BY AboveFinite, InNewest, FS_Subset
<1>2. S \ N # {}
  <2>1. ASSUME S \ N = {} PROVE FALSE
    <3>1. S = N
      BY <1>1, <2>1
    <3> QED
      BY <3>1, <1>1, FS_CardinalityType
  <2> QED
    BY <2>1
<1>3. PICK m \in S \ N : \A y \in S \ N : y <= m
  <2>1. S \ N \subseteq 0..b
    OBVIOUS
  <2> QED
    BY <2>1, <1>2, NatMax, Zenon
<1> HIDE DEF N
<1>4. Above(S, m) = N
  <2>1. ASSUME NEW j \in S, j > m PROVE j \in N
    <3>1. j \in S \ N => j <= m
      BY <1>3
    <3> QED
      BY <2>1, <3>1
  <2>2. ASSUME NEW j \in N PROVE j > m
    <3>1. j # m /\ j \in S /\ j \in Int /\ m \in Int
      BY <1>1, <1>3
    <3>2. ~(m > j)
      BY <1>3, <2>2, NewestUp DEF N
    <3> QED
      BY <3>1, <3>2
  <2> QED
    BY <1>1, <2>1, <2>2 DEF Above
<1>5. Newest(S, k + 1) = N \cup {m}
  <2>1. ASSUME NEW i \in N PROVE i \in Newest(S, k + 1)
    <3>1. i \in S /\ Cardinality(Above(S, i)) < k
      BY <2>1, InNewest DEF N
    <3>2. Cardinality(Above(S, i)) \in Nat
      BY AboveFinite
    <3>3. Cardinality(Above(S, i)) < k + 1 /\ k + 1 \in Nat
      BY <3>1, <3>2
    <3> QED
      BY <3>1, <3>3, InNewest
  <2>2. m \in Newest(S, k + 1)
    <3>1. Cardinality(Above(S, m)) < k + 1 /\ k + 1 \in Nat
      BY <1>4 DEF N
    <3> QED
      BY <3>1, <1>3, InNewest
  <2>3. ASSUME NEW i \in Newest(S, k + 1), i \notin N PROVE i = m
    <3>0. k + 1 \in Nat
      OBVIOUS
    <3>1. i \in S /\ Cardinality(Above(S, i)) < k + 1
      BY <2>3, <3>0, InNewest
    <3>2. i <= m /\ i \in Int /\ m \in Int
      BY <1>3, <2>3, <3>1
    <3>3. ASSUME i < m PROVE FALSE
      <4>1. N \cup {m} \subseteq Above(S, i)
        BY <1>1, <1>4, <3>2, <3>3 DEF Above
      <4>2. IsFiniteSet(Above(S, i)) /\ Cardinality(Above(S, i)) \in Nat
        BY AboveFinite
      <4>3. Cardinality(N \cup {m}) = k + 1
        BY <1>1, <1>3, FS_AddElement DEF N
      <4>4. Cardinality(N \cup {m}) <= Cardinality(Above(S, i))
        BY <4>1, <4>2, FS_Subset
      <4> QED
        BY <3>1, <4>2, <4>3, <4>4
    <3> QED
      BY <3>2, <3>3
  <2> QED
    BY <2>1, <2>2, <2>3
<1>6. Cardinality(N \cup {m}) = k + 1
  BY <1>1, <1>3, FS_AddElement DEF N
<1> QED
  BY <1>3, <1>4, <1>5, <1>6 DEF N

\* There are k newest elements in a set that has as many.
LEMMA NewestCard ==
    ASSUME NEW b \in Nat, NEW S, S \subseteq 0..b,
           NEW k \in Nat, k <= Cardinality(S)
    PROVE  Cardinality(Newest(S, k)) = k
<1> DEFINE Bad == {n \in 0..k : Cardinality(Newest(S, n)) # n}
<1>1. ASSUME Bad # {} PROVE FALSE
  <2>1. PICK n \in Bad : \A y \in Bad : n <= y
    <3>1. Bad \subseteq Nat
      OBVIOUS
    <3> QED
      BY <1>1, <3>1, NatMin, Zenon
  <2>2. n \in Nat /\ n <= k /\ Cardinality(Newest(S, n)) # n
    OBVIOUS
  <2>3. CASE n = 0
    <3>1. Newest(S, 0) = {}
      <4>1. ASSUME NEW i \in Newest(S, 0) PROVE FALSE
        <5>1. Cardinality(Above(S, i)) < 0
          BY <4>1, InNewest
        <5>2. Cardinality(Above(S, i)) \in Nat
          BY AboveFinite
        <5> QED
          BY <5>1, <5>2
      <4> QED
        BY <4>1
    <3> QED
      BY <2>2, <2>3, <3>1, FS_EmptySet
  <2>4. CASE n # 0
    <3>1. n - 1 \in 0..k /\ n - 1 \in Nat /\ ~(n <= n - 1)
      BY <2>2, <2>4
    <3>2. Cardinality(Newest(S, n - 1)) = n - 1
      BY <2>1, <3>1
    <3>3. n - 1 < Cardinality(S)
      <4>1. Cardinality(S) \in Nat
        BY AboveFinite, FS_CardinalityType
      <4> QED
        BY <2>2, <4>1
    <3>4. Cardinality(Newest(S, (n - 1) + 1)) = (n - 1) + 1
      BY <3>1, <3>2, <3>3, NextNewest
    <3>5. (n - 1) + 1 = n
      BY <2>2
    <3> QED
      BY <2>2, <3>4, <3>5
  <2> QED
    BY <2>3, <2>4
<1>2. k \in 0..k
  OBVIOUS
<1> QED
  BY <1>1, <1>2

\* There are never more.
LEMMA NewestAtMost ==
    ASSUME NEW b \in Nat, NEW S, S \subseteq 0..b, NEW k \in Nat
    PROVE  /\ Newest(S, k) \subseteq S /\ IsFiniteSet(Newest(S, k))
           /\ Cardinality(Newest(S, k)) \in Nat
           /\ Cardinality(Newest(S, k)) <= k
<1>1. IsFiniteSet(S) /\ Newest(S, k) \subseteq S /\ Cardinality(S) \in Nat
  BY AboveFinite, InNewest, FS_CardinalityType
<1>2. /\ IsFiniteSet(Newest(S, k))
      /\ Cardinality(Newest(S, k)) <= Cardinality(S)
      /\ Cardinality(Newest(S, k)) \in Nat
  BY <1>1, FS_Subset, FS_CardinalityType
<1>3. CASE k <= Cardinality(S)
  <2>1. Cardinality(Newest(S, k)) = k
    BY <1>3, NewestCard
  <2> QED
    BY <1>1, <1>2, <2>1
<1>4. CASE Cardinality(S) < k
  BY <1>1, <1>2, <1>4
<1> QED
  BY <1>1, <1>3, <1>4

\* For every k below the size of a set, an element has just k above it.
LEMMA NewestNth ==
    ASSUME NEW b \in Nat, NEW S, S \subseteq 0..b,
           NEW k \in Nat, k < Cardinality(S)
    PROVE  \E m \in S : Cardinality(Above(S, m)) = k
<1>1. Cardinality(S) \in Nat
  BY AboveFinite, FS_CardinalityType
<1>2. Cardinality(Newest(S, k)) = k
  <2>1. k <= Cardinality(S)
    BY <1>1
  <2> QED
    BY <2>1, NewestCard
<1> QED
  BY <1>2, NextNewest

\* What c elements have passed is passed by c of the newest ones, when at
\* least c are kept and others are added.
LEMMA PassedStays ==
    ASSUME NEW b \in Nat, NEW U, U \subseteq 0..b, NEW S, S \subseteq U,
           NEW i \in Int, NEW k \in Nat, NEW c \in Nat, c <= k,
           Cardinality(Above(S, i)) >= c
    PROVE  Cardinality(Above(Newest(U, k), i)) >= c
<1> DEFINE A == Above(U, i)
<1>1. A \subseteq U /\ A \subseteq 0..b /\ (\A j \in A : j > i /\ j \in Nat)
  <2>1. A \subseteq U /\ \A j \in A : j > i
    BY DEF Above
  <2>2. \A j \in U : j \in 0..b /\ j \in Nat
    OBVIOUS
  <2> HIDE DEF A
  <2> QED
    BY <2>1, <2>2
<1>2. c <= Cardinality(A)
  <2>1. /\ Cardinality(Above(S, i)) \in Nat /\ Cardinality(A) \in Nat
        /\ Cardinality(Above(S, i)) <= Cardinality(A)
    BY AboveFinite
  <2> QED
    BY <2>1
<1> HIDE DEF A
<1>3. Cardinality(Newest(A, c)) = c
  BY <1>1, <1>2, NewestCard
<1>4. Newest(A, c) \subseteq Above(Newest(U, k), i)
  <2>1. ASSUME NEW j \in Newest(A, c) PROVE j \in Above(Newest(U, k), i)
    <3>1. j \in A /\ Cardinality(Above(A, j)) < c
      BY <1>1, InNewest
    <3>2. Above(A, j) = Above(U, j)
      <4>1. j > i /\ j \in Int /\ \A x \in U : x \in Int
        BY <1>1, <3>1
      <4>2. \A x \in U : x > j => x > i
        BY <4>1
      <4> QED
        BY <4>2 DEF Above, A
    <3>3. Cardinality(Above(U, j)) \in Nat
      BY AboveFinite
    <3>4. Cardinality(Above(U, j)) < k
      BY <3>1, <3>2, <3>3
    <3>5. j \in Newest(U, k)
      BY <1>1, <3>1, <3>4, InNewest
    <3> QED
      BY <1>1, <3>1, <3>5 DEF Above
  <2> QED
    BY <2>1
<1>5. Newest(U, k) \subseteq 0..b
  BY InNewest
<1>6. /\ IsFiniteSet(Above(Newest(U, k), i))
      /\ Cardinality(Above(Newest(U, k), i)) \in Nat
  BY <1>5, AboveFinite
<1>7. Cardinality(Newest(A, c)) <= Cardinality(Above(Newest(U, k), i))
  BY <1>4, <1>6, FS_Subset
<1> QED
  BY <1>3, <1>6, <1>7

(***************************************************************************)
(* The inductive invariant.  The source is a window that only moves on: a  *)
(* block that enough later ones have passed stays behind for good.         *)
(***************************************************************************)

\* At least k blocks of a source are later than i.
Over(S, i, k) == Cardinality(Above(S, i)) >= k

\* A source has the block, or had it and dropped it at its limit.
Seen(S, i) == i \in S \/ Over(S, i, MaxBlocks)

\* The worker has made its choice of blocks and works on it.
Looking == pc \in {"fill", "calculated", "found"}

\* The known blocks are those of the source, the last ones or earlier ones.
WindowOK ==
    /\ \A i \in currentRejectedBlocks \cup lastRejectedBlocks : Seen(source, i)
    /\ Looking =>
        /\ \A i \in holders : Seen(source, i)
        /\ \A i \in currentRejectedBlocks : i \in holders \/ Over(source, i, Count)

\* A block that was counted is known, or passed.
CountOK ==
    /\ \A i \in RBlock : counted[i] \in {0, 1}
    /\ \A i \in RBlock :
        counted[i] = 1 => i \in currentRejectedBlocks \/ Over(source, i, Count)
    /\ Looking => \A i \in holders : counted[i] = 1 => i \in currentRejectedBlocks
    /\ \A i \in currentRejectedBlocks : counted[i] = 1 \/ i \notin source

\* What getBlocks found is all that is new and still in the source.
FoundOK ==
    /\ pc = "calculated" /\ kind = "file" => holders \cap source \subseteq filled
    /\ pc = "found" =>
        /\ found \subseteq holders \ currentRejectedBlocks
        /\ \A i \in holders :
            i \in currentRejectedBlocks \/ i \in found \/ i \notin source

\* The last blocks of a source that other nodes fill are among the blocks that
\* the worker names; between the change of the source and that of the names,
\* the names are those from before.
NamedOK ==
    kind = "network" =>
        /\ pc # "calculated" => Newest(source, Count) \subseteq lastRejectedBlocks
        /\ pc = "calculated" => Newest(lastRejectedBlocks, Count) \subseteq source
        /\ pc \in {"calculated", "found"} => holders = Newest(source, Count)
        /\ pc \notin {"found", "dead"} => currentRejectedBlocks \subseteq lastRejectedBlocks

StateOK ==
    /\ kind \in {"file", "network"}
    /\ have \in [Node -> 0..Len(txs)] /\ read \in 0..Len(txs)
    /\ source \subseteq RBlock /\ filled \subseteq source
    /\ kind = "network" => filled = {}
    /\ kind = "file" => source \subseteq 1..read
    /\ kind = "file" => holders \subseteq 1..read
    /\ kind = "network" => pc # "fill"
    /\ kind = "file" => pc # "dumps"
    /\ pc = "dumps" => missing \subseteq holders
    /\ counted \in [RBlock -> Nat]

RjInv == RjTypeOK /\ StateOK /\ WindowOK /\ CountOK /\ FoundOK

(***************************************************************************)
(* The source as a window.                                                 *)
(***************************************************************************)

\* Sets of rejected blocks are sets of numbers up to the number of blocks.
LEMMA BlockRange ==
    /\ Len(txs) \in Nat
    /\ \A S : S \subseteq RBlock => S \subseteq 0..Len(txs)
    /\ RBlock = 1..Len(txs)
    /\ Count \in Nat /\ MaxBlocks \in Nat /\ MaxLast \in Nat
    /\ 0 < Count /\ Count <= MaxLast /\ MaxLast <= MaxBlocks
    /\ Count <= MaxBlocks
<1>1. txs \in Seq(SUBSET Tx)
  BY RejectedAssumption
<1>2. RBlock = 1..Len(txs) /\ Len(txs) \in Nat
  BY <1>1 DEF RBlock
<1> QED
  BY <1>2, RejectedAssumption

\* The number of blocks that are later than one is a number.
LEMMA AboveNat ==
    ASSUME NEW S, S \subseteq RBlock, NEW i
    PROVE  IsFiniteSet(Above(S, i)) /\ Cardinality(Above(S, i)) \in Nat
<1>1. S \subseteq 0..Len(txs) /\ Len(txs) \in Nat
  BY BlockRange
<1> QED
  BY <1>1, AboveFinite

\* The source S with the blocks X in addition, at its limit, is T.
MovedOn(S, X, T) ==
    /\ T \subseteq RBlock /\ T \subseteq S \cup X
    /\ Cardinality(T) <= MaxBlocks
    /\ \A i \in RBlock : Seen(S, i) => Seen(T, i)
    /\ \A i \in RBlock : Seen(S, i) /\ i \notin S => i \notin T
    /\ \A i \in RBlock : Over(S, i, Count) => Over(T, i, Count)

\* When blocks are added and the newest kept, a block that the source had
\* before is there or passed, never there again, and a passed one stays so.
LEMMA SourceMoves ==
    ASSUME NEW S, S \subseteq RBlock, NEW X, X \subseteq RBlock
    PROVE  MovedOn(S, X, Newest(S \cup X, MaxBlocks))
<1> DEFINE T == Newest(S \cup X, MaxBlocks)
           U == S \cup X
           b == Len(txs)
<1>1. b \in Nat /\ U \subseteq 0..b /\ S \subseteq U /\ S \subseteq 0..b
  BY BlockRange
<1>2. MaxBlocks \in Nat /\ Count \in Nat /\ Count <= MaxBlocks
  BY BlockRange
<1>3. RBlock \subseteq Int
  BY BlockRange
<1>4. T = Newest(U, MaxBlocks)
  OBVIOUS
<1> HIDE DEF T, U, b
<1>5. T \subseteq U /\ Cardinality(T) <= MaxBlocks
  BY <1>1, <1>2, <1>4, NewestAtMost
<1>6. ASSUME NEW i \in RBlock, Over(S, i, Count)
      PROVE  Over(T, i, Count)
  <2>1. Cardinality(Above(S, i)) >= Count
    BY <1>6 DEF Over
  <2>2. Cardinality(Above(Newest(U, MaxBlocks), i)) >= Count
    BY <1>1, <1>2, <1>3, <2>1, PassedStays
  <2> QED
    BY <1>4, <2>2 DEF Over
<1>7. ASSUME NEW i \in RBlock, Cardinality(Above(U, i)) >= MaxBlocks
      PROVE  Over(T, i, MaxBlocks) /\ i \notin T
  <2>1. Cardinality(Above(Newest(U, MaxBlocks), i)) >= MaxBlocks
    <3>1. MaxBlocks <= MaxBlocks /\ i \in Int /\ U \subseteq U
      BY <1>2, <1>3
    <3> QED
      BY <1>1, <1>2, <1>7, <3>1, PassedStays
  <2>2. Cardinality(Above(U, i)) \in Nat
    BY <1>1, AboveFinite
  <2>3. i \notin Newest(U, MaxBlocks)
    <3>1. ~(Cardinality(Above(U, i)) < MaxBlocks)
      BY <1>2, <1>7, <2>2
    <3> QED
      BY <1>1, <1>2, <3>1, InNewest
  <2> QED
    BY <1>4, <2>1, <2>3 DEF Over
<1>8. ASSUME NEW i \in RBlock, Over(S, i, MaxBlocks)
      PROVE  Cardinality(Above(U, i)) >= MaxBlocks
  <2>1. /\ Cardinality(Above(S, i)) \in Nat /\ Cardinality(Above(U, i)) \in Nat
        /\ Cardinality(Above(S, i)) <= Cardinality(Above(U, i))
    BY <1>1, AboveFinite
  <2>2. Cardinality(Above(S, i)) >= MaxBlocks
    BY <1>8 DEF Over
  <2> QED
    BY <1>2, <2>1, <2>2
<1>9. ASSUME NEW i \in RBlock, Seen(S, i)
      PROVE  Seen(T, i) /\ (i \notin S => i \notin T)
  <2>1. CASE Over(S, i, MaxBlocks)
    BY <1>7, <1>8, <2>1 DEF Seen
  <2>2. CASE i \in S /\ i \in T
    BY <2>2 DEF Seen
  <2>3. CASE i \in S /\ i \notin T
    <3>1. i \in U /\ i \notin Newest(U, MaxBlocks)
      BY <1>4, <2>3 DEF U
    <3>2. Cardinality(Above(U, i)) \in Nat
      BY <1>1, AboveFinite
    <3>3. ~(Cardinality(Above(U, i)) < MaxBlocks)
      BY <1>1, <1>2, <3>1, InNewest
    <3>4. Cardinality(Above(U, i)) >= MaxBlocks
      BY <1>2, <3>2, <3>3
    <3> QED
      BY <1>7, <2>3, <3>4 DEF Seen
  <2> QED
    BY <1>9, <2>1, <2>2, <2>3 DEF Seen
<1> QED
  <2>1. T \subseteq RBlock /\ T \subseteq S \cup X
    BY <1>5 DEF U
  <2>2. MovedOn(S, X, T)
    BY <1>5, <1>6, <1>9, <2>1 DEF MovedOn
  <2> QED
    BY <2>2 DEF T

\* The newest blocks are those of the source that Count others have not passed.
LEMMA Chosen ==
    ASSUME NEW S, S \subseteq RBlock
    PROVE  /\ Newest(S, Count) \subseteq S
           /\ Cardinality(Newest(S, Count)) <= Count
           /\ \A i \in Newest(S, Count) : Seen(S, i) /\ ~Over(S, i, Count)
           /\ \A i \in RBlock :
                Seen(S, i) => i \in Newest(S, Count) \/ Over(S, i, Count)
<1>1. /\ Len(txs) \in Nat /\ S \subseteq 0..Len(txs)
      /\ Count \in Nat /\ MaxBlocks \in Nat /\ Count <= MaxBlocks
  BY BlockRange
<1>2. Newest(S, Count) \subseteq S /\ Cardinality(Newest(S, Count)) <= Count
  BY <1>1, NewestAtMost
<1>3. ASSUME NEW i
      PROVE  /\ i \in Newest(S, Count) => ~Over(S, i, Count)
             /\ i \in S => i \in Newest(S, Count) \/ Over(S, i, Count)
             /\ Over(S, i, MaxBlocks) => Over(S, i, Count)
  <2>1. Cardinality(Above(S, i)) \in Nat
    BY AboveNat
  <2>2. i \in Newest(S, Count) <=> i \in S /\ Cardinality(Above(S, i)) < Count
    BY <1>1, InNewest
  <2> QED
    BY <1>1, <2>1, <2>2 DEF Over
<1> QED
  BY <1>2, <1>3 DEF Seen

(***************************************************************************)
(* The history of a transaction.                                           *)
(***************************************************************************)

Histories == UNION {[1 .. k -> RBlock] : k \in 0 .. MaxHistory}

\* A history is a sequence of blocks of a limited length.
LEMMA HistoryIs ==
    ASSUME NEW h
    PROVE  h \in Histories <=> h \in Seq(RBlock) /\ Len(h) <= MaxHistory
<1>1. MaxHistory \in Nat
  BY RejectedAssumption
<1>2. ASSUME NEW k \in 0..MaxHistory, h \in [1..k -> RBlock]
      PROVE  h \in Seq(RBlock) /\ Len(h) <= MaxHistory
  <2>1. k \in Nat /\ k <= MaxHistory
    BY <1>1
  <2>2. h \in Seq(RBlock) /\ Len(h) = k
    BY <1>2, <2>1, SeqOfFunction
  <2> QED
    BY <2>1, <2>2
<1>3. ASSUME h \in Seq(RBlock), Len(h) <= MaxHistory
      PROVE  \E k \in 0..MaxHistory : h \in [1..k -> RBlock]
  <2>1. Len(h) \in 0..MaxHistory /\ h \in [1..Len(h) -> RBlock]
    BY <1>1, <1>3
  <2> QED
    BY <2>1
<1> QED
  BY <1>2, <1>3 DEF Histories

\* What is added to a history are blocks that were found.
LEMMA LatestFirstBlocks ==
    ASSUME NEW S, S \subseteq RBlock, NEW t
    PROVE  LatestFirst(S, t) \in Seq(RBlock)
<1> DEFINE mine == {i \in S : t \in txs[i]}
           n == Cardinality(mine)
           f == [k \in 1 .. n |->
                    CHOOSE i \in mine : Cardinality({j \in mine : j > i}) = k - 1]
<1>1. mine \subseteq RBlock /\ mine \subseteq 0..Len(txs) /\ Len(txs) \in Nat
  BY BlockRange
<1>2. LatestFirst(S, t) = f
  BY DEF LatestFirst
<1> HIDE DEF mine
<1>3. IsFiniteSet(mine)
  BY <1>1, AboveFinite
<1>4. n \in Nat
  BY <1>3, FS_CardinalityType
<1> HIDE DEF n
<1>5. ASSUME NEW k \in 1..n
      PROVE  (CHOOSE i \in mine : Cardinality({j \in mine : j > i}) = k - 1) \in RBlock
  <2>1. k - 1 \in Nat /\ k - 1 < n
    BY <1>4
  <2>2. \E m \in mine : Cardinality(Above(mine, m)) = k - 1
    BY <1>1, <2>1, NewestNth DEF n
  <2>3. \E m \in mine : Cardinality({j \in mine : j > m}) = k - 1
    BY <2>2 DEF Above
  <2>4. (CHOOSE i \in mine : Cardinality({j \in mine : j > i}) = k - 1) \in mine
    BY <2>3, Zenon
  <2> QED
    BY <1>1, <2>4
<1>6. f \in [1..n -> RBlock]
  BY <1>5
<1> HIDE DEF f
<1> QED
  BY <1>2, <1>4, <1>6, SeqOfFunction

\* addHistory keeps a history within its limit.
LEMMA AddHistoryOK ==
    ASSUME NEW t \in Tx, history[t] \in Histories, found \subseteq RBlock
    PROVE  addHistory(t) \in Histories
<1> DEFINE h == history[t]
           g == LatestFirst(found, t)
           all == h \o g
<1>1. MaxHistory \in Nat
  BY RejectedAssumption
<1>2. h \in Seq(RBlock) /\ g \in Seq(RBlock)
  BY HistoryIs, LatestFirstBlocks
<1>3. addHistory(t) = IF Len(all) > MaxHistory
                      THEN SubSeq(all, Len(all) - MaxHistory + 1, Len(all))
                      ELSE all
  BY DEF addHistory
<1> HIDE DEF h, g
<1>4. all \in Seq(RBlock)
  BY <1>2
<1> HIDE DEF all
<1>5. CASE Len(all) > MaxHistory
  <2> DEFINE m == Len(all) - MaxHistory + 1
  <2>1. m \in 1..(Len(all) + 1) /\ Len(all) \in Nat /\ Len(all) - m + 1 = MaxHistory
    BY <1>1, <1>4, <1>5
  <2> HIDE DEF m
  <2>2. SubSeq(all, m, Len(all)) \in Seq(RBlock)
    BY <1>4, <2>1
  <2>3. Len(SubSeq(all, m, Len(all))) = MaxHistory
    BY <1>1, <1>4, <2>1
  <2>4. addHistory(t) = SubSeq(all, m, Len(all))
    BY <1>3, <1>5, Zenon DEF m
  <2>5. Len(SubSeq(all, m, Len(all))) <= MaxHistory
    BY <1>1, <2>3
  <2> QED
    BY <2>2, <2>4, <2>5, HistoryIs, Zenon
<1>6. CASE ~(Len(all) > MaxHistory)
  <2>1. Len(all) <= MaxHistory
    BY <1>1, <1>4, <1>6
  <2> QED
    BY <1>3, <1>4, <1>6, <2>1, HistoryIs
<1> QED
  BY <1>5, <1>6

(***************************************************************************)
(* Every step keeps the invariant.                                         *)
(***************************************************************************)

\* The parts of the invariant, for proofs that cite one.
LEMMA RjParts ==
    ASSUME RjInv
    PROVE  /\ RjTypeOK /\ StateOK /\ WindowOK /\ CountOK /\ FoundOK
           /\ source \subseteq RBlock /\ holders \subseteq RBlock
           /\ currentRejectedBlocks \subseteq RBlock
           /\ lastRejectedBlocks \subseteq RBlock
           /\ missing \subseteq RBlock /\ found \subseteq RBlock
BY DEF RjInv, RjTypeOK

\* Steps in which the worker ends.
LEMMA EndMoves ==
    ASSUME RjInv, WorkerEnds, UNCHANGED <<kind, have, read, sourceVars>>
    PROVE  RjInv'
<1> USE RjParts DEF WorkerEnds, workerVars, sourceVars
<1>1. RjTypeOK' /\ StateOK'
  BY DEF RjTypeOK, StateOK
<1>2. WindowOK' /\ CountOK' /\ FoundOK'
  BY DEF WindowOK, CountOK, FoundOK, Looking
<1> QED
  BY <1>1, <1>2 DEF RjInv

\* A block comes into the file source while the worker is anywhere.
LEMMA AddMoves ==
    ASSUME RjInv, addBlock
    PROVE  RjInv'
<1> USE RjParts DEF addBlock, workerVars
<1>1. Len(txs) \in Nat /\ RBlock = 1..Len(txs) /\ read \in Nat
  BY BlockRange DEF StateOK
<1>2. read + 1 \in RBlock /\ read' = read + 1
  BY <1>1 DEF StateOK
<1>3. /\ source' \subseteq RBlock /\ source' \subseteq source \cup {read + 1}
      /\ Cardinality(source') <= MaxBlocks
      /\ \A i \in RBlock : Seen(source, i) => Seen(source', i)
      /\ \A i \in RBlock : Seen(source, i) /\ i \notin source => i \notin source'
      /\ \A i \in RBlock : Over(source, i, Count) => Over(source', i, Count)
  <2>1. source \subseteq RBlock /\ {read + 1} \subseteq RBlock
    BY <1>2
  <2>2. source' = Newest(source \cup {read + 1}, MaxBlocks)
    OBVIOUS
  <2>3. MovedOn(source, {read + 1}, source')
    BY <2>1, <2>2, SourceMoves, Zenon
  <2> QED
    BY <2>3 DEF MovedOn
<1>4. RjTypeOK'
  BY <1>3 DEF RjTypeOK
<1>5. StateOK'
  <2>1. 1..read \subseteq 1..(read + 1) /\ read + 1 \in 1..(read + 1)
    BY <1>1
  <2>2. read' \in 0..Len(txs)
    BY <1>1, <1>2
  <2> QED
    BY <1>2, <1>3, <2>1, <2>2 DEF StateOK
<1>6. WindowOK'
  BY <1>3 DEF WindowOK, Looking
<1>7. CountOK'
  <2>1. \A i \in currentRejectedBlocks : i \notin source => i \notin source'
    BY <1>3 DEF WindowOK
  <2> QED
    BY <1>3, <2>1 DEF CountOK, Looking
<1>8. FoundOK'
  <2>1. read + 1 \notin holders
    BY <1>1 DEF StateOK
  <2>2. \A i \in holders : i \in source' => i \in source
    BY <1>3, <2>1
  <2> QED
    BY <1>3, <2>2 DEF FoundOK
<1> QED
  BY <1>4, <1>5, <1>6, <1>7, <1>8 DEF RjInv

\* The worker chooses the newest blocks of the file source.
LEMMA HoldersMoves ==
    ASSUME RjInv, getLastHolders
    PROVE  RjInv'
<1> USE RjParts DEF getLastHolders, workerVars, sourceVars
<1>1. /\ holders' \subseteq source /\ Cardinality(holders') <= Count
      /\ \A i \in holders' : Seen(source, i) /\ ~Over(source, i, Count)
      /\ \A i \in RBlock : Seen(source, i) => i \in holders' \/ Over(source, i, Count)
  BY Chosen
<1>2. RjTypeOK'
  BY <1>1 DEF RjTypeOK
<1>3. StateOK'
  BY <1>1 DEF StateOK
<1>4. WindowOK'
  BY <1>1 DEF WindowOK, Looking
<1>5. CountOK'
  BY <1>1 DEF CountOK, Looking
<1>6. FoundOK'
  BY DEF FoundOK
<1> QED
  BY <1>2, <1>3, <1>4, <1>5, <1>6 DEF RjInv

\* The blocks that were read are put back.
LEMMA ReplaceMoves ==
    ASSUME RjInv, replaceBlocks
    PROVE  RjInv'
<1> USE RjParts DEF replaceBlocks, workerVars
<1>1. filled' = filled \cup (holders \cap source)
  BY DEF Replaced
<1>2. RjTypeOK'
  BY <1>1 DEF RjTypeOK
<1>3. StateOK'
  BY <1>1 DEF StateOK
<1>4. WindowOK' /\ CountOK'
  BY DEF WindowOK, CountOK, Looking
<1>5. FoundOK'
  BY <1>1 DEF FoundOK
<1> QED
  BY <1>2, <1>3, <1>4, <1>5 DEF RjInv

\* The answers of the other nodes name the blocks to ask for.
LEMMA NamesMoves ==
    ASSUME RjInv, NEW answered \in SUBSET Node, getLastRejectedBlocks(answered)
    PROVE  RjInv'
<1>0. UNCHANGED <<kind, have, read, sourceVars>>
  BY DEF getLastRejectedBlocks
<1>1. CASE WorkerEnds
  BY <1>0, <1>1, EndMoves
<1>2. CASE ~WorkerEnds
  <2>1. /\ holders' \subseteq RBlock /\ Cardinality(holders') <= Count
        /\ missing' \subseteq holders' /\ pc' = "dumps" /\ kind = "network"
        /\ UNCHANGED <<found, workerVars>>
    <3>1. CASE holders' = {} /\ missing' = {} /\ pc' = "dumps"
               /\ UNCHANGED <<found, workerVars>>
      <4>1. Cardinality(holders') <= Count
        BY <3>1, FS_EmptySet, BlockRange
      <4> QED
        BY <3>1, <4>1 DEF getLastRejectedBlocks
    <3>2. CASE \E n \in answered :
                /\ holders' = LastOf(n) /\ missing' = LastOf(n) \ source
                /\ pc' = "dumps" /\ UNCHANGED <<found, workerVars>>
      <4>1. PICK n \in answered :
                /\ holders' = LastOf(n) /\ missing' = LastOf(n) \ source
                /\ pc' = "dumps" /\ UNCHANGED <<found, workerVars>>
        BY <3>2
      <4>2. have[n] \in 0..Len(txs)
        BY RjParts DEF StateOK
      <4>3. 1..have[n] \subseteq RBlock
        BY <4>2, BlockRange
      <4>4. /\ LastOf(n) \subseteq 1..have[n]
            /\ Cardinality(LastOf(n)) <= Count
        BY <4>3, Chosen DEF LastOf
      <4> QED
        BY <4>1, <4>3, <4>4 DEF getLastRejectedBlocks
    <3> QED
      BY <1>2, <3>1, <3>2 DEF getLastRejectedBlocks
  <2> USE RjParts DEF workerVars, sourceVars
  <2>2. RjTypeOK'
    BY <1>0, <2>1 DEF RjTypeOK
  <2>3. StateOK'
    BY <1>0, <2>1 DEF StateOK
  <2>4. WindowOK' /\ CountOK' /\ FoundOK'
    BY <1>0, <2>1 DEF WindowOK, CountOK, FoundOK, Looking
  <2> QED
    BY <2>2, <2>3, <2>4 DEF RjInv
<1> QED
  BY <1>1, <1>2

\* The dumps are put in the source and the newest blocks chosen.
LEMMA DumpsMoves ==
    ASSUME RjInv, getRejectedBlocksDumps
    PROVE  RjInv'
<1>0. UNCHANGED <<kind, have, read>> /\ kind = "network"
  BY DEF getRejectedBlocksDumps
<1>1. CASE WorkerEnds /\ UNCHANGED sourceVars
  BY <1>0, <1>1, EndMoves
<1>2. CASE ~(WorkerEnds /\ UNCHANGED sourceVars)
  <2>1. /\ source' = Newest(source \cup missing, MaxBlocks)
        /\ holders' = Newest(source', Count) /\ pc' = "calculated"
        /\ UNCHANGED <<filled, missing, found, workerVars>>
    BY <1>2 DEF getRejectedBlocksDumps, Kept, sourceVars
  <2> USE RjParts DEF workerVars
  <2>2. /\ source' \subseteq RBlock
        /\ Cardinality(source') <= MaxBlocks
        /\ \A i \in RBlock : Seen(source, i) => Seen(source', i)
        /\ \A i \in RBlock : Seen(source, i) /\ i \notin source => i \notin source'
        /\ \A i \in RBlock : Over(source, i, Count) => Over(source', i, Count)
    <3>1. source \subseteq RBlock /\ missing \subseteq RBlock
      OBVIOUS
    <3>2. source' = Newest(source \cup missing, MaxBlocks)
      BY <2>1
    <3>3. MovedOn(source, missing, source')
      BY <3>1, <3>2, SourceMoves, Zenon
    <3> QED
      BY <3>3 DEF MovedOn
  <2>3. /\ holders' \subseteq source' /\ Cardinality(holders') <= Count
        /\ \A i \in holders' : Seen(source', i) /\ ~Over(source', i, Count)
        /\ \A i \in RBlock :
            Seen(source', i) => i \in holders' \/ Over(source', i, Count)
    BY <2>1, <2>2, Chosen
  <2>4. RjTypeOK'
    BY <1>0, <2>1, <2>2, <2>3 DEF RjTypeOK, StateOK
  <2>5. StateOK'
    BY <1>0, <2>1, <2>2 DEF StateOK
  <2>6. WindowOK'
    BY <2>1, <2>2, <2>3 DEF WindowOK, Looking
  <2>7. CountOK'
    <3>1. \A i \in currentRejectedBlocks : i \notin source => i \notin source'
      BY <2>2 DEF WindowOK
    <3> QED
      BY <2>1, <2>2, <2>3, <3>1 DEF CountOK, Looking
  <2>8. FoundOK'
    BY <1>0, <2>1 DEF FoundOK
  <2> QED
    BY <2>4, <2>5, <2>6, <2>7, <2>8 DEF RjInv
<1> QED
  BY <1>1, <1>2

\* The new ones of the chosen blocks are found in the source.
LEMMA FindMoves ==
    ASSUME RjInv, getBlocks
    PROVE  RjInv'
<1> USE RjParts DEF getBlocks, sourceVars
<1>1. /\ New \subseteq holders /\ New \subseteq RBlock
      /\ New = holders \ currentRejectedBlocks
  BY DEF New
<1>2. /\ lastRejectedBlocks' \subseteq lastRejectedBlocks \cup New
      /\ Cardinality(lastRejectedBlocks') <= MaxLast
  <2>1. /\ lastRejectedBlocks \cup New \subseteq 0..Len(txs)
        /\ Len(txs) \in Nat /\ MaxLast \in Nat
    BY <1>1, BlockRange
  <2> QED
    BY <2>1, NewestAtMost
<1>3. found' \subseteq New
  OBVIOUS
<1>4. RjTypeOK'
  BY <1>1, <1>2, <1>3 DEF RjTypeOK
<1>5. StateOK'
  BY DEF StateOK
<1>6. WindowOK'
  BY <1>1, <1>2 DEF WindowOK, Looking
<1>7. CountOK'
  BY DEF CountOK, Looking
<1>8. FoundOK'
  <2>1. \A i \in New : i \in source => i \in found'
    <3>1. CASE kind = "file"
      BY <1>1, <3>1 DEF FoundOK
    <3>2. CASE kind # "file"
      BY <3>2
    <3> QED
      BY <3>1, <3>2
  <2> QED
    BY <1>1, <1>3, <2>1 DEF FoundOK
<1> QED
  BY <1>4, <1>5, <1>6, <1>7, <1>8 DEF RjInv

\* What was found is counted and the chosen blocks are the known ones.
LEMMA ProcessMoves ==
    ASSUME RjInv, processBlocks
    PROVE  RjInv'
<1>0. /\ pc = "found" /\ pc' = "start" /\ currentRejectedBlocks' = holders
      /\ counted' = [i \in RBlock |-> counted[i] + IF i \in found THEN 1 ELSE 0]
      /\ UNCHANGED <<kind, have, read, source, filled, holders, missing, found,
                     lastRejectedBlocks>>
  BY DEF processBlocks, sourceVars
<1>1. history' \in [Tx -> Histories]
  <2>1. PICK old : history' = [t \in Tx |-> IF t \in old THEN <<>> ELSE addHistory(t)]
    BY DEF processBlocks
  <2>2. ASSUME NEW t \in Tx
        PROVE  (IF t \in old THEN <<>> ELSE addHistory(t)) \in Histories
    <3>1. <<>> \in Histories
      <4>1. <<>> \in Seq(RBlock) /\ Len(<<>>) = 0
        OBVIOUS
      <4>2. 0 <= MaxHistory
        BY RejectedAssumption
      <4> QED
        BY <4>1, <4>2, HistoryIs
    <3>2. addHistory(t) \in Histories
      <4>1. history[t] \in Histories /\ found \subseteq RBlock
        BY RjParts DEF RjTypeOK, Histories
      <4> QED
        BY <4>1, AddHistoryOK
    <3> QED
      BY <3>1, <3>2
  <2> QED
    BY <2>1, <2>2
<1> USE RjParts
<1>2. RjTypeOK'
  BY <1>0, <1>1 DEF RjTypeOK, Histories
<1>3. \A i \in found : counted[i] = 0
  BY <1>0 DEF FoundOK, CountOK, Looking
<1>4. \A i \in RBlock : counted'[i] = IF i \in found THEN 1 ELSE counted[i]
  BY <1>0, <1>3 DEF CountOK
<1>5. StateOK'
  BY <1>0, <1>4 DEF StateOK, CountOK
<1>6. WindowOK'
  BY <1>0 DEF WindowOK, Looking
<1>7. CountOK'
  <2>1. \A i \in RBlock : counted'[i] \in {0, 1}
    BY <1>4 DEF CountOK
  <2>2. \A i \in RBlock :
            counted'[i] = 1 => i \in holders \/ Over(source, i, Count)
    BY <1>0, <1>4 DEF CountOK, WindowOK, FoundOK, Looking
  <2>3. \A i \in holders : counted'[i] = 1 \/ i \notin source
    BY <1>0, <1>4 DEF CountOK, FoundOK
  <2> QED
    BY <1>0, <2>1, <2>2, <2>3 DEF CountOK, Looking
<1>8. FoundOK'
  BY <1>0 DEF FoundOK
<1> QED
  BY <1>2, <1>5, <1>6, <1>7, <1>8 DEF RjInv

\* Another node learns of a block.
LEMMA GrowMoves ==
    ASSUME RjInv, NEW n \in Node, Grow(n)
    PROVE  RjInv'
<1> USE RjParts DEF Grow, workerVars, sourceVars
<1>1. RjTypeOK'
  BY DEF RjTypeOK
<1>2. StateOK'
  <2>1. have' \in [Node -> 0..Len(txs)]
    BY BlockRange DEF StateOK
  <2> QED
    BY <2>1 DEF StateOK
<1>3. WindowOK' /\ CountOK' /\ FoundOK'
  BY DEF WindowOK, CountOK, FoundOK, Looking
<1> QED
  BY <1>1, <1>2, <1>3 DEF RjInv

LEMMA RjInvNext == RjInv /\ [RjNext]_rjVars => RjInv'
<1> SUFFICES ASSUME RjInv, [RjNext]_rjVars PROVE RjInv'
  OBVIOUS
<1>1. CASE getLastHolders
  BY <1>1, HoldersMoves
<1>2. CASE fillHoldersFails
  BY <1>2, EndMoves DEF fillHoldersFails
<1>3. CASE replaceBlocks
  BY <1>3, ReplaceMoves
<1>4. CASE \E answered \in SUBSET Node : getLastRejectedBlocks(answered)
  BY <1>4, NamesMoves
<1>5. CASE getRejectedBlocksDumps
  BY <1>5, DumpsMoves
<1>6. CASE getBlocks
  BY <1>6, FindMoves
<1>7. CASE processBlocks
  BY <1>7, ProcessMoves
<1>8. CASE addBlock
  BY <1>8, AddMoves
<1>9. CASE \E n \in Node : Grow(n)
  BY <1>9, GrowMoves
<1>10. CASE UNCHANGED rjVars
  <2> USE <1>10, RjParts DEF rjVars, workerVars, sourceVars
  <2>1. RjTypeOK' /\ StateOK'
    BY DEF RjTypeOK, StateOK
  <2>2. WindowOK' /\ CountOK' /\ FoundOK'
    BY DEF WindowOK, CountOK, FoundOK, Looking
  <2> QED
    BY <2>1, <2>2 DEF RjInv
<1> QED
  BY <1>1, <1>2, <1>3, <1>4, <1>5, <1>6, <1>7, <1>8, <1>9, <1>10
     DEF RjNext, WorkerNext

LEMMA RjInvInit == RjInit => RjInv
<1> SUFFICES ASSUME RjInit PROVE RjInv
  OBVIOUS
<1>1. Cardinality({}) = 0 /\ 0 <= Count /\ 0 <= MaxBlocks /\ 0 <= MaxLast
  BY FS_EmptySet, BlockRange
<1>2. history \in [Tx -> Histories]
  <2>1. <<>> \in Seq(RBlock) /\ Len(<<>>) = 0 /\ 0 <= MaxHistory
    BY RejectedAssumption
  <2>2. <<>> \in Histories
    BY <2>1, HistoryIs
  <2> QED
    BY <2>2 DEF RjInit
<1>3. RjTypeOK
  BY <1>1, <1>2 DEF RjInit, RjTypeOK, Histories
<1>4. StateOK
  BY BlockRange, RejectedAssumption DEF RjInit, StateOK
<1>5. WindowOK /\ CountOK /\ FoundOK
  BY DEF RjInit, WindowOK, CountOK, FoundOK, Looking
<1> QED
  BY <1>3, <1>4, <1>5 DEF RjInv

(***************************************************************************)
(* The theorems.                                                           *)
(***************************************************************************)

\* The source, what the worker knows and what it has counted fit together in
\* every state.
THEOREM RjInvariant == RjSpec => []RjInv
BY RjInvInit, RjInvNext, PTL DEF RjSpec

\* The members of the classes have their types, and the source, the blocks
\* that are asked for and the histories stay within their limits.
THEOREM RjTypes == RjSpec => []RjTypeOK
<1>1. RjInv => RjTypeOK
  BY DEF RjInv
<1> QED
  BY <1>1, RjInvariant, PTL

\* However blocks come into the source while the worker looks, none is counted
\* twice, and one that the worker takes for known has been counted.
THEOREM RejectedCountedOnce == RjSpec => []CountedOnce
<1>1. RjInv => CountedOnce
  <2> SUFFICES ASSUME RjInv PROVE CountedOnce
    OBVIOUS
  <2>1. \A i \in RBlock : counted[i] <= 1
    BY RjParts DEF CountOK
  <2>2. \A i \in currentRejectedBlocks : counted[i] = 1 \/ i \notin source
    BY RjParts DEF CountOK
  <2> QED
    BY <2>1, <2>2 DEF CountedOnce
<1> QED
  BY <1>1, RjInvariant, PTL

(***************************************************************************)
(* The blocks that a node names to others.                                 *)
(***************************************************************************)

\* When the newest of the source are among the blocks that may be named, no
\* others are named.
LEMMA NamedAreNewest ==
    ASSUME NEW S, S \subseteq RBlock, NEW L, L \subseteq RBlock,
           \A i \in L : Seen(S, i), Newest(S, Count) \subseteq L
    PROVE  Newest(L, Count) \subseteq Newest(S, Count)
<1>1. /\ Len(txs) \in Nat /\ S \subseteq 0..Len(txs) /\ L \subseteq 0..Len(txs)
      /\ Count \in Nat /\ RBlock \subseteq Int /\ Count <= Count
  BY BlockRange
<1>2. ASSUME NEW i \in Newest(L, Count), i \notin Newest(S, Count)
      PROVE  FALSE
  <2>1. i \in L /\ Cardinality(Above(L, i)) < Count
    BY <1>1, <1>2, InNewest
  <2>2. Over(S, i, Count)
    BY <1>2, <2>1, Chosen
  <2>3. Cardinality(Above(Newest(S, Count), i)) >= Count
    <3>1. Cardinality(Above(S, i)) >= Count /\ i \in Int /\ S \subseteq S
      BY <1>1, <2>1, <2>2 DEF Over
    <3> QED
      BY <1>1, <3>1, PassedStays
  <2>4. /\ Cardinality(Above(Newest(S, Count), i)) <= Cardinality(Above(L, i))
        /\ Cardinality(Above(Newest(S, Count), i)) \in Nat
        /\ Cardinality(Above(L, i)) \in Nat
    BY <1>1, AboveFinite
  <2> QED
    BY <1>1, <2>1, <2>3, <2>4
<1> QED
  BY <1>2

\* The newest of a source stay in it when no more than Count are added.
LEMMA NewestStay ==
    ASSUME NEW S, S \subseteq RBlock, NEW X, X \subseteq RBlock,
           Cardinality(X) <= Count, 2 * Count <= MaxBlocks
    PROVE  Newest(S, Count) \subseteq Newest(S \cup X, MaxBlocks)
<1> DEFINE U == S \cup X
<1>1. /\ Len(txs) \in Nat /\ U \subseteq 0..Len(txs) /\ X \subseteq U
      /\ S \subseteq 0..Len(txs) /\ X \subseteq 0..Len(txs)
      /\ Count \in Nat /\ MaxBlocks \in Nat
  BY BlockRange
<1>2. ASSUME NEW i \in Newest(S, Count)
      PROVE  i \in Newest(U, MaxBlocks)
  <2>1. i \in S /\ Cardinality(Above(S, i)) < Count
    BY <1>1, <1>2, InNewest
  <2>2. Above(U, i) = Above(S, i) \cup Above(X, i)
    BY DEF Above
  <2>3. /\ IsFiniteSet(Above(S, i)) /\ Cardinality(Above(S, i)) \in Nat
        /\ IsFiniteSet(Above(X, i)) /\ Cardinality(Above(X, i)) \in Nat
        /\ Cardinality(Above(U, i)) \in Nat
    BY <1>1, AboveFinite
  <2>4. Cardinality(Above(X, i)) <= Cardinality(X) /\ Cardinality(X) \in Nat
    <3>1. IsFiniteSet(X)
      BY <1>1, AboveFinite
    <3>2. Above(X, i) \subseteq X
      BY DEF Above
    <3> QED
      BY <3>1, <3>2, FS_Subset, FS_CardinalityType
  <2>5. Cardinality(Above(U, i)) <= Cardinality(Above(S, i)) + Cardinality(Above(X, i))
    <3> DEFINE B == Above(S, i) \cap Above(X, i)
    <3>1. /\ Cardinality(Above(S, i) \cup Above(X, i))
             = Cardinality(Above(S, i)) + Cardinality(Above(X, i)) - Cardinality(B)
      BY <2>3, FS_Union
    <3>2. Cardinality(B) \in Nat
      <4>1. B \subseteq Above(S, i)
        OBVIOUS
      <4>2. IsFiniteSet(B)
        BY <2>3, <4>1, FS_Subset
      <4> QED
        BY <4>2, FS_CardinalityType
    <3> HIDE DEF B
    <3>3. Cardinality(Above(U, i))
            = Cardinality(Above(S, i)) + Cardinality(Above(X, i)) - Cardinality(B)
      BY <2>2, <3>1, Zenon
    <3> HIDE DEF U
    <3> QED
      BY <2>3, <3>2, <3>3
  <2>6. Cardinality(Above(U, i)) < MaxBlocks
    BY <1>1, <2>1, <2>3, <2>4, <2>5
  <2> QED
    BY <1>1, <2>1, <2>6, InNewest
<1> QED
  BY <1>2

\* The newest of a source stay among the blocks that may be named when these
\* are cut to their limit.
LEMMA NamedStay ==
    ASSUME NEW S, S \subseteq RBlock, NEW L, L \subseteq RBlock,
           \A i \in L : Seen(S, i), Newest(S, Count) \subseteq L
    PROVE  Newest(S, Count) \subseteq Newest(L, MaxLast)
<1>1. /\ Len(txs) \in Nat /\ S \subseteq 0..Len(txs) /\ L \subseteq 0..Len(txs)
      /\ Count \in Nat /\ MaxLast \in Nat /\ MaxBlocks \in Nat
      /\ Count <= MaxLast /\ Count <= MaxBlocks /\ RBlock \subseteq Int
  BY BlockRange
<1>2. ASSUME NEW i \in Newest(S, Count)
      PROVE  i \in Newest(L, MaxLast)
  <2>1. i \in S /\ Cardinality(Above(S, i)) < Count
    BY <1>1, <1>2, InNewest
  <2>2. IsFiniteSet(Above(S, i)) /\ Cardinality(Above(S, i)) \in Nat
    BY AboveNat
  <2>3. ASSUME NEW j \in L, j > i
        PROVE  j \in S
    <3>1. ASSUME Over(S, j, MaxBlocks) PROVE FALSE
      <4>1. i \in Int /\ j \in Int /\ \A x \in S : x \in Int
        BY <1>1, <2>1
      <4>2. \A x \in S : x > j => x > i
        BY <2>3, <4>1
      <4>3. Above(S, j) \subseteq Above(S, i)
        BY <4>2 DEF Above
      <4>4. Cardinality(Above(S, j)) <= Cardinality(Above(S, i))
        BY <2>2, <4>3, FS_Subset
      <4>5. Cardinality(Above(S, j)) \in Nat
        BY AboveNat
      <4>6. Cardinality(Above(S, j)) >= MaxBlocks
        BY <3>1 DEF Over
      <4> QED
        BY <1>1, <2>1, <2>2, <4>4, <4>5, <4>6
    <3> QED
      BY <3>1 DEF Seen
  <2>4. Above(L, i) \subseteq Above(S, i)
    BY <2>3 DEF Above
  <2>5. Cardinality(Above(L, i)) <= Cardinality(Above(S, i))
    BY <2>2, <2>4, FS_Subset
  <2>6. Cardinality(Above(L, i)) \in Nat
    BY AboveNat
  <2>7. Cardinality(Above(L, i)) < MaxLast
    BY <1>1, <2>1, <2>2, <2>5, <2>6
  <2> QED
    BY <1>1, <1>2, <2>7, InNewest
<1> QED
  BY <1>2

\* Every step keeps what is named among the newest of the source.
LEMMA NamedNext ==
    ASSUME 2 * Count <= MaxBlocks
    PROVE  RjInv /\ NamedOK /\ [RjNext]_rjVars => NamedOK'
<1> SUFFICES ASSUME RjInv, NamedOK, [RjNext]_rjVars PROVE NamedOK'
  OBVIOUS
<1> USE RjParts
<1>0. \A i \in lastRejectedBlocks : Seen(source, i)
  BY DEF WindowOK
<1>1. ASSUME WorkerEnds, UNCHANGED <<kind, have, read, sourceVars>>, pc # "calculated"
      PROVE  NamedOK'
  BY <1>1 DEF NamedOK, WorkerEnds, workerVars, sourceVars
<1>2. CASE getLastHolders \/ replaceBlocks \/ addBlock
  <2>1. kind' # "network"
    BY <1>2 DEF getLastHolders, replaceBlocks, addBlock, StateOK
  <2> QED
    BY <2>1 DEF NamedOK
<1>3. CASE fillHoldersFails
  BY <1>1, <1>3 DEF fillHoldersFails
<1>4. CASE \E answered \in SUBSET Node : getLastRejectedBlocks(answered)
  <2>1. PICK answered \in SUBSET Node : getLastRejectedBlocks(answered)
    BY <1>4
  <2>2. CASE WorkerEnds
    BY <1>1, <2>1, <2>2 DEF getLastRejectedBlocks
  <2>3. CASE ~WorkerEnds
    <3>1. /\ UNCHANGED <<kind, source, workerVars>> /\ pc = "start" /\ pc' = "dumps"
      BY <2>1, <2>3 DEF getLastRejectedBlocks, sourceVars
    <3> QED
      BY <3>1 DEF NamedOK, workerVars
  <2> QED
    BY <2>2, <2>3
<1>5. CASE getRejectedBlocksDumps
  <2>1. CASE WorkerEnds /\ UNCHANGED sourceVars
    BY <1>1, <1>5, <2>1 DEF getRejectedBlocksDumps
  <2>2. CASE ~(WorkerEnds /\ UNCHANGED sourceVars)
    <3>1. /\ source' = Newest(source \cup missing, MaxBlocks)
          /\ holders' = Newest(source', Count) /\ pc' = "calculated"
          /\ pc = "dumps" /\ kind = "network" /\ kind' = kind
          /\ UNCHANGED workerVars
      BY <1>5, <2>2 DEF getRejectedBlocksDumps, Kept, sourceVars
    <3>2. Newest(source, Count) \subseteq lastRejectedBlocks
      BY <3>1 DEF NamedOK
    <3>3. Newest(lastRejectedBlocks, Count) \subseteq Newest(source, Count)
      BY <1>0, <3>2, NamedAreNewest
    <3>4. Cardinality(missing) <= Count
      <4>1. missing \subseteq holders /\ Cardinality(holders) <= Count
        BY <3>1 DEF StateOK, RjTypeOK
      <4>2. IsFiniteSet(holders)
        BY BlockRange, AboveFinite
      <4>3. /\ Cardinality(missing) <= Cardinality(holders)
            /\ Cardinality(missing) \in Nat /\ Cardinality(holders) \in Nat
        BY <4>1, <4>2, FS_Subset, FS_CardinalityType
      <4> QED
        BY <4>1, <4>3, BlockRange
    <3>5. Newest(source, Count) \subseteq source'
      BY <3>1, <3>4, NewestStay
    <3> QED
      BY <3>1, <3>3, <3>5 DEF NamedOK, workerVars
  <2> QED
    BY <2>1, <2>2
<1>6. CASE getBlocks
  <2>1. CASE kind = "network"
    <3> DEFINE L == lastRejectedBlocks \cup New
    <3>1. /\ lastRejectedBlocks' = Newest(L, MaxLast)
          /\ pc = "calculated" /\ pc' = "found"
          /\ UNCHANGED <<kind, source, holders>>
      BY <1>6 DEF getBlocks, sourceVars
    <3>2. /\ holders = Newest(source, Count)
          /\ currentRejectedBlocks \subseteq lastRejectedBlocks
      BY <2>1, <3>1 DEF NamedOK
    <3>3. L \subseteq RBlock /\ Newest(source, Count) \subseteq L
      BY <3>2 DEF New
    <3>4. \A i \in L : Seen(source, i)
      BY <1>0, <3>1 DEF New, WindowOK, Looking
    <3> HIDE DEF L
    <3>5. Newest(source, Count) \subseteq Newest(L, MaxLast)
      BY <3>3, <3>4, NamedStay
    <3> QED
      BY <3>1, <3>2, <3>5 DEF NamedOK
  <2>2. CASE kind # "network"
    BY <1>6, <2>2 DEF getBlocks, NamedOK
  <2> QED
    BY <2>1, <2>2
<1>7. CASE processBlocks
  <2>1. /\ pc = "found" /\ pc' = "start" /\ currentRejectedBlocks' = holders
        /\ UNCHANGED <<kind, source, lastRejectedBlocks>>
    BY <1>7 DEF processBlocks, sourceVars
  <2> QED
    BY <2>1 DEF NamedOK
<1>8. CASE \E n \in Node : Grow(n)
  BY <1>8 DEF Grow, NamedOK, workerVars, sourceVars
<1>9. CASE UNCHANGED rjVars
  BY <1>9 DEF rjVars, NamedOK, workerVars, sourceVars
<1> QED
  BY <1>2, <1>3, <1>4, <1>5, <1>6, <1>7, <1>8, <1>9 DEF RjNext, WorkerNext

LEMMA NamedInit == RjInit => NamedOK
<1> SUFFICES ASSUME RjInit PROVE NamedOK
  OBVIOUS
<1>1. Newest({}, Count) = {}
  BY DEF Newest
<1> QED
  BY <1>1 DEF RjInit, NamedOK

\* A node that has its rejected blocks from others has the dump of every block
\* that it names to them, when the source holds twice as many blocks as are
\* named at a time, as it does in the code: in between, the blocks of a new
\* answer are in the source while the names are those from before.
THEOREM NamedBlocksHaveDumps ==
    ASSUME 2 * Count <= MaxBlocks
    PROVE  RjSpec => []NamedHaveDumps
<1>1. RjInv /\ NamedOK => NamedHaveDumps
  <2> SUFFICES ASSUME RjInv, NamedOK, kind = "network"
               PROVE  Newest(lastRejectedBlocks, Count) \subseteq source
    BY DEF NamedHaveDumps
  <2>1. CASE pc = "calculated"
    BY <2>1 DEF NamedOK
  <2>2. CASE pc # "calculated"
    <3>1. Newest(source, Count) \subseteq lastRejectedBlocks
      BY <2>2 DEF NamedOK
    <3>2. /\ source \subseteq RBlock /\ lastRejectedBlocks \subseteq RBlock
          /\ \A i \in lastRejectedBlocks : Seen(source, i)
      BY RjParts DEF WindowOK
    <3>3. Newest(lastRejectedBlocks, Count) \subseteq Newest(source, Count)
      BY <3>1, <3>2, NamedAreNewest
    <3> QED
      BY <3>2, <3>3, Chosen
  <2> QED
    BY <2>1, <2>2
<1>2. RjInv /\ NamedOK /\ [RjNext]_rjVars => NamedOK'
  BY NamedNext
<1> QED
  BY <1>1, <1>2, NamedInit, RjInvariant, PTL DEF RjSpec
=============================================================================
