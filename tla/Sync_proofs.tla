----------------------------- MODULE Sync_proofs -----------------------------
(***************************************************************************)
(* The first part is about BlockChain, for every set of blocks and every   *)
(* order of additions and restarts: the map and the list agree, the list   *)
(* is linked by parents and no number is ever given to a second block.     *)
(*                                                                         *)
(* The second is what Sync guarantees for every tree of blocks, any number *)
(* of crashes, forks and failed writes, as long as the process is not      *)
(* killed between the cut of the block files and the removal of the        *)
(* databases; then, when no write to the database fails, that the database *)
(* can be loaded, and that its chain is one that DurableChain allows.      *)
(*                                                                         *)
(* The last two parts are about the main worker: that it saves the blocks  *)
(* without a gap and, when the servers keep to one chain, that what it has *)
(* saved is a block of the chain.                                          *)
(***************************************************************************)
EXTENDS Sync, Lemmas

\* MaxFrom stays within a bound that holds for all the numbers.
LEMMA MaxFromBound ==
    ASSUME NEW b \in Nat, NEW m \in 0..b, NEW S, S \subseteq 0..b
    PROVE  MaxFrom(m, S) \in 0..b
<1> DEFINE T == S \cup {m}
<1>1. T \subseteq 0..b /\ T # {}
  OBVIOUS
<1>2. \E n \in T : \A k \in T : k <= n
  BY <1>1, NatMax, Zenon
<1>3. MaxFrom(m, S) = CHOOSE n \in T : \A k \in T : k <= n
  BY DEF MaxFrom
<1>4. MaxFrom(m, S) \in T
  BY <1>2, <1>3, Zenon
<1> QED
  BY <1>1, <1>4

(***************************************************************************)
(* The walk of calcBlockchain.                                             *)
(***************************************************************************)

\* A path is a nonempty sequence of blocks linked by parents.
LEMMA PathFacts ==
    ASSUME NEW p \in Paths
    PROVE  /\ Len(p) \in Nat \ {0}
           /\ p \in [1..Len(p) -> Hash]
           /\ p \in Seq(Hash)
           /\ \A i \in 1..(Len(p) - 1) : p[i + 1] = prevHash[p[i]]
<1>1. Cardinality(Hash) \in Nat
  BY FS_CardinalityType, HashAssumption
<1>2. PICK n \in 1..Cardinality(Hash), h \in Hash :
        p = [i \in 1..n |-> Ancestor[i - 1][h]]
  BY DEF Paths, AncestorLists
<1>3. n \in Nat \ {0} /\ Len(p) = n /\ DOMAIN p = 1..n
  BY <1>1, <1>2
<1>4. /\ \A i \in 1..Len(p) : p[i] \in Hash
      /\ \A i \in 1..(Len(p) - 1) : p[i + 1] = prevHash[p[i]]
  BY DEF Paths
<1>5. p \in [1..n -> Hash]
  BY <1>2, <1>3, <1>4
<1> QED
  BY <1>3, <1>4, <1>5

(***************************************************************************)
(* The blocks above a block.                                               *)
(***************************************************************************)

LEMMA AncestorFacts ==
    /\ \A h \in Block : Ancestor[0][h] = h
    /\ \A n \in Nat, h \in Block :
        /\ Ancestor[n][h] \in Block
        /\ Ancestor[n + 1][h] = IF Ancestor[n][h] \in Hash THEN prevHash[Ancestor[n][h]]
                                ELSE Genesis
<1> DEFINE T == [Block -> Block]
           base == [h \in Block |-> h]
           Up(g) == [h \in Block |-> IF g[h] \in Hash THEN prevHash[g[h]] ELSE Genesis]
           step == [x \in Nat \X T |-> Up(x[2])]
<1>1. base \in T
  OBVIOUS
<1>2. ASSUME NEW g \in T PROVE Up(g) \in T
  <2>1. \A h \in Block : g[h] \in Block
    OBVIOUS
  <2>2. \A h \in Hash : prevHash[h] \in Block
    BY HashAssumption DEF Block
  <2>3. Genesis \in Block
    BY DEF Block
  <2> QED
    BY <2>1, <2>2, <2>3
<1>3. step \in [Nat \X T -> T]
  <2> HIDE DEF T
  <2>1. \A x \in Nat \X T : x[2] \in T
    OBVIOUS
  <2>2. \A x \in Nat \X T : Up(x[2]) \in T
    BY <1>2, <2>1, Zenon
  <2> QED
    BY <2>2
<1>4. PICK f \in [Nat -> T] :
        f[0] = base /\ \A n \in Nat \ {0} : f[n] = step[<<n, f[n - 1]>>]
  <2>1. PICK V, b, s : V = T /\ b = base /\ s = step
    BY Zenon
  <2>2. b \in V /\ s \in [Nat \X V -> V]
    BY <1>1, <1>3, <2>1, Zenon
  <2>3. PICK f : IsRecursion(f, V, b, s)
    BY <2>2, Recursion
  <2>4. f \in [Nat -> V] /\ f[0] = b /\ \A n \in Nat \ {0} : f[n] = s[<<n, f[n - 1]>>]
    BY <2>3 DEF IsRecursion
  <2> HIDE DEF T, base, step
  <2> QED
    BY <2>1, <2>4
<1>5. ASSUME NEW n \in Nat \ {0} PROVE f[n] = Up(f[n - 1])
  <2>1. n - 1 \in Nat
    OBVIOUS
  <2>2. <<n, f[n - 1]>> \in Nat \X T
    BY <2>1
  <2> HIDE DEF T, Up
  <2> QED
    BY <1>4, <2>2
<1> DEFINE Rec(A) == [n \in Nat |->
                [h \in Block |->
                    IF n = 0 THEN h
                    ELSE LET child == A[n - 1][h]
                         IN  IF child \in Hash THEN prevHash[child] ELSE Genesis]]
<1>6. f = Rec(f)
  <2>1. ASSUME NEW n \in Nat PROVE f[n] = Rec(f)[n]
    <3>1. CASE n = 0
      BY <1>4, <3>1
    <3>2. CASE n # 0
      <4>1. f[n] = Up(f[n - 1])
        BY <1>5, <3>2
      <4> QED
        BY <3>2, <4>1
    <3> QED
      BY <3>1, <3>2
  <2>2. f = [n \in Nat |-> f[n]]
    OBVIOUS
  <2>3. Rec(f) = [n \in Nat |-> Rec(f)[n]]
    OBVIOUS
  <2> HIDE DEF Rec
  <2> QED
    BY <2>1, <2>2, <2>3
<1>7. Ancestor = Rec(Ancestor)
  <2>1. \E A : A = Rec(A)
    BY <1>6
  <2> QED
    BY <2>1, Zenon DEF Ancestor
<1>8. \A h \in Block : Ancestor[0][h] = h
  BY <1>7
<1>9. \A n \in Nat, h \in Block :
        Ancestor[n + 1][h] = IF Ancestor[n][h] \in Hash THEN prevHash[Ancestor[n][h]]
                             ELSE Genesis
  <2> SUFFICES ASSUME NEW n \in Nat, NEW h \in Block
               PROVE  Ancestor[n + 1][h] = IF Ancestor[n][h] \in Hash
                                           THEN prevHash[Ancestor[n][h]] ELSE Genesis
    OBVIOUS
  <2>1. n + 1 \in Nat /\ n + 1 # 0 /\ (n + 1) - 1 = n
    OBVIOUS
  <2>2. Rec(Ancestor)[n + 1][h] = IF Ancestor[n][h] \in Hash
                                  THEN prevHash[Ancestor[n][h]] ELSE Genesis
    BY <2>1
  <2> QED
    BY <1>7, <2>2
<1> DEFINE Bad == {n \in Nat : \E h \in Block : Ancestor[n][h] \notin Block}
<1>10. Bad = {}
  <2> SUFFICES ASSUME Bad # {} PROVE FALSE
    OBVIOUS
  <2>1. PICK n \in Bad : \A k \in Bad : n <= k
    <3>1. Bad \subseteq Nat
      OBVIOUS
    <3> QED
      BY <3>1, NatMin, Zenon
  <2>2. PICK h \in Block : Ancestor[n][h] \notin Block
    BY <2>1
  <2>3. n \in Nat /\ n # 0
    BY <1>8, <2>2
  <2>4. PICK m \in Nat : n = m + 1
    <3>1. n - 1 \in Nat /\ n = (n - 1) + 1
      BY <2>3
    <3> QED
      BY <3>1
  <2>5. Ancestor[n][h] = IF Ancestor[m][h] \in Hash THEN prevHash[Ancestor[m][h]]
                         ELSE Genesis
    BY <1>9, <2>4
  <2> QED
    BY <2>2, <2>5, HashAssumption DEF Block
<1> QED
  BY <1>8, <1>9, <1>10

\* Above a block of height k there are blocks of all smaller heights, then the
\* genesis block.
LEMMA AncestorHeights ==
    ASSUME NEW h \in Hash
    PROVE  /\ height[h] \in Nat \ {0}
           /\ \A n \in 0..(height[h] - 1) :
                Ancestor[n][h] \in Hash /\ height[Ancestor[n][h]] = height[h] - n
           /\ Ancestor[height[h]][h] = Genesis
<1>1. \A x \in Hash :
        /\ height[x] \in Nat \ {0}
        /\ prevHash[x] \in Hash => height[prevHash[x]] = height[x] - 1
        /\ height[x] > 1 => prevHash[x] \in Hash
        /\ height[x] = 1 => prevHash[x] = Genesis
  BY HashAssumption, HeightAssumption
<1>2. h \in Block
  BY DEF Block
<1>3. PICK k \in Nat \ {0} : k = height[h]
  BY <1>1
<1> DEFINE Bad == {n \in 0..(k - 1) :
                    ~(Ancestor[n][h] \in Hash /\ height[Ancestor[n][h]] = k - n)}
<1>4. Bad = {}
  <2> SUFFICES ASSUME Bad # {} PROVE FALSE
    OBVIOUS
  <2>1. PICK n \in Bad : \A m \in Bad : n <= m
    <3>1. Bad \subseteq Nat
      OBVIOUS
    <3> QED
      BY <3>1, NatMin, Zenon
  <2>2. n \in 0..(k - 1) /\ ~(Ancestor[n][h] \in Hash /\ height[Ancestor[n][h]] = k - n)
    OBVIOUS
  <2>3. n # 0
    BY <1>2, <1>3, <2>2, AncestorFacts
  <2>4. PICK m \in 0..(k - 1) : n = m + 1
    <3>1. n - 1 \in 0..(k - 1) /\ n = (n - 1) + 1
      BY <2>2, <2>3
    <3> QED
      BY <3>1
  <2>5. m \notin Bad
    BY <2>1, <2>4
  <2>6. PICK x \in Hash : x = Ancestor[m][h] /\ height[x] = k - m
    BY <2>5
  <2>7. Ancestor[n][h] = prevHash[x]
    BY <1>2, <2>4, <2>6, AncestorFacts
  <2>8. height[x] > 1 /\ height[x] - 1 = k - n
    BY <2>2, <2>4, <2>6
  <2>9. prevHash[x] \in Hash /\ height[prevHash[x]] = k - n
    BY <1>1, <2>8
  <2> QED
    BY <2>2, <2>7, <2>9
<1>5. Ancestor[k][h] = Genesis
  <2>1. PICK m \in 0..(k - 1) : k = m + 1
    <3>1. k - 1 \in 0..(k - 1) /\ k = (k - 1) + 1
      OBVIOUS
    <3> QED
      BY <3>1
  <2>2. PICK x \in Hash : x = Ancestor[m][h] /\ height[x] = k - m
    BY <1>4
  <2>3. height[x] = 1
    BY <2>1, <2>2
  <2>4. Ancestor[k][h] = prevHash[x]
    BY <1>2, <2>1, <2>2, AncestorFacts
  <2> QED
    BY <1>1, <2>3, <2>4
<1> QED
  BY <1>3, <1>4, <1>5

\* A block and some of the blocks above it are a list that calcBlockchain may
\* collect: there are enough hashes for it.
LEMMA PathUp ==
    ASSUME NEW h \in Hash, NEW n \in 1..height[h]
    PROVE  [i \in 1..n |-> Ancestor[i - 1][h]] \in Paths
<1> DEFINE p == [i \in 1..n |-> Ancestor[i - 1][h]]
<1>0. PICK k \in Nat \ {0} : k = height[h]
  BY AncestorHeights
<1>1. n \in Nat \ {0} /\ n <= k
  BY <1>0
<1>2. ASSUME NEW i \in 1..n
      PROVE  p[i] \in Hash /\ height[p[i]] = (k - i) + 1
  <2>1. i - 1 \in 0..(k - 1)
    BY <1>1
  <2>2. Ancestor[i - 1][h] \in Hash /\ height[Ancestor[i - 1][h]] = k - (i - 1)
    BY <1>0, <2>1, AncestorHeights
  <2>3. k - (i - 1) = (k - i) + 1
    OBVIOUS
  <2> QED
    BY <2>2, <2>3
<1>3. p \in [1..n -> Hash] /\ Len(p) = n
  <2>1. DOMAIN p = 1..n /\ p \in [1..n -> Hash]
    BY <1>2
  <2> QED
    BY <1>1, <2>1
<1>4. n \in 1..Cardinality(Hash)
  <2>1. IsFiniteSet(1..n) /\ Cardinality(1..n) = n
    BY <1>1, FS_Interval
  <2>2. IsFiniteSet(Hash) /\ Cardinality(Hash) \in Nat
    BY HashAssumption, FS_CardinalityType
  <2>3. ASSUME Cardinality(Hash) < n PROVE FALSE
    <3>1. \E x, y \in 1..n : x # y /\ p[x] = p[y]
      <4> HIDE DEF p
      <4> QED
        BY <1>3, <2>1, <2>2, <2>3, FS_PigeonHole
    <3>2. PICK x \in 1..n, y \in 1..n : x # y /\ p[x] = p[y]
      BY <3>1
    <3>3. (k - x) + 1 = (k - y) + 1
      BY <1>2, <3>2
    <3> QED
      BY <1>1, <3>2, <3>3
  <2> QED
    BY <1>1, <2>2, <2>3
<1>5. ASSUME NEW i \in 1..(n - 1) PROVE p[i + 1] = prevHash[p[i]]
  <2>1. i \in 1..n /\ i + 1 \in 1..n /\ (i + 1) - 1 = i /\ i - 1 \in Nat /\ (i - 1) + 1 = i
    BY <1>1
  <2>2. h \in Block
    BY DEF Block
  <2>3. Ancestor[i][h] = prevHash[Ancestor[i - 1][h]]
    <3>1. Ancestor[i - 1][h] \in Hash
      BY <1>2, <2>1
    <3> QED
      BY <2>1, <2>2, <3>1, AncestorFacts
  <2> QED
    BY <2>1, <2>3
<1>6. p \in AncestorLists
  BY <1>4 DEF AncestorLists
<1> HIDE DEF p
<1>7. /\ \A i \in 1..Len(p) : p[i] \in Hash
      /\ \A i \in 1..(Len(p) - 1) : p[i + 1] = prevHash[p[i]]
  BY <1>2, <1>3, <1>5
<1>8. p \in Paths
  BY <1>6, <1>7 DEF Paths
<1> QED
  BY <1>8 DEF p

(***************************************************************************)
(* The inductive invariant.  Heights are in it because a restart must not  *)
(* find the unknown parent of the first block among the later blocks.      *)
(***************************************************************************)

HeightsGrow ==
    \A n \in 1..countBlocks : height[getBlock(n)] = height[getBlock(1)] + n - 1

BcInv ==
    /\ BcTypeOK
    /\ NumbersAgree
    /\ ChainLinked
    /\ HeightsGrow
    /\ LastStateBlockInRange

\* What the invariant says of the list and of the map, ready for use.
LEMMA InvFacts ==
    ASSUME BcInv
    PROVE  /\ countBlocks \in Nat /\ Len(hashes) = countBlocks + 1
           /\ hashes \in Seq(Block) /\ lastStateBlock \in 0..countBlocks
           /\ getBlock(0) = Genesis
           /\ \A n \in 1..countBlocks : getBlock(n) \in Hash
           /\ DOMAIN blocks = {getBlock(n) : n \in 0..countBlocks}
           /\ \A x \in DOMAIN blocks : blocks[x] \in 0..countBlocks
           /\ \A n \in 0..countBlocks : blocks[getBlock(n)] = n
           /\ \A n \in 0..countBlocks, m \in 0..countBlocks :
                    getBlock(n) = getBlock(m) => n = m
           /\ \A n \in 2..countBlocks : prevHash[getBlock(n)] = getBlock(n - 1)
<1> USE DEF BcInv
<1>1. countBlocks \in Nat /\ Len(hashes) = countBlocks + 1 /\ hashes \in Seq(Block)
  BY DEF BcTypeOK, NumbersAgree, countBlocks
<1>2. lastStateBlock \in 0..countBlocks
  BY <1>1 DEF BcTypeOK, LastStateBlockInRange
<1>3. getBlock(0) = Genesis
  BY DEF ChainLinked
<1>4. \A n \in 0..countBlocks : getBlock(n) \in DOMAIN blocks /\ blocks[getBlock(n)] = n
  BY DEF NumbersAgree
<1>5. \A n \in 0..countBlocks, m \in 0..countBlocks : getBlock(n) = getBlock(m) => n = m
  BY <1>4
<1>6. \A n \in 0..countBlocks : getBlock(n) \in Block
  BY <1>1 DEF getBlock
<1>7. \A n \in 1..countBlocks : getBlock(n) \in Hash
  BY <1>1, <1>3, <1>5, <1>6 DEF Block
<1>8. \A x \in DOMAIN blocks : blocks[x] \in 0..countBlocks /\ x = getBlock(blocks[x])
  BY DEF NumbersAgree
<1>9. DOMAIN blocks = {getBlock(n) : n \in 0..countBlocks}
  BY <1>4, <1>8
<1>10. \A n \in 2..countBlocks : prevHash[getBlock(n)] = getBlock(n - 1)
  BY DEF ChainLinked
<1> QED
  BY <1>1, <1>2, <1>3, <1>4, <1>5, <1>7, <1>8, <1>9, <1>10

\* The constructor establishes the invariant.
LEMMA InitInv == BcInit => BcInv
<1> SUFFICES ASSUME BcInit PROVE BcInv
  OBVIOUS
<1>1. /\ blocks = [x \in {Genesis} |-> 0]
      /\ hashes = <<Genesis>>
      /\ lastStateBlock = 0
  BY DEF BcInit, Fresh
<1>2. countBlocks = 0 /\ getBlock(0) = Genesis /\ Len(hashes) = 1
  BY <1>1 DEF countBlocks, getBlock
<1>3. BcTypeOK
  <2>1. blocks \in [DOMAIN blocks -> Int] /\ DOMAIN blocks = {Genesis}
    BY <1>1
  <2> QED
    BY <1>1, <2>1 DEF BcTypeOK, Block
<1>4. NumbersAgree
  BY <1>1, <1>2 DEF NumbersAgree
<1>5. ChainLinked /\ HeightsGrow /\ LastStateBlockInRange
  BY <1>1, <1>2 DEF ChainLinked, HeightsGrow, LastStateBlockInRange
<1> QED
  BY <1>3, <1>4, <1>5 DEF BcInv

\* The next state satisfies the invariant when its list starts at the genesis
\* block, is linked, and is numbered by its map.
LEMMA NextInv ==
    ASSUME NEW c \in Nat,
           hashes' \in Seq(Block), Len(hashes') = c + 1,
           hashes'[1] = Genesis,
           \A n \in 1..c : hashes'[n + 1] \in Hash,
           blocks' = [x \in DOMAIN blocks' |-> blocks'[x]],
           DOMAIN blocks' = {hashes'[n + 1] : n \in 0..c},
           \A n \in 0..c : blocks'[hashes'[n + 1]] = n,
           \A n \in 2..c : prevHash[hashes'[n + 1]] = hashes'[n],
           \A n \in 1..c : height[hashes'[n + 1]] = height[hashes'[2]] + n - 1,
           lastStateBlock' \in 0..c
    PROVE  BcInv'
<1>1. countBlocks' = c
  BY DEF countBlocks
<1>2. BcTypeOK'
  <2> DEFINE D == {hashes'[n + 1] : n \in 1..c}
  <2>1. D \in SUBSET Hash
    OBVIOUS
  <2>2. DOMAIN blocks' = D \cup {Genesis}
    <3>1. \A n \in 0..c : n = 0 \/ n \in 1..c
      OBVIOUS
    <3> QED
      BY <3>1
  <2>3. \A x \in DOMAIN blocks' : blocks'[x] \in Int
    OBVIOUS
  <2>4. blocks' \in [DOMAIN blocks' -> Int]
    BY <2>3
  <2>5. Genesis \in DOMAIN blocks' /\ DOMAIN blocks' \subseteq Block
    BY <2>1, <2>2 DEF Block
  <2>6. lastStateBlock' \in Nat
    OBVIOUS
  <2> QED
    BY <2>4, <2>5, <2>6, Zenon DEF BcTypeOK
<1>3. NumbersAgree'
  BY <1>1 DEF NumbersAgree, getBlock
<1>4. ChainLinked'
  BY <1>1 DEF ChainLinked, getBlock
<1>5. HeightsGrow'
  BY <1>1 DEF HeightsGrow, getBlock
<1>6. LastStateBlockInRange'
  BY <1>1 DEF LastStateBlockInRange
<1> QED
  BY <1>2, <1>3, <1>4, <1>5, <1>6 DEF BcInv

(***************************************************************************)
(* addBlock.                                                               *)
(***************************************************************************)

\* When every known header has its number the walk from a new block is the
\* block alone.
LEMMA AddWalk ==
    ASSUME BcInv, NEW h \in Hash, h \notin DOMAIN blocks, NEW p \in Paths,
           IsWalk(WithHeaders(blocks, {h}), h, p)
    PROVE  /\ Len(p) = 1 /\ p[1] = h /\ prevHash[h] # h
           /\ DOMAIN p = {1}
           /\ BaseNumber(WithHeaders(blocks, {h}), p) =
                IF prevHash[h] \in DOMAIN blocks THEN blocks[prevHash[h]] ELSE 0
<1> DEFINE bl == WithHeaders(blocks, {h})
<1>1. /\ DOMAIN bl = DOMAIN blocks \cup {h}
      /\ bl[h] = NoNumber
      /\ \A x \in DOMAIN blocks : bl[x] = blocks[x]
  BY DEF WithHeaders
<1>2. \A x \in DOMAIN blocks : blocks[x] # NoNumber
  BY InvFacts DEF NoNumber
<1>3. \A x : Unnumbered(bl, x) <=> x = h
  BY <1>1, <1>2 DEF Unnumbered
<1>4. /\ Len(p) \in Nat \ {0}
      /\ p \in [1..Len(p) -> Hash]
      /\ \A i \in 1..(Len(p) - 1) : p[i + 1] = prevHash[p[i]]
  BY PathFacts
<1>5. /\ p[1] = h
      /\ \A i \in 1..Len(p) : p[i] = h
      /\ prevHash[p[Len(p)]] # h
  BY <1>3 DEF IsWalk
<1>6. prevHash[h] # h
  BY <1>4, <1>5
<1>7. Len(p) = 1
  <2> SUFFICES ASSUME Len(p) # 1 PROVE FALSE
    OBVIOUS
  <2>1. 1 \in 1..(Len(p) - 1) /\ 2 \in 1..Len(p)
    BY <1>4
  <2>2. p[2] = prevHash[p[1]]
    BY <1>4, <2>1
  <2> QED
    BY <1>5, <1>6, <2>1, <2>2
<1>8. BaseNumber(bl, p) = IF prevHash[h] \in DOMAIN blocks THEN blocks[prevHash[h]] ELSE 0
  BY <1>1, <1>5, <1>6, <1>7 DEF BaseNumber
<1> QED
  BY <1>4, <1>5, <1>6, <1>7, <1>8

\* An accepted block is appended and numbered next.
LEMMA AcceptedInv ==
    ASSUME BcInv, NEW h \in Hash, AddAccepted(h)
    PROVE  BcInv' /\ hashes' = Append(hashes, h)
<1> DEFINE bl == WithHeaders(blocks, {h})
           c == countBlocks + 1
<1>1. PICK p \in Paths : IsWalk(bl, h, p) /\ CalcAccepts(bl, hashes, lastStateBlock, p)
  BY DEF AddAccepted
<1>2. h \notin DOMAIN blocks
  BY DEF AddAccepted
<1>3. /\ Len(p) = 1 /\ p[1] = h /\ prevHash[h] # h /\ DOMAIN p = {1}
      /\ BaseNumber(bl, p) = IF prevHash[h] \in DOMAIN blocks THEN blocks[prevHash[h]] ELSE 0
  BY <1>1, <1>2, AddWalk
<1> HIDE DEF bl
<1>4. WalkNumber(bl, p, 1) = c
  BY <1>1, <1>3, InvFacts DEF CalcAccepts, WalkFits
<1>5. BaseNumber(bl, p) = countBlocks
  BY <1>3, <1>4, InvFacts DEF WalkNumber
<1>6. hashes' = Append(hashes, h)
  <2>1. InOrder(p) = <<h>>
    BY <1>3 DEF InOrder
  <2>2. hashes' = hashes \o <<h>>
    BY <1>1, <2>1 DEF CalcAccepts
  <2> QED
    BY <2>2, InvFacts DEF Block
<1>7. /\ DOMAIN bl = DOMAIN blocks \cup {h}
      /\ \A x \in DOMAIN blocks : bl[x] = blocks[x]
  BY DEF bl, WithHeaders
<1>8. /\ DOMAIN blocks' = DOMAIN blocks \cup {h}
      /\ blocks' = [x \in DOMAIN blocks' |-> blocks'[x]]
      /\ blocks'[h] = c
      /\ \A x \in DOMAIN blocks : blocks'[x] = blocks[x]
  <2>1. blocks' = [x \in DOMAIN bl |->
                    IF \E i \in 1..Len(p) : p[i] = x
                    THEN WalkNumber(bl, p, CHOOSE i \in 1..Len(p) : p[i] = x)
                    ELSE bl[x]]
    BY <1>1 DEF CalcAccepts
  <2>2. (CHOOSE i \in 1..Len(p) : p[i] = h) = 1
    BY <1>3
  <2>3. \A x \in DOMAIN blocks : ~ \E i \in 1..Len(p) : p[i] = x
    BY <1>2, <1>3
  <2>4. \E i \in 1..Len(p) : p[i] = h
    BY <1>3
  <2>5. DOMAIN blocks' = DOMAIN bl
    BY <2>1
  <2>6. blocks'[h] = c
    BY <2>1, <2>2, <2>4, <1>4, <1>7
  <2>7. \A x \in DOMAIN blocks : blocks'[x] = blocks[x]
    BY <2>1, <2>3, <1>7
  <2>8. blocks' = [x \in DOMAIN blocks' |-> blocks'[x]]
    BY <2>1
  <2> QED
    BY <2>5, <2>6, <2>7, <2>8, <1>7
<1>9. lastStateBlock' \in 0..c
  <2>1. StateNumbers(bl, p, 1..Len(p)) \subseteq 0..c
    BY <1>3, <1>4, InvFacts DEF StateNumbers
  <2>2. lastStateBlock \in 0..c /\ c \in Nat
    BY InvFacts
  <2>3. lastStateBlock' = MaxFrom(lastStateBlock, StateNumbers(bl, p, 1..Len(p)))
    BY <1>1 DEF CalcAccepts
  <2> QED
    BY <2>1, <2>2, <2>3, MaxFromBound
<1>10. /\ c \in Nat /\ hashes' \in Seq(Block) /\ Len(hashes') = c + 1
       /\ hashes'[c + 1] = h
       /\ \A n \in 0..countBlocks : hashes'[n + 1] = getBlock(n)
  BY <1>6, InvFacts DEF Block, getBlock
<1>11. \A n \in 0..c : n \in 0..countBlocks \/ n = c
  BY InvFacts
<1>12. DOMAIN blocks' = {hashes'[n + 1] : n \in 0..c}
  <2>1. DOMAIN blocks = {getBlock(n) : n \in 0..countBlocks}
    BY InvFacts
  <2>2. c \in 0..c /\ \A n \in 0..countBlocks : n \in 0..c
    BY InvFacts
  <2> QED
    BY <1>8, <1>10, <1>11, <2>1, <2>2
<1>13. \A n \in 0..c : blocks'[hashes'[n + 1]] = n
  BY <1>8, <1>10, <1>11, InvFacts
<1>14. \A n \in 1..c : hashes'[n + 1] \in Hash
  BY <1>10, <1>11, InvFacts
<1>15. c > 1 => prevHash[h] = getBlock(countBlocks)
  <2> SUFFICES ASSUME c > 1 PROVE prevHash[h] = getBlock(countBlocks)
    OBVIOUS
  <2>1. countBlocks \in Nat /\ countBlocks # 0
    BY InvFacts
  <2>2. prevHash[h] \in DOMAIN blocks /\ blocks[prevHash[h]] = countBlocks
    BY <1>3, <1>5, <2>1
  <2> QED
    BY <2>2 DEF BcInv, NumbersAgree
<1>16. \A n \in 2..c : prevHash[hashes'[n + 1]] = hashes'[n]
  <2> SUFFICES ASSUME NEW n \in 2..c PROVE prevHash[hashes'[n + 1]] = hashes'[n]
    OBVIOUS
  <2>1. n - 1 \in 0..countBlocks /\ hashes'[n] = getBlock(n - 1)
    BY <1>10, InvFacts
  <2>2. CASE n = c
    BY <1>10, <1>15, <2>1, <2>2, InvFacts
  <2>3. CASE n # c
    <3>1. n \in 2..countBlocks
      BY <2>3, InvFacts
    <3> QED
      BY <1>10, <2>1, <3>1, InvFacts
  <2> QED
    BY <2>2, <2>3
<1>17. \A n \in 1..c : height[hashes'[n + 1]] = height[hashes'[2]] + n - 1
  <2> SUFFICES ASSUME NEW n \in 1..c
               PROVE  height[hashes'[n + 1]] = height[hashes'[2]] + n - 1
    OBVIOUS
  <2>1. \A m \in 1..countBlocks : height[getBlock(m)] = height[getBlock(1)] + m - 1
    BY DEF BcInv, HeightsGrow
  <2>2. CASE n = 1
    BY <2>2, <1>10, <1>14, HeightAssumption
  <2>3. CASE n # 1 /\ n # c
    BY <2>1, <2>3, <1>10, InvFacts
  <2>4. CASE n # 1 /\ n = c
    <3>1. countBlocks \in 1..countBlocks /\ getBlock(countBlocks) \in Hash /\ 1 \in 1..countBlocks
      BY <2>4, InvFacts
    <3>2. height[h] = height[getBlock(countBlocks)] + 1
      BY <1>15, <2>4, <3>1, HeightAssumption, HashAssumption
    <3>3. hashes'[2] = getBlock(1) /\ hashes'[n + 1] = h
      BY <1>10, <2>4, <3>1
    <3>4. height[getBlock(1)] \in Nat
      BY <3>1, InvFacts, HeightAssumption
    <3> QED
      BY <2>1, <2>4, <3>1, <3>2, <3>3, <3>4, InvFacts
  <2> QED
    BY <2>2, <2>3, <2>4
<1>18. hashes'[1] = Genesis
  BY <1>10, InvFacts
<1>19. BcInv'
  BY <1>8, <1>9, <1>10, <1>12, <1>13, <1>14, <1>16, <1>17, <1>18, NextInv
<1> QED
  BY <1>6, <1>19

\* A refused block changes nothing but, perhaps, lastStateBlock.
LEMMA RefusedInv ==
    ASSUME BcInv, NEW h \in Hash, AddRefused(h)
    PROVE  BcInv' /\ hashes' = hashes
<1> DEFINE bl == WithHeaders(blocks, {h})
<1>1. PICK p \in Paths : IsWalk(bl, h, p) /\ CalcRefuses(bl, hashes, lastStateBlock, p)
  BY DEF AddRefused
<1>2. h \notin DOMAIN blocks
  BY DEF AddRefused
<1>3. /\ Len(p) = 1 /\ p[1] = h /\ prevHash[h] # h /\ DOMAIN p = {1}
      /\ BaseNumber(bl, p) = IF prevHash[h] \in DOMAIN blocks THEN blocks[prevHash[h]] ELSE 0
  BY <1>1, <1>2, AddWalk
<1>4. /\ DOMAIN bl = DOMAIN blocks \cup {h}
      /\ \A x \in DOMAIN blocks : bl[x] = blocks[x]
  BY DEF WithHeaders
<1> HIDE DEF bl
<1>5. hashes' = hashes
  BY <1>1 DEF CalcRefuses, Removed
<1>6. /\ blocks' = [x \in DOMAIN blocks' |-> blocks'[x]]
      /\ DOMAIN blocks' = DOMAIN blocks
      /\ \A x \in DOMAIN blocks : blocks'[x] = blocks[x]
  <2>1. blocks' = [x \in DOMAIN bl \ {p[1]} |->
                    IF x = p[Len(p)] THEN WalkNumber(bl, p, Len(p))
                    ELSE IF \E i \in 1..Len(p) : p[i] = x
                         THEN (CHOOSE i \in 1..Len(p) : p[i] = x) - 1
                         ELSE bl[x]]
    BY <1>1 DEF CalcRefuses, Removed
  <2>2. DOMAIN bl \ {p[1]} = DOMAIN blocks
    BY <1>2, <1>3, <1>4
  <2>3. \A x \in DOMAIN blocks : x # p[Len(p)] /\ ~ \E i \in 1..Len(p) : p[i] = x
    BY <1>2, <1>3
  <2>4. DOMAIN blocks' = DOMAIN blocks
    BY <2>1, <2>2
  <2>5. blocks' = [x \in DOMAIN blocks' |-> blocks'[x]]
    BY <2>1
  <2>6. \A x \in DOMAIN blocks : blocks'[x] = bl[x]
    BY <2>1, <2>2, <2>3
  <2> QED
    BY <2>4, <2>5, <2>6, <1>4
<1>7. BaseNumber(bl, p) \in 0..countBlocks
  BY <1>3, InvFacts
<1>8. WalkNumber(bl, p, Len(p)) \in 0..countBlocks
  <2>1. WalkNumber(bl, p, Len(p)) = BaseNumber(bl, p) + 1
    BY <1>3, <1>7 DEF WalkNumber
  <2>2. WalkNumber(bl, p, Len(p)) # countBlocks + 1
    BY <1>1, InvFacts DEF CalcRefuses, Removed, WalkFits
  <2> QED
    BY <1>7, <2>1, <2>2, InvFacts
<1>9. lastStateBlock' \in 0..countBlocks
  <2>1. StateNumbers(bl, p, {Len(p)}) \subseteq 0..countBlocks
    BY <1>8 DEF StateNumbers
  <2>2. lastStateBlock' = MaxFrom(lastStateBlock, StateNumbers(bl, p, {Len(p)}))
    BY <1>1 DEF CalcRefuses, Removed
  <2> QED
    BY <2>1, <2>2, InvFacts, MaxFromBound
<1>10. \A n \in 0..countBlocks : hashes'[n + 1] = getBlock(n)
  BY <1>5 DEF getBlock
<1>11. DOMAIN blocks' = {hashes'[n + 1] : n \in 0..countBlocks}
  BY <1>6, <1>10, InvFacts
<1>12. \A n \in 0..countBlocks : blocks'[hashes'[n + 1]] = n
  BY <1>6, <1>10, InvFacts
<1>13. \A n \in 1..countBlocks : hashes'[n + 1] \in Hash
  BY <1>10, InvFacts
<1>14. \A n \in 2..countBlocks : prevHash[hashes'[n + 1]] = hashes'[n]
  BY <1>5, InvFacts DEF getBlock
<1>15. \A n \in 1..countBlocks : height[hashes'[n + 1]] = height[hashes'[2]] + n - 1
  BY <1>5 DEF BcInv, HeightsGrow, getBlock
<1>16. hashes'[1] = Genesis /\ hashes' \in Seq(Block) /\ Len(hashes') = countBlocks + 1
  BY <1>5, <1>10, InvFacts DEF getBlock
<1>17. countBlocks \in Nat
  BY InvFacts
<1>18. BcInv'
  BY <1>6, <1>9, <1>11, <1>12, <1>13, <1>14, <1>15, <1>16, <1>17, NextInv
<1> QED
  BY <1>5, <1>18

(***************************************************************************)
(* The start of a process.                                                 *)
(***************************************************************************)

\* The walk over the headers of the first k blocks meets them all, the last
\* first, and the parent of the first block has number 0 if it is known.
LEMMA LoadWalk ==
    ASSUME BcInv, NEW k \in 1..countBlocks, NEW p \in Paths,
           IsWalk(HeaderMap(StoredHeaders(k)), getBlock(k), p),
           WalkFits(HeaderMap(StoredHeaders(k)), <<Genesis>>, p)
    PROVE  /\ Len(p) = k
           /\ \A i \in 1..k : p[i] = getBlock(k + 1 - i)
           /\ BaseNumber(HeaderMap(StoredHeaders(k)), p) = 0
<1> DEFINE bl == HeaderMap(StoredHeaders(k))
           D == StoredHeaders(k)
<1>1. countBlocks \in Nat /\ k \in Nat \ {0} /\ k <= countBlocks
  BY InvFacts
<1>2. D \subseteq Hash /\ Genesis \notin D
  BY <1>1, InvFacts, HashAssumption DEF StoredHeaders
<1>3. DOMAIN bl = D \cup {Genesis} /\ bl[Genesis] = 0 /\ \A x \in D : bl[x] = NoNumber
  BY <1>2 DEF HeaderMap, WithHeaders
<1> HIDE DEF bl
<1>4. \A x : Unnumbered(bl, x) <=> x \in D
  BY <1>2, <1>3 DEF Unnumbered, NoNumber
<1>5. /\ Len(p) \in Nat \ {0}
      /\ p \in [1..Len(p) -> Hash]
      /\ \A i \in 1..(Len(p) - 1) : p[i + 1] = prevHash[p[i]]
  BY PathFacts
<1>6. p[1] = getBlock(k) /\ (\A i \in 1..Len(p) : p[i] \in D) /\ prevHash[p[Len(p)]] \notin D
  BY <1>4 DEF IsWalk, bl
<1>7. prevHash[getBlock(1)] \notin D
  <2> SUFFICES ASSUME prevHash[getBlock(1)] \in D PROVE FALSE
    OBVIOUS
  <2>1. PICK m \in 1..k : prevHash[getBlock(1)] = getBlock(m)
    BY DEF StoredHeaders
  <2>2. 1 \in 1..countBlocks /\ m \in 1..countBlocks
    BY <1>1
  <2>3. getBlock(1) \in Hash /\ getBlock(m) \in Hash
    BY <2>2, InvFacts
  <2>4. height[getBlock(m)] = height[getBlock(1)] + m - 1
    BY <2>2 DEF BcInv, HeightsGrow
  <2>5. height[getBlock(1)] = height[getBlock(m)] + 1
    BY <2>1, <2>3, HeightAssumption, HashAssumption
  <2>6. height[getBlock(1)] \in Nat /\ height[getBlock(m)] \in Nat
    BY <2>3, HeightAssumption
  <2> QED
    BY <2>4, <2>5, <2>6, <1>1
<1>0. \A n \in 2..countBlocks : prevHash[getBlock(n)] = getBlock(n - 1)
  BY InvFacts
<1>8. \A i \in 1..Len(p) : i <= k /\ p[i] = getBlock(k + 1 - i)
  <2> DEFINE T == {i \in 1..Len(p) : ~(i <= k /\ p[i] = getBlock(k + 1 - i))}
  <2> SUFFICES ASSUME T # {} PROVE FALSE
    OBVIOUS
  <2>1. T \subseteq Nat
    BY <1>5
  <2>2. PICK i \in T : \A j \in T : i <= j
    BY <2>1, NatMin, Zenon
  <2>3. i \in 1..Len(p) /\ ~(i <= k /\ p[i] = getBlock(k + 1 - i))
    BY <2>2
  <2>4. i # 1
    BY <1>1, <1>6, <2>3
  <2> DEFINE j == i - 1
  <2>5. j \in 1..(Len(p) - 1) /\ j \in 1..Len(p) /\ j < i /\ j + 1 = i
    BY <1>5, <2>3, <2>4
  <2>6. j <= k /\ p[j] = getBlock(k + 1 - j)
    BY <2>2, <2>5
  <2>7. p[i] = prevHash[getBlock(k + 1 - j)]
    BY <1>5, <2>5, <2>6
  <2>8. p[i] \in D
    BY <1>6, <2>3
  <2>9. CASE j = k
    <3>1. k + 1 - j = 1
      BY <1>1, <2>9
    <3>2. p[i] = prevHash[getBlock(1)]
      BY <2>7, <3>1
    <3> QED
      BY <1>7, <2>8, <3>2
  <2>10. CASE j # k
    <3>1. k + 1 - j \in 2..countBlocks /\ k + 1 - j - 1 = k + 1 - i /\ i <= k
      BY <1>1, <2>5, <2>6, <2>10
    <3>2. prevHash[getBlock(k + 1 - j)] = getBlock(k + 1 - j - 1)
      BY <3>1, <1>0
    <3> QED
      BY <2>3, <2>7, <3>1, <3>2
  <2> QED
    BY <2>9, <2>10
<1>9. Len(p) = k
  <2> SUFFICES ASSUME Len(p) # k PROVE FALSE
    OBVIOUS
  <2>0. Len(p) \in 1..Len(p)
    <3>1. \A n \in Nat \ {0} : n \in 1..n
      OBVIOUS
    <3> QED
      BY <1>5, <3>1
  <2>1. Len(p) <= k /\ p[Len(p)] = getBlock(k + 1 - Len(p))
    BY <2>0, <1>8
  <2>2. k + 1 - Len(p) \in 2..countBlocks /\ k - Len(p) \in 1..k
        /\ k + 1 - Len(p) - 1 = k - Len(p)
    <3>1. \A n \in Nat \ {0} : n <= k /\ n # k =>
            k + 1 - n \in 2..countBlocks /\ k - n \in 1..k /\ k + 1 - n - 1 = k - n
      BY <1>1
    <3> QED
      BY <1>5, <2>1, <3>1
  <2>3. prevHash[p[Len(p)]] = getBlock(k - Len(p))
    BY <2>1, <2>2, <1>0
  <2>4. getBlock(k - Len(p)) \in D
    BY <2>2 DEF StoredHeaders
  <2> QED
    BY <1>6, <2>3, <2>4
<1>10. BaseNumber(bl, p) = 0
  <2>1. WalkNumber(bl, p, Len(p)) = 1
    BY DEF WalkFits, bl
  <2>2. BaseNumber(bl, p) \in Int
    <3>1. prevHash[p[Len(p)]] \in DOMAIN bl => bl[prevHash[p[Len(p)]]] \in Int
      BY <1>3 DEF NoNumber
    <3> QED
      BY <3>1, <1>5 DEF BaseNumber
  <2> QED
    BY <2>1, <2>2, <1>5 DEF WalkNumber
<1> QED
  BY <1>8, <1>9, <1>10 DEF bl

\* A restart keeps a prefix of the list.
LEMMA LoadInv ==
    ASSUME BcInv, NEW k \in 1..countBlocks,
           Load(StoredHeaders(k), getBlock(k))
    PROVE  /\ BcInv'
           /\ Len(hashes') = k + 1
           /\ \A n \in 0..k : hashes'[n + 1] = getBlock(n)
<1> DEFINE bl == HeaderMap(StoredHeaders(k))
           D == StoredHeaders(k)
<1>1. PICK p \in Paths :
        IsWalk(bl, getBlock(k), p) /\ CalcAccepts(bl, <<Genesis>>, 0, p)
  BY DEF Load
<1>2. WalkFits(bl, <<Genesis>>, p)
  BY <1>1 DEF CalcAccepts
<1>3. /\ Len(p) = k
      /\ \A i \in 1..k : p[i] = getBlock(k + 1 - i)
      /\ BaseNumber(bl, p) = 0
  BY <1>1, <1>2, LoadWalk
<1>4. countBlocks \in Nat /\ k \in Nat \ {0} /\ k <= countBlocks
  BY InvFacts
<1>5. /\ \A n \in 1..k : n \in 0..countBlocks /\ getBlock(n) \in Hash
      /\ getBlock(0) = Genesis /\ Genesis \notin Hash
  BY <1>4, InvFacts, HashAssumption
<1>6. D \subseteq Hash /\ D = {getBlock(n) : n \in 1..k}
  BY <1>5 DEF StoredHeaders
<1>7. DOMAIN bl = D \cup {Genesis} /\ bl[Genesis] = 0
  BY <1>5, <1>6 DEF HeaderMap, WithHeaders
<1>8. \A n \in 1..k, m \in 1..k : getBlock(n) = getBlock(m) => n = m
  BY <1>5, InvFacts
<1> HIDE DEF bl
<1>9. \A i \in 1..k : k - i + 1 \in 1..k /\ k + 1 - (k - i + 1) = i
  BY <1>4
<1>10. hashes' = <<Genesis>> \o [i \in 1..k |-> getBlock(i)]
  <2>1. \A i \in 1..k : p[k - i + 1] = getBlock(i)
    BY <1>3, <1>9
  <2>2. [i \in 1..k |-> p[k - i + 1]] = [i \in 1..k |-> getBlock(i)]
    BY <2>1
  <2> QED
    BY <1>1, <1>3, <2>2 DEF CalcAccepts, InOrder
<1>11. /\ hashes' \in Seq(Block) /\ Len(hashes') = k + 1 /\ hashes'[1] = Genesis
       /\ \A n \in 1..k : hashes'[n + 1] = getBlock(n)
  <2> DEFINE t == [i \in 1..k |-> getBlock(i)]
  <2>1. t \in Seq(Block) /\ Len(t) = k /\ \A n \in 1..k : t[n] = getBlock(n)
    <3>1. t \in [1..k -> Block]
      BY <1>5 DEF Block
    <3> QED
      BY <3>1, <1>4
  <2>2. <<Genesis>> \in Seq(Block) /\ Len(<<Genesis>>) = 1
    BY DEF Block
  <2> HIDE DEF t
  <2> QED
    BY <1>4, <1>10, <2>1, <2>2 DEF t
<1>12. \A n \in 0..k : hashes'[n + 1] = getBlock(n)
  <2>1. \A n \in 0..k : n = 0 \/ n \in 1..k
    BY <1>4
  <2> QED
    BY <2>1, <1>5, <1>11
<1>13. /\ DOMAIN blocks' = D \cup {Genesis}
       /\ blocks' = [x \in DOMAIN blocks' |-> blocks'[x]]
       /\ blocks'[Genesis] = 0
       /\ \A n \in 1..k : blocks'[getBlock(n)] = n
  <2>1. blocks' = [x \in DOMAIN bl |->
                    IF \E i \in 1..Len(p) : p[i] = x
                    THEN WalkNumber(bl, p, CHOOSE i \in 1..Len(p) : p[i] = x)
                    ELSE bl[x]]
    BY <1>1 DEF CalcAccepts
  <2>2. DOMAIN blocks' = D \cup {Genesis} /\ blocks' = [x \in DOMAIN blocks' |-> blocks'[x]]
    BY <2>1, <1>7
  <2>3. blocks'[Genesis] = 0
    <3>1. \A i \in 1..k : p[i] \in Hash
      BY <1>3, <1>5, <1>4
    <3>2. ~ \E i \in 1..Len(p) : p[i] = Genesis
      BY <1>3, <1>5, <3>1
    <3> QED
      BY <2>1, <3>2, <1>7
  <2>4. ASSUME NEW n \in 1..k
        PROVE  blocks'[getBlock(n)] = n
    <3> DEFINE i == k - n + 1
    <3>1. i \in 1..k /\ p[i] = getBlock(n)
      BY <1>3, <1>9
    <3>2. \A m \in 1..k : k + 1 - m \in 1..k /\ p[m] = getBlock(k + 1 - m)
      BY <1>3, <1>4
    <3>3. \A m \in 1..k : p[m] = getBlock(n) => k + 1 - m = n
      BY <3>2, <1>8
    <3>4. \A m \in 1..k : p[m] = getBlock(n) => m = i
      BY <3>3, <1>4
    <3> HIDE DEF i
    <3>5. (CHOOSE m \in 1..Len(p) : p[m] = getBlock(n)) = i
      BY <1>3, <3>1, <3>4
    <3>6. getBlock(n) \in DOMAIN bl
      BY <1>6, <1>7
    <3>7. \E m \in 1..Len(p) : p[m] = getBlock(n)
      BY <1>3, <3>1
    <3>8. blocks'[getBlock(n)] = WalkNumber(bl, p, i)
      BY <2>1, <3>5, <3>6, <3>7
    <3>9. WalkNumber(bl, p, i) = n
      BY <1>3, <1>4 DEF WalkNumber, i
    <3> QED
      BY <3>8, <3>9
  <2> QED
    BY <2>2, <2>3, <2>4
<1>14. lastStateBlock' \in 0..k
  <2>1. \A i \in 1..k : WalkNumber(bl, p, i) = k - i + 1
    BY <1>3, <1>4 DEF WalkNumber
  <2>2. StateNumbers(bl, p, 1..Len(p)) \subseteq 0..k
    BY <1>3, <1>4, <2>1 DEF StateNumbers
  <2>3. lastStateBlock' = MaxFrom(0, StateNumbers(bl, p, 1..Len(p)))
    BY <1>1 DEF CalcAccepts
  <2>4. k \in Nat /\ 0 \in 0..k
    BY <1>4
  <2> QED
    BY <2>2, <2>3, <2>4, MaxFromBound
<1>15. \A n \in 2..k : prevHash[hashes'[n + 1]] = hashes'[n]
  <2> SUFFICES ASSUME NEW n \in 2..k PROVE prevHash[hashes'[n + 1]] = hashes'[n]
    OBVIOUS
  <2>1. n \in 2..countBlocks /\ n \in 0..k /\ n - 1 \in 0..k /\ n - 1 + 1 = n
    BY <1>4
  <2>2. prevHash[getBlock(n)] = getBlock(n - 1)
    BY <2>1 DEF BcInv, ChainLinked
  <2>3. hashes'[n + 1] = getBlock(n) /\ hashes'[n] = getBlock(n - 1)
    BY <1>12, <2>1
  <2> QED
    BY <2>2, <2>3
<1>16. \A n \in 1..k : height[hashes'[n + 1]] = height[hashes'[2]] + n - 1
  <2>1. hashes'[2] = getBlock(1)
    <3>1. 1 \in 0..k /\ 1 + 1 = 2
      BY <1>4
    <3> QED
      BY <3>1, <1>12
  <2>2. \A n \in 1..k : n \in 1..countBlocks /\ n \in 0..k
    BY <1>4
  <2>3. \A n \in 1..k : height[getBlock(n)] = height[getBlock(1)] + n - 1
    BY <2>2 DEF BcInv, HeightsGrow
  <2> QED
    BY <2>1, <2>2, <2>3, <1>12
<1>17. DOMAIN blocks' = {hashes'[n + 1] : n \in 0..k}
  <2>1. \A n \in 0..k : n = 0 \/ n \in 1..k
    BY <1>4
  <2>2. \A n \in 1..k : n \in 0..k
    BY <1>4
  <2>3. 0 \in 0..k
    BY <1>4
  <2>4. {hashes'[n + 1] : n \in 0..k} = {getBlock(n) : n \in 0..k}
    BY <1>12
  <2>5. {getBlock(n) : n \in 0..k} = {getBlock(n) : n \in 1..k} \cup {Genesis}
    BY <2>1, <2>2, <2>3, <1>5
  <2> QED
    BY <2>4, <2>5, <1>6, <1>13
<1>18. \A n \in 0..k : blocks'[hashes'[n + 1]] = n
  <2>1. \A n \in 0..k : n = 0 \/ n \in 1..k
    BY <1>4
  <2> QED
    BY <2>1, <1>5, <1>12, <1>13
<1>19. \A n \in 1..k : hashes'[n + 1] \in Hash
  BY <1>5, <1>11
<1>20. BcInv'
  BY <1>4, <1>11, <1>13, <1>14, <1>15, <1>16, <1>17, <1>18, <1>19, NextInv
<1> QED
  BY <1>11, <1>12, <1>20

(***************************************************************************)
(* The theorems.                                                           *)
(***************************************************************************)

\* Every step keeps the invariant, and every number that both the old and the
\* new chain have belongs to the same block.
LEMMA StepInv ==
    ASSUME BcInv, [BcNext]_bcVars
    PROVE  /\ BcInv'
           /\ \A n \in 0..countBlocks :
                n <= countBlocks' => getBlock(n)' = getBlock(n)
<1>1. ASSUME NEW h \in Hash, AddAccepted(h)
      PROVE  /\ BcInv'
             /\ \A n \in 0..countBlocks :
                    n <= countBlocks' => getBlock(n)' = getBlock(n)
  <2>1. BcInv' /\ hashes' = Append(hashes, h)
    BY <1>1, AcceptedInv
  <2>2. \A n \in 0..countBlocks : n + 1 \in 1..Len(hashes)
    BY InvFacts
  <2>3. \A n \in 0..countBlocks : hashes'[n + 1] = hashes[n + 1]
    BY <2>1, <2>2, InvFacts
  <2> QED
    BY <2>1, <2>3 DEF getBlock
<1>2. ASSUME NEW h \in Hash, AddRefused(h)
      PROVE  /\ BcInv'
             /\ \A n \in 0..countBlocks :
                    n <= countBlocks' => getBlock(n)' = getBlock(n)
  BY <1>2, RefusedInv DEF getBlock
<1>3. ASSUME UNCHANGED bcVars
      PROVE  /\ BcInv'
             /\ \A n \in 0..countBlocks :
                    n <= countBlocks' => getBlock(n)' = getBlock(n)
  <2>1. blocks' = blocks /\ hashes' = hashes /\ lastStateBlock' = lastStateBlock
    BY <1>3 DEF bcVars
  <2>2. BcInv'
    BY <2>1 DEF BcInv, BcTypeOK, NumbersAgree, ChainLinked, HeightsGrow,
                LastStateBlockInRange, countBlocks, getBlock
  <2> QED
    BY <2>1, <2>2 DEF getBlock
<1>4. ASSUME LoadEmpty
      PROVE  /\ BcInv'
             /\ \A n \in 0..countBlocks :
                    n <= countBlocks' => getBlock(n)' = getBlock(n)
  <2>1. blocks' = [x \in {Genesis} |-> 0] /\ hashes' = <<Genesis>> /\ lastStateBlock' = 0
    BY <1>4 DEF LoadEmpty
  <2>2. hashes' \in Seq(Block) /\ Len(hashes') = 0 + 1 /\ hashes'[1] = Genesis
    BY <2>1 DEF Block
  <2>3. \A n \in 0..0 : n = 0
    OBVIOUS
  <2>4. DOMAIN blocks' = {hashes'[n + 1] : n \in 0..0}
    <3>1. DOMAIN blocks' = {Genesis}
      BY <2>1
    <3>2. {hashes'[n + 1] : n \in 0..0} = {hashes'[1]}
      OBVIOUS
    <3> QED
      BY <2>2, <3>1, <3>2
  <2>5. \A n \in 0..0 : blocks'[hashes'[n + 1]] = n
    BY <2>1, <2>2, <2>3
  <2>6. blocks' = [x \in DOMAIN blocks' |-> blocks'[x]] /\ lastStateBlock' \in 0..0
    BY <2>1
  <2>7. 1..0 = {} /\ 2..0 = {}
    OBVIOUS
  <2>8. BcInv'
    BY <2>2, <2>4, <2>5, <2>6, <2>7, NextInv
  <2>9. countBlocks' = 0 /\ getBlock(0)' = Genesis
    BY <2>2 DEF countBlocks, getBlock
  <2>10. ASSUME NEW n \in 0..countBlocks, n <= countBlocks'
         PROVE  getBlock(n)' = getBlock(n)
    <3>1. n = 0
      BY <2>9, <2>10, InvFacts
    <3> QED
      BY <3>1, <2>9, InvFacts
  <2> QED
    BY <2>8, <2>10
<1>5. ASSUME NEW k \in 1..countBlocks, Load(StoredHeaders(k), getBlock(k))
      PROVE  /\ BcInv'
             /\ \A n \in 0..countBlocks :
                    n <= countBlocks' => getBlock(n)' = getBlock(n)
  <2>1. BcInv' /\ Len(hashes') = k + 1 /\ \A n \in 0..k : hashes'[n + 1] = getBlock(n)
    BY <1>5, LoadInv
  <2>2. countBlocks' = k
    BY <2>1, InvFacts DEF countBlocks
  <2>3. \A n \in 0..k : getBlock(n)' = getBlock(n)
    BY <2>1 DEF getBlock
  <2> QED
    BY <2>1, <2>2, <2>3, InvFacts
<1> QED
  BY <1>1, <1>2, <1>3, <1>4, <1>5 DEF BcNext, AddBlock, AddExisting, Restart

\* BlockChain keeps its invariant in every run of a node: whatever blocks are
\* offered to addBlock in whatever order, and whenever the node starts again.
THEOREM InvariantHolds == BcSpec => []BcInv
<1>1. BcInit => BcInv
  BY InitInv
<1>2. BcInv /\ [BcNext]_bcVars => BcInv'
  BY StepInv
<1> QED
  BY <1>1, <1>2, PTL DEF BcSpec

\* The map, the list and the number of the last state block keep their types.
THEOREM TypesHold == BcSpec => []BcTypeOK
<1>1. BcInv => BcTypeOK
  BY DEF BcInv
<1> QED
  BY <1>1, InvariantHolds, PTL

\* The map of headers and the list of numbered blocks agree, also after
\* addBlock refused a block and removed its header.
THEOREM MapAgreesWithList == BcSpec => []NumbersAgree
<1>1. BcInv => NumbersAgree
  BY DEF BcInv
<1> QED
  BY <1>1, InvariantHolds, PTL

\* The list starts at the genesis block and is linked by parents from its
\* first block on.
THEOREM ListIsLinked == BcSpec => []ChainLinked
<1>1. BcInv => ChainLinked
  BY DEF BcInv
<1> QED
  BY <1>1, InvariantHolds, PTL

\* getLastStateBlock never reads past the end of the list, although
\* calcBlockchain raises lastStateBlock before it checks the number.
THEOREM LastStateBlockInList == BcSpec => []LastStateBlockInRange
<1>1. BcInv => LastStateBlockInRange
  BY DEF BcInv
<1> QED
  BY <1>1, InvariantHolds, PTL

\* A number that a block got from calcBlockchain is never given to another
\* one, neither by addBlock nor by the numbering of a restart.
THEOREM NumbersAreStable == BcSpec => NumbersStable
<1>1. BcInv /\ [BcNext]_bcVars =>
        [\A n \in 0..countBlocks : n <= countBlocks' => getBlock(n)' = getBlock(n)]_bcVars
  BY StepInv
<1> QED
  BY <1>1, InvariantHolds, PTL DEF BcSpec, NumbersStable

(***************************************************************************)
(* Chains that start at the genesis block.                                 *)
(***************************************************************************)

\* s lists k blocks, each the parent of the next, from a first block on.
IsChain(s, k) ==
    /\ s \in [1..k -> Hash]
    /\ prevHash[s[1]] = Genesis
    /\ \A i \in 2..k : prevHash[s[i]] = s[i - 1]

BlocksOf(s, k) == {s[i] : i \in 1..k}

\* The number of a block in such a list is its height.
LEMMA ChainHeights ==
    ASSUME NEW k \in Nat \ {0}, NEW s, IsChain(s, k)
    PROVE  \A i \in 1..k : height[s[i]] = i
<1> DEFINE Bad == {i \in 1..k : height[s[i]] # i}
<1> SUFFICES ASSUME Bad # {} PROVE FALSE
  OBVIOUS
<1>0. s \in [1..k -> Hash] /\ prevHash[s[1]] = Genesis
      /\ \A i \in 2..k : prevHash[s[i]] = s[i - 1]
  BY DEF IsChain
<1>1. PICK i \in Bad : \A j \in Bad : i <= j
  <2>1. Bad \subseteq Nat
    OBVIOUS
  <2> QED
    BY <2>1, NatMin, Zenon
<1>2. i \in 1..k /\ height[s[i]] # i /\ s[i] \in Hash
  BY <1>0
<1>3. i # 1
  BY <1>0, <1>2, HeightAssumption
<1>4. i \in 2..k /\ i - 1 \in 1..k /\ i - 1 < i
  BY <1>2, <1>3
<1>5. height[s[i - 1]] = i - 1
  BY <1>1, <1>4
<1>6. s[i - 1] \in Hash /\ prevHash[s[i]] = s[i - 1]
  BY <1>0, <1>4
<1>7. height[s[i]] = height[s[i - 1]] + 1
  BY <1>2, <1>6, HeightAssumption, HashAssumption
<1> QED
  BY <1>2, <1>4, <1>5, <1>7

\* The blocks of the list, the youngest first, are the walk of a start that
\* finds just their headers.
LEMMA ChainWalk ==
    ASSUME NEW k \in Nat \ {0}, NEW s, IsChain(s, k)
    PROVE  \E p \in Paths :
             /\ Len(p) = k /\ \A i \in 1..k : p[i] = s[(k - i) + 1]
             /\ IsWalk(HeaderMap(BlocksOf(s, k)), s[k], p)
             /\ WalkFits(HeaderMap(BlocksOf(s, k)), <<Genesis>>, p)
<1> DEFINE D == BlocksOf(s, k)
           bl == HeaderMap(D)
           p == [i \in 1..k |-> Ancestor[i - 1][s[k]]]
<1>1. /\ \A i \in 1..k : s[i] \in Hash
      /\ prevHash[s[1]] = Genesis
      /\ \A i \in 2..k : prevHash[s[i]] = s[i - 1]
      /\ 1 \in 1..k /\ k \in 1..k
  BY DEF IsChain
<1>2. D \subseteq Hash /\ Genesis \notin D /\ s[k] \in Hash
  BY <1>1, HashAssumption DEF BlocksOf
<1>3. DOMAIN bl = D \cup {Genesis} /\ bl[Genesis] = 0 /\ \A x \in D : bl[x] = NoNumber
  BY <1>2 DEF HeaderMap, WithHeaders
<1>4. \A x : Unnumbered(bl, x) <=> x \in D
  BY <1>2, <1>3 DEF Unnumbered, NoNumber
<1>5. height[s[k]] = k
  BY <1>1, ChainHeights
<1>6. p \in Paths
  <2>1. k \in 1..height[s[k]]
    BY <1>5
  <2> QED
    BY <1>2, <2>1, PathUp
<1>7. Len(p) = k
  OBVIOUS
<1>8. p[1] = s[k]
  <2>1. Ancestor[0][s[k]] = s[k]
    BY <1>2, AncestorFacts DEF Block
  <2>2. 1 - 1 = 0
    OBVIOUS
  <2> QED
    BY <1>1, <2>1, <2>2
<1> HIDE DEF p
<1>9. \A i \in 1..(k - 1) : p[i + 1] = prevHash[p[i]]
  BY <1>6, <1>7, PathFacts
<1>10. \A i \in 1..k : p[i] = s[(k - i) + 1]
  <2> DEFINE Bad == {i \in 1..k : p[i] # s[(k - i) + 1]}
  <2> SUFFICES ASSUME Bad # {} PROVE FALSE
    OBVIOUS
  <2>1. PICK i \in Bad : \A j \in Bad : i <= j
    <3>1. Bad \subseteq Nat
      OBVIOUS
    <3> QED
      BY <3>1, NatMin, Zenon
  <2>2. i \in 1..k /\ p[i] # s[(k - i) + 1]
    OBVIOUS
  <2>3. i # 1
    <3>1. (k - 1) + 1 = k
      OBVIOUS
    <3> QED
      BY <1>8, <2>2, <3>1
  <2>4. PICK j \in 1..(k - 1) : i = j + 1
    <3>1. i - 1 \in 1..(k - 1) /\ i = (i - 1) + 1
      BY <2>2, <2>3
    <3> QED
      BY <3>1
  <2>5. p[j] = s[(k - j) + 1]
    BY <2>1, <2>4
  <2>6. (k - j) + 1 \in 2..k /\ ((k - j) + 1) - 1 = (k - i) + 1
    BY <2>4
  <2>7. prevHash[s[(k - j) + 1]] = s[(k - i) + 1]
    BY <1>1, <2>6
  <2> QED
    BY <1>9, <2>2, <2>4, <2>5, <2>7
<1>11. \A i \in 1..k : p[i] \in D
  <2> SUFFICES ASSUME NEW i \in 1..k PROVE p[i] \in D
    OBVIOUS
  <2>1. (k - i) + 1 \in 1..k
    OBVIOUS
  <2> QED
    BY <1>10, <2>1 DEF BlocksOf
<1>12. p[k] = s[1]
  <2>1. (k - k) + 1 = 1
    OBVIOUS
  <2> QED
    BY <1>1, <1>10, <2>1
<1> HIDE DEF D, bl
<1>13. IsWalk(bl, s[k], p)
  BY <1>1, <1>2, <1>4, <1>7, <1>8, <1>11, <1>12 DEF IsWalk
<1>14. WalkFits(bl, <<Genesis>>, p)
  <2>1. BaseNumber(bl, p) = 0
    BY <1>1, <1>3, <1>7, <1>12 DEF BaseNumber
  <2>2. WalkNumber(bl, p, Len(p)) = 1
    BY <1>7, <2>1 DEF WalkNumber
  <2> QED
    BY <2>2 DEF WalkFits
<1> QED
  BY <1>6, <1>7, <1>10, <1>13, <1>14 DEF bl, D

\* A start that finds headers closed under parents, of different heights, and
\* the highest of them in the metadata numbers them all, by their heights.
LEMMA LoadClosed ==
    ASSUME NEW D, D \subseteq Hash, NEW last \in D,
           \A h \in D : prevHash[h] = Genesis \/ prevHash[h] \in D,
           \A h \in D : height[h] <= height[last],
           \A g, h \in D : height[g] = height[h] => g = h,
           Load(D, last)
    PROVE  /\ BcInv' /\ OrphansNotNumbered'
           /\ DOMAIN blocks' = D \cup {Genesis}
           /\ countBlocks' = height[last]
<1> DEFINE bl == HeaderMap(D)
<1>1. PICK p \in Paths :
        IsWalk(bl, last, p) /\ CalcAccepts(bl, <<Genesis>>, 0, p)
  BY DEF Load
<1>2. Genesis \notin D /\ Genesis \notin Hash
  BY HashAssumption
<1>3. DOMAIN bl = D \cup {Genesis} /\ bl[Genesis] = 0 /\ \A x \in D : bl[x] = NoNumber
  BY <1>2 DEF HeaderMap, WithHeaders
<1> HIDE DEF bl
<1>4. \A x : Unnumbered(bl, x) <=> x \in D
  BY <1>2, <1>3 DEF Unnumbered, NoNumber
<1>5. PICK k \in Nat \ {0} : k = Len(p)
  BY PathFacts
<1>6. /\ p \in [1..k -> Hash]
      /\ \A i \in 1..(k - 1) : p[i + 1] = prevHash[p[i]]
  BY <1>5, PathFacts
<1>7. p[1] = last /\ (\A i \in 1..k : p[i] \in D) /\ prevHash[p[k]] \notin D
  BY <1>1, <1>4, <1>5 DEF IsWalk
<1>8. prevHash[p[k]] = Genesis
  <2>1. k \in 1..k
    OBVIOUS
  <2> QED
    BY <1>7, <2>1
<1> DEFINE s == [i \in 1..k |-> p[(k - i) + 1]]
<1>9. \A i \in 1..k : (k - i) + 1 \in 1..k /\ s[i] = p[(k - i) + 1] /\ p[i] = s[(k - i) + 1]
  OBVIOUS
<1>10. s \in [1..k -> Hash] /\ \A i \in 1..k : s[i] \in D
  BY <1>6, <1>7, <1>9
<1>11. 1 \in 1..k /\ k \in 1..k /\ s[1] = p[k] /\ s[k] = last
  <2>1. (k - 1) + 1 = k /\ (k - k) + 1 = 1 /\ 1 \in 1..k /\ k \in 1..k
    OBVIOUS
  <2> QED
    BY <1>7, <1>9, <2>1
<1>12. \A i \in 2..k : prevHash[s[i]] = s[i - 1]
  <2> SUFFICES ASSUME NEW i \in 2..k PROVE prevHash[s[i]] = s[i - 1]
    OBVIOUS
  <2>1. /\ i \in 1..k /\ i - 1 \in 1..k /\ (k - i) + 1 \in 1..(k - 1)
        /\ (k - (i - 1)) + 1 = ((k - i) + 1) + 1
    OBVIOUS
  <2>2. s[i] = p[(k - i) + 1] /\ s[i - 1] = p[((k - i) + 1) + 1]
    BY <1>9, <2>1
  <2> QED
    BY <1>6, <2>1, <2>2
<1> HIDE DEF s
<1>13. IsChain(s, k)
  BY <1>8, <1>10, <1>11, <1>12 DEF IsChain
<1>14. \A i \in 1..k : height[s[i]] = i
  BY <1>13, ChainHeights
<1>15. D = BlocksOf(s, k)
  <2>1. ASSUME NEW h \in D PROVE h \in BlocksOf(s, k)
    <3>1. height[h] \in Nat \ {0} /\ height[h] <= k
      BY <1>11, <1>14, AncestorHeights
    <3>2. PICK i \in 1..k : i = height[h]
      BY <3>1
    <3>3. height[s[i]] = height[h] /\ s[i] \in D
      BY <1>10, <1>14, <3>2
    <3>4. s[i] = h
      BY <3>3
    <3> QED
      BY <3>4 DEF BlocksOf
  <2>2. BlocksOf(s, k) \subseteq D
    BY <1>10 DEF BlocksOf
  <2> QED
    BY <2>1, <2>2
<1>16. BaseNumber(bl, p) = 0
  BY <1>3, <1>5, <1>8 DEF BaseNumber
<1>17. \A i \in 1..k : WalkNumber(bl, p, i) = (k - i) + 1
  BY <1>5, <1>16 DEF WalkNumber
<1>18. hashes' = <<Genesis>> \o s
  <2>1. InOrder(p) = s
    BY <1>5 DEF InOrder, s
  <2> QED
    BY <1>1, <2>1 DEF CalcAccepts
<1>19. /\ hashes' \in Seq(Block) /\ Len(hashes') = k + 1 /\ hashes'[1] = Genesis
       /\ \A n \in 1..k : hashes'[n + 1] = s[n]
  <2>1. s \in Seq(Block) /\ Len(s) = k
    <3>1. s \in [1..k -> Block]
      BY <1>10 DEF Block
    <3> QED
      BY <3>1
  <2>2. <<Genesis>> \in Seq(Block) /\ Len(<<Genesis>>) = 1
    BY DEF Block
  <2> QED
    BY <1>18, <2>1, <2>2
<1>20. blocks' = [x \in DOMAIN bl |->
                    IF \E i \in 1..Len(p) : p[i] = x
                    THEN WalkNumber(bl, p, CHOOSE i \in 1..Len(p) : p[i] = x)
                    ELSE bl[x]]
  BY <1>1 DEF CalcAccepts
<1>21. DOMAIN blocks' = D \cup {Genesis} /\ blocks' = [x \in DOMAIN blocks' |-> blocks'[x]]
  BY <1>3, <1>20
<1>22. blocks'[Genesis] = 0
  <2>1. ~ \E i \in 1..Len(p) : p[i] = Genesis
    BY <1>2, <1>5, <1>6
  <2> QED
    BY <1>3, <1>20, <2>1
<1>23. ASSUME NEW n \in 1..k PROVE blocks'[s[n]] = n
  <2> DEFINE i == (k - n) + 1
  <2>1. i \in 1..k /\ p[i] = s[n] /\ (k - i) + 1 = n
    BY <1>9
  <2>2. \A m \in 1..k : p[m] = s[n] => m = i
    <3> SUFFICES ASSUME NEW m \in 1..k, p[m] = s[n] PROVE m = i
      OBVIOUS
    <3>1. height[s[(k - m) + 1]] = (k - m) + 1 /\ height[s[n]] = n
      BY <1>9, <1>14
    <3>2. (k - m) + 1 = n
      BY <1>9, <3>1
    <3> QED
      BY <3>2
  <2> HIDE DEF i
  <2>3. (CHOOSE m \in 1..Len(p) : p[m] = s[n]) = i
    BY <1>5, <2>1, <2>2
  <2>4. s[n] \in DOMAIN bl /\ \E m \in 1..Len(p) : p[m] = s[n]
    BY <1>3, <1>5, <1>10, <2>1
  <2>5. blocks'[s[n]] = WalkNumber(bl, p, i)
    BY <1>20, <2>3, <2>4
  <2> QED
    BY <1>17, <2>1, <2>5
<1>24. lastStateBlock' \in 0..k
  <2>1. StateNumbers(bl, p, 1..Len(p)) \subseteq 0..k
    BY <1>5, <1>17 DEF StateNumbers
  <2>2. lastStateBlock' = MaxFrom(0, StateNumbers(bl, p, 1..Len(p)))
    BY <1>1 DEF CalcAccepts
  <2>3. k \in Nat /\ 0 \in 0..k
    OBVIOUS
  <2> QED
    BY <2>1, <2>2, <2>3, MaxFromBound
<1>25. \A n \in 0..k : n = 0 \/ n \in 1..k
  OBVIOUS
<1>26. DOMAIN blocks' = {hashes'[n + 1] : n \in 0..k}
  <2>1. \A n \in 1..k : n \in 0..k
    OBVIOUS
  <2>2. 0 \in 0..k /\ hashes'[0 + 1] = Genesis
    BY <1>19
  <2>3. \A n \in 0..k : hashes'[n + 1] \in D \cup {Genesis}
    <3> SUFFICES ASSUME NEW n \in 0..k PROVE hashes'[n + 1] \in D \cup {Genesis}
      OBVIOUS
    <3>1. CASE n = 0
      BY <2>2, <3>1
    <3>2. CASE n \in 1..k
      BY <1>10, <1>19, <3>2
    <3> QED
      BY <1>25, <3>1, <3>2
  <2>4. \A h \in D \cup {Genesis} : \E n \in 0..k : hashes'[n + 1] = h
    <3> SUFFICES ASSUME NEW h \in D PROVE \E n \in 0..k : hashes'[n + 1] = h
      BY <2>2
    <3>1. PICK n \in 1..k : h = s[n]
      BY <1>15 DEF BlocksOf
    <3> QED
      BY <1>19, <2>1, <3>1
  <2> QED
    BY <1>21, <2>3, <2>4
<1>27. \A n \in 0..k : blocks'[hashes'[n + 1]] = n
  BY <1>19, <1>22, <1>23, <1>25
<1>28. \A n \in 2..k : prevHash[hashes'[n + 1]] = hashes'[n]
  <2> SUFFICES ASSUME NEW n \in 2..k PROVE prevHash[hashes'[n + 1]] = hashes'[n]
    OBVIOUS
  <2>1. n \in 1..k /\ n - 1 \in 1..k /\ (n - 1) + 1 = n
    OBVIOUS
  <2>2. hashes'[n + 1] = s[n] /\ hashes'[n] = s[n - 1]
    BY <1>19, <2>1
  <2> QED
    BY <1>12, <2>2
<1>29. \A n \in 1..k : height[hashes'[n + 1]] = height[hashes'[2]] + n - 1
  <2>1. hashes'[2] = s[1]
    BY <1>11, <1>19
  <2>2. height[hashes'[2]] = 1
    BY <1>11, <1>14, <2>1
  <2> QED
    BY <1>14, <1>19, <2>2
<1>30. \A n \in 1..k : hashes'[n + 1] \in Hash
  BY <1>10, <1>19
<1>31. BcInv'
  BY <1>19, <1>21, <1>24, <1>26, <1>27, <1>28, <1>29, <1>30, NextInv
<1>32. countBlocks' = k
  BY <1>19 DEF countBlocks
<1>33. OrphansNotNumbered'
  <2>1. ASSUME NEW n \in 1..k PROVE prevHash[hashes'[n + 1]] = hashes'[n]
    <3>1. CASE n = 1
      BY <1>8, <1>11, <1>19, <3>1
    <3>2. CASE n # 1
      BY <1>28, <3>2
    <3> QED
      BY <3>1, <3>2
  <2>2. \A n \in 1..k : (n - 1) + 1 = n
    OBVIOUS
  <2> QED
    BY <1>32, <2>1, <2>2 DEF OrphansNotNumbered, getBlock
<1>34. height[last] = k
  BY <1>11, <1>14
<1> QED
  BY <1>21, <1>31, <1>32, <1>33, <1>34

\* The numbered blocks up to k can be loaded back.
LEMMA RestartWalk ==
    ASSUME BcInv, countBlocks > 0 => prevHash[getBlock(1)] = Genesis,
           NEW k \in 1..countBlocks
    PROVE  \E p \in Paths :
             /\ IsWalk(HeaderMap(StoredHeaders(k)), getBlock(k), p)
             /\ WalkFits(HeaderMap(StoredHeaders(k)), <<Genesis>>, p)
<1> DEFINE s == [n \in 1..k |-> getBlock(n)]
<1>1. countBlocks \in Nat /\ k \in Nat \ {0} /\ k <= countBlocks
  BY InvFacts
<1>2. \A n \in 1..k : getBlock(n) \in Hash
  BY <1>1, InvFacts
<1>3. \A n \in 2..k : prevHash[getBlock(n)] = getBlock(n - 1)
  BY <1>1, InvFacts
<1>4. prevHash[getBlock(1)] = Genesis
  BY <1>1
<1>5. IsChain(s, k)
  BY <1>1, <1>2, <1>3, <1>4 DEF IsChain
<1> DEFINE D == BlocksOf(s, k)
<1>6. D = StoredHeaders(k) /\ s[k] = getBlock(k)
  BY <1>1 DEF StoredHeaders, BlocksOf
<1>7. PICK p \in Paths :
        IsWalk(HeaderMap(D), s[k], p) /\ WalkFits(HeaderMap(D), <<Genesis>>, p)
  <2> HIDE DEF s
  <2> QED
    BY <1>1, <1>5, ChainWalk
<1> HIDE DEF s, D
<1> QED
  BY <1>6, <1>7

\* A chain that starts at the genesis block, and every prefix of it, can be
\* loaded back from its headers (RestartSucceeds).
THEOREM RestartsSucceed == BcSpec => []RestartSucceeds
<1>1. BcInv => RestartSucceeds
  BY RestartWalk DEF RestartSucceeds
<1> QED
  BY <1>1, InvariantHolds, PTL

(***************************************************************************)
(* Sync: the inductive invariant.                                          *)
(***************************************************************************)

\* A block whose parent is the genesis block.
IsRoot(x) == x \in Hash /\ prevHash[x] = Genesis

\* The chain in memory, of a process in whatever state.
ChainOK == BcInv /\ OrphansNotNumbered

\* The files begin with a first block, or with a record nobody can read.
HeadOK(f) == f = <<>> \/ f[1] = RawDump \/ IsRoot(f[1])

FileOK ==
    /\ HeadOK(file) /\ HeadOK(loadedFile)
    /\ pc \in Running /\ countBlocks > 0 => file # <<>>

\* Positions lead to the blocks they are the positions of.
PlacesOK ==
    /\ pc # "dropDb" =>
        \A h \in DOMAIN headers :
            headers[h] \in 1..Len(file) /\ file[headers[h]] = h
    /\ pc \in {"add", "push", "store"} =>
        itemPos \in 1..Len(file) /\ file[itemPos] = item
    /\ pc \in Running \cup {"truncate"} =>
        \A n \in 1..countBlocks :
            getBlock(n) \in DOMAIN position /\ position[getBlock(n)] # 0

\* What the synchronising thread holds fits the place where it is.
StepOK ==
    /\ pc \in {"save", "add", "push", "store"} => item \in Item
    /\ pc = "push" => item \in Hash
    /\ pc \in {"push", "store"} /\ item \in Hash => item = getLastBlock
    /\ pc \in {"ancestor", "truncate"} => walkNum <= countBlocks
    /\ pc = "truncate" => walkNum > 0
    /\ pc \in {"off", "replay"} => batch = <<>>
    /\ pc \in {"rewrite", "append"} => DOMAIN headers = {}

\* Nothing but a first block comes to an empty chain.
EmptyOK ==
    pc \in Running /\ countBlocks = 0 =>
        /\ pc \in {"replay", "idle", "save", "add"}
        /\ pc \in {"save", "add"} => IsRoot(item)
        /\ pc = "idle" => batch = <<>> \/ IsRoot(batch[1])
        /\ pc = "replay" => cursor = 1
        /\ pc = "idle" /\ gba = "file" => cursor = 1

\* The timeline in memory has the blocks of the chain, and the saved timeline
\* has its elements, under their keys.
TimelineOK ==
    pc \in Running =>
        /\ \A n \in 1..countBlocks : getBlock(n) \in RangeOf(timeline)
        /\ \A i \in DOMAIN timeline :
            timeline[i] \in Hash => timeline[i] \in DOMAIN blocks
        /\ timeline # <<>> => timeline[1] \in Hash
        /\ \A k \in DOMAIN timelineDb :
            k + 1 \in DOMAIN timeline /\ timelineDb[k] = timeline[k + 1]
        /\ pc \in {"push", "store"} =>
            /\ timeline # <<>> /\ timeline[Len(timeline)] = item
            /\ TimelineKey \notin DOMAIN timelineDb
        /\ pc = "confirm" => DOMAIN timelineDb # {}
        /\ DOMAIN headers \subseteq DOMAIN blocks

\* The database can be loaded to a chain, unless elements of the timeline are
\* missing in it.
DbOK ==
    /\ IsFiniteSet(DOMAIN timelineDb)
    /\ \A k \in DOMAIN timelineDb :
        timelineDb[k] \in Hash => timelineDb[k] \in DOMAIN headers
    /\ \A h \in DOMAIN headers : \E k \in DOMAIN timelineDb : timelineDb[k] = h
    /\ metadata = NoHash => DOMAIN headers = {}
    /\ metadata # NoHash =>
        /\ metadata \in DOMAIN headers
        /\ \A h \in DOMAIN headers : height[h] <= height[metadata]
    /\ \A g, h \in DOMAIN headers : height[g] = height[h] => g = h
    /\ TimelineSequence =>
        \A h \in DOMAIN headers :
            prevHash[h] = Genesis \/ prevHash[h] \in DOMAIN headers
    /\ 0 \in DOMAIN timelineDb => timelineDb[0] \in Hash
    /\ DOMAIN timelineDb = {} => confirmed = 1

SyncParts ==
    /\ ChainOK /\ FileOK /\ PlacesOK /\ StepOK /\ EmptyOK /\ TimelineOK
    /\ DbOK

SyncInv == SyncTypeOK /\ SyncParts

(***************************************************************************)
(* Steps that leave the chain, the files and the database alone.           *)
(***************************************************************************)

\* The chain keeps its blocks, and what is written stays.
Moved ==
    /\ BcInv' /\ hashes' = hashes /\ DOMAIN blocks' = DOMAIN blocks
    /\ UNCHANGED <<file, headers, metadata, timelineDb, position, timeline,
                   loadedFile>>

\* The known blocks are the ones in the list.
LEMMA KnownNext ==
    ASSUME BcInv'
    PROVE  /\ countBlocks' \in Nat /\ Len(hashes') = countBlocks' + 1
           /\ DOMAIN blocks' = {hashes'[n + 1] : n \in 0..countBlocks'}
           /\ hashes'[1] = Genesis
           /\ \A n \in 1..countBlocks' : hashes'[n + 1] \in DOMAIN blocks' \cap Hash
<1> USE DEF BcInv
<1>1. countBlocks' \in Nat /\ Len(hashes') = countBlocks' + 1 /\ hashes' \in Seq(Block)
  BY DEF BcTypeOK, NumbersAgree, countBlocks
<1>2. \A n \in 0..countBlocks' : hashes'[n + 1] \in DOMAIN blocks'
  BY DEF NumbersAgree, getBlock
<1>3. \A x \in DOMAIN blocks' : blocks'[x] \in 0..countBlocks' /\ x = hashes'[blocks'[x] + 1]
  BY DEF NumbersAgree, getBlock
<1>4. hashes'[1] = Genesis
  <2>1. getBlock(0)' = Genesis
    BY DEF ChainLinked
  <2>2. 0 + 1 = 1
    OBVIOUS
  <2> QED
    BY <2>1, <2>2 DEF getBlock
<1>5. PICK c \in Nat : c = countBlocks' /\ Len(hashes') = c + 1
  BY <1>1
<1>6. \A k \in 0..c : blocks'[hashes'[k + 1]] = k /\ hashes'[k + 1] \in DOMAIN blocks'
  BY <1>5 DEF NumbersAgree, getBlock
<1>7. ASSUME NEW n \in 1..c PROVE hashes'[n + 1] \in DOMAIN blocks' \cap Hash
  <2>1. n \in 0..c /\ 0 \in 0..c /\ n # 0 /\ 0 + 1 = 1 /\ n + 1 \in 1..(c + 1)
    OBVIOUS
  <2>2. blocks'[hashes'[n + 1]] = n /\ blocks'[hashes'[1]] = 0
    BY <1>6, <2>1
  <2>3. hashes'[n + 1] # Genesis
    BY <1>4, <2>1, <2>2
  <2>4. hashes'[n + 1] \in Block
    BY <1>1, <1>5, <2>1
  <2> QED
    BY <1>6, <2>1, <2>3, <2>4 DEF Block
<1> QED
  BY <1>1, <1>2, <1>3, <1>4, <1>5, <1>7

LEMMA SameChain ==
    ASSUME BcInv, BcInv', hashes' = hashes
    PROVE  DOMAIN blocks' = DOMAIN blocks
<1>1. DOMAIN blocks = {getBlock(n) : n \in 0..countBlocks}
  BY InvFacts
<1>2. DOMAIN blocks' = {hashes'[n + 1] : n \in 0..countBlocks'}
  BY KnownNext
<1> QED
  BY <1>1, <1>2 DEF getBlock, countBlocks

LEMMA MovedParts ==
    ASSUME SyncInv, Moved,
           pc' \in Running => pc \in Running,
           pc' # "dropDb" => pc # "dropDb",
           pc' = "truncate" => pc \in Running \cup {"truncate"},
           pc' \in {"add", "push", "store"} =>
                itemPos' \in 1..Len(file) /\ file[itemPos'] = item',
           pc' \in {"push", "store"} => pc \in {"push", "store"} /\ item' = item,
           pc' = "confirm" => pc = "confirm"
    PROVE  ChainOK' /\ FileOK' /\ PlacesOK' /\ TimelineOK'
<1> USE DEF Moved
<1>1. countBlocks' = countBlocks /\ \A n : getBlock(n)' = getBlock(n)
  BY DEF countBlocks, getBlock
<1>2. ChainOK'
  BY <1>1 DEF SyncInv, SyncParts, ChainOK, OrphansNotNumbered
<1>3. FileOK'
  BY <1>1 DEF SyncInv, SyncParts, FileOK, HeadOK, IsRoot
<1>4. PlacesOK'
  BY <1>1 DEF SyncInv, SyncParts, PlacesOK
<1>5. TimelineOK'
  <2>1. CASE pc' \notin Running
    BY <2>1 DEF TimelineOK
  <2>2. CASE pc' \in Running
    BY <1>1, <2>2 DEF SyncInv, SyncParts, TimelineOK, RangeOf, TimelineKey
  <2> QED
    BY <2>1, <2>2
<1> QED
  BY <1>2, <1>3, <1>4, <1>5

\* The worker and the servers move: nothing that the invariant speaks of does.
LEMMA QuietParts ==
    ASSUME SyncInv,
           UNCHANGED <<bcVars, file, diskVars, pc, item, itemPos, position,
                       timeline, gba, cursor, batch, walkNum, loadedFile>>
    PROVE  SyncParts'
<1>0. SyncParts
  BY DEF SyncInv
<1>1. /\ blocks' = blocks /\ hashes' = hashes /\ lastStateBlock' = lastStateBlock
      /\ file' = file /\ headers' = headers /\ metadata' = metadata
      /\ timelineDb' = timelineDb /\ confirmed' = confirmed
      /\ pc' = pc /\ item' = item /\ itemPos' = itemPos /\ position' = position
      /\ timeline' = timeline /\ gba' = gba /\ cursor' = cursor /\ batch' = batch
      /\ walkNum' = walkNum /\ loadedFile' = loadedFile
  BY DEF bcVars, diskVars
<1>2. BcInv'
  BY <1>0, <1>1 DEF SyncParts, ChainOK, BcInv, BcTypeOK, NumbersAgree, ChainLinked,
     HeightsGrow, LastStateBlockInRange, getBlock, countBlocks
<1>3. Moved
  BY <1>1, <1>2 DEF Moved
<1>4. pc \in {"add", "push", "store"} => itemPos \in 1..Len(file) /\ file[itemPos] = item
  BY <1>0 DEF SyncParts, PlacesOK
<1>5. ChainOK' /\ FileOK' /\ PlacesOK' /\ TimelineOK'
  BY <1>1, <1>3, <1>4, MovedParts
<1>6. StepOK'
  BY <1>0, <1>1 DEF SyncParts, StepOK, getLastBlock, getBlock, countBlocks
<1>7. EmptyOK'
  BY <1>0, <1>1 DEF SyncParts, EmptyOK, IsRoot, countBlocks
<1>8. DbOK'
  BY <1>0, <1>1 DEF SyncParts, DbOK, TimelineSequence
<1> QED
  BY <1>5, <1>6, <1>7, <1>8 DEF SyncParts

(***************************************************************************)
(* What the servers have, and what is fetched from them.                   *)
(***************************************************************************)

\* The block of a number, if the servers have one, is a block of that height.
LEMMA ServerFacts ==
    ASSUME tip \in Block
    PROVE  /\ LastNumber \in Nat
           /\ \A n \in 1..LastNumber : ServerBlock(n) \in Hash /\ height[ServerBlock(n)] = n
<1>1. CASE tip = Genesis
  <2>1. LastNumber = 0
    BY <1>1 DEF LastNumber
  <2> QED
    BY <2>1
<1>2. CASE tip # Genesis
  <2>1. tip \in Hash /\ LastNumber = height[tip]
    BY <1>2 DEF Block, LastNumber
  <2>2. PICK k \in Nat \ {0} : k = height[tip]
    BY <2>1, AncestorHeights
  <2>3. \A m \in 0..(k - 1) : Ancestor[m][tip] \in Hash /\ height[Ancestor[m][tip]] = k - m
    BY <2>1, <2>2, AncestorHeights
  <2>4. ASSUME NEW n \in 1..k
        PROVE  ServerBlock(n) \in Hash /\ height[ServerBlock(n)] = n
    <3>1. k - n \in 0..(k - 1) /\ k - (k - n) = n
      OBVIOUS
    <3>2. ServerBlock(n) = Ancestor[k - n][tip]
      BY <2>1, <2>2 DEF ServerBlock
    <3> QED
      BY <2>3, <3>1, <3>2
  <2> QED
    BY <2>1, <2>2, <2>4
<1> QED
  BY <1>1, <1>2

\* A block of height one is a first block.
LEMMA HeightOne ==
    ASSUME NEW h \in Hash, height[h] = 1
    PROVE  IsRoot(h)
<1> SUFFICES ASSUME prevHash[h] # Genesis PROVE FALSE
  BY DEF IsRoot
<1>1. prevHash[h] \in Hash
  BY HashAssumption
<1>2. height[prevHash[h]] \in Nat \ {0}
  BY <1>1, AncestorHeights
<1>3. height[h] = height[prevHash[h]] + 1
  BY HeightAssumption
<1> QED
  BY <1>2, <1>3

LEMMA SignsFacts ==
    ASSUME NEW h, NEW known \in SUBSET Sign
    PROVE  /\ SignsAfter(h, known) \in Seq(Item) /\ SignsAfter(h, known) \in Seq(Sign)
           /\ h \notin Hash => SignsAfter(h, known) = <<>>
<1> DEFINE signs == {s \in known : signParent[s] = h /\ s \notin RangeOf(timeline)}
<1>1. SignsAfter(h, known) = IF signs = {} THEN <<>> ELSE <<CHOOSE s \in signs : TRUE>>
  BY DEF SignsAfter
<1>2. signs # {} => (CHOOSE s \in signs : TRUE) \in signs
  OBVIOUS
<1>3. \A s \in signs : s \in Item /\ s \in Sign /\ h \in Hash
  BY SyncAssumption DEF Item
<1> HIDE DEF signs
<1>4. SignsAfter(h, known) \in Seq(Item) /\ SignsAfter(h, known) \in Seq(Sign)
  <2> DEFINE s == CHOOSE x \in signs : TRUE
  <2>1. CASE signs = {}
    BY <1>1, <2>1
  <2>2. CASE signs # {}
    <3>1. s \in Item /\ s \in Sign
      BY <1>2, <1>3, <2>2
    <3>2. SignsAfter(h, known) = <<s>>
      BY <1>1, <2>2
    <3> HIDE DEF s
    <3> QED
      BY <3>1, <3>2
  <2> QED
    BY <2>1, <2>2
<1>5. h \notin Hash => signs = {}
  BY <1>3
<1> QED
  BY <1>1, <1>4, <1>5

\* The batches that Items puts together, one block after the other.
LEMMA ItemsRun ==
    ASSUME countBlocks \in Nat, tip \in Block,
           NEW known \in SUBSET Sign, NEW n \in Nat, countBlocks + n <= LastNumber
    PROVE  \E g :
             /\ Items(n, known) = g[n]
             /\ g[0] = IF n = 0 THEN SignsAfter(getLastBlock, known) ELSE <<>>
             /\ \A i \in 0..n : g[i] \in Seq(Item)
             /\ \A i \in 1..n :
                  g[i] = g[i - 1] \o <<ServerBlock(countBlocks + i)>>
                           \o SignsAfter(ServerBlock(countBlocks + i), known)
<1> DEFINE T == Seq(Item)
           base == IF n = 0 THEN SignsAfter(getLastBlock, known) ELSE <<>>
           Next1(i, q) == q \o <<ServerBlock(countBlocks + i)>>
                            \o SignsAfter(ServerBlock(countBlocks + i), known)
           step == [x \in Nat \X T |-> IF x[1] \in 1..n THEN Next1(x[1], x[2]) ELSE x[2]]
           Rec(f) == [i \in 0..n |->
                        IF i = 0
                        THEN IF n = 0 THEN SignsAfter(getLastBlock, known) ELSE <<>>
                        ELSE LET h == ServerBlock(countBlocks + i)
                             IN  f[i - 1] \o <<h>> \o SignsAfter(h, known)]
<1>1. base \in T
  <2>1. SignsAfter(getLastBlock, known) \in Seq(Item)
    BY SignsFacts
  <2> QED
    BY <2>1
<1>2. ASSUME NEW i \in 1..n, NEW q \in T PROVE Next1(i, q) \in T
  <2>1. countBlocks + i \in 1..LastNumber
    BY ServerFacts
  <2>2. ServerBlock(countBlocks + i) \in Item
    BY <2>1, ServerFacts DEF Item
  <2>3. PICK h, s : h = ServerBlock(countBlocks + i) /\ s = SignsAfter(h, known)
    BY Zenon
  <2>4. s \in Seq(Item) /\ h \in Item
    BY <2>2, <2>3, SignsFacts
  <2>5. q \o <<h>> \o s \in Seq(Item)
    BY <2>4
  <2> QED
    BY <2>3, <2>5
<1>3. step \in [Nat \X T -> T]
  <2> HIDE DEF T, Next1
  <2>1. ASSUME NEW x \in Nat \X T
        PROVE  (IF x[1] \in 1..n THEN Next1(x[1], x[2]) ELSE x[2]) \in T
    BY <1>2
  <2> QED
    BY <2>1
<1>4. PICK f : IsRun(f, n, T, base, step)
  <2>1. PICK V, b, s : V = T /\ b = base /\ s = step
    BY Zenon
  <2>2. b \in V /\ s \in [Nat \X V -> V]
    BY <1>1, <1>3, <2>1, Zenon
  <2>3. PICK f : IsRun(f, n, V, b, s)
    BY <2>2, RunsExist
  <2> HIDE DEF T, base, step
  <2> QED
    BY <2>1, <2>3, Zenon
<1>5. f \in [0..n -> T] /\ f[0] = base /\ \A i \in 1..n : f[i] = step[<<i, f[i - 1]>>]
  <2> HIDE DEF T, base, step
  <2> QED
    BY <1>4 DEF IsRun
<1>6. ASSUME NEW i \in 1..n PROVE f[i] = Next1(i, f[i - 1])
  <2>1. i - 1 \in 0..n /\ i \in Nat
    OBVIOUS
  <2>2. <<i, f[i - 1]>> \in Nat \X T
    BY <1>5, <2>1
  <2> HIDE DEF T, Next1
  <2> QED
    BY <1>5, <2>2
<1>7. f = Rec(f)
  <2>1. ASSUME NEW i \in 0..n PROVE f[i] = Rec(f)[i]
    <3>1. CASE i = 0
      BY <1>5, <3>1
    <3>2. CASE i # 0
      <4>1. i \in 1..n
        BY <3>2
      <4>2. f[i] = Next1(i, f[i - 1])
        BY <1>6, <4>1
      <4> QED
        BY <3>2, <4>2
    <3> QED
      BY <3>1, <3>2
  <2>2. f = [i \in 0..n |-> f[i]]
    BY <1>5
  <2>3. Rec(f) = [i \in 0..n |-> Rec(f)[i]]
    OBVIOUS
  <2> HIDE DEF Rec
  <2> QED
    BY <2>1, <2>2, <2>3
<1>8. PICK g : g = Rec(g) /\ Items(n, known) = g[n]
  <2>1. \E A : A = Rec(A)
    BY <1>7
  <2>2. (CHOOSE A : A = Rec(A)) = Rec(CHOOSE A : A = Rec(A))
    <3> HIDE DEF Rec
    <3> QED
      BY <2>1, Zenon
  <2>3. Items(n, known) = (CHOOSE A : A = Rec(A))[n]
    BY Zenon DEF Items
  <2> HIDE DEF Rec
  <2> QED
    BY <2>2, <2>3, Zenon
<1>9. g[0] = base
  BY <1>8
<1>10. ASSUME NEW i \in 1..n PROVE g[i] = Next1(i, g[i - 1])
  <2>1. i \in 0..n /\ i # 0
    OBVIOUS
  <2>2. Rec(g)[i] = Next1(i, g[i - 1])
    BY <2>1
  <2> HIDE DEF Rec
  <2> QED
    BY <1>8, <2>2
<1> HIDE DEF Rec, step
<1> DEFINE Bad == {i \in 0..n : g[i] \notin T}
<1>11. Bad = {}
  <2> SUFFICES ASSUME Bad # {} PROVE FALSE
    OBVIOUS
  <2>1. PICK i \in Bad : \A j \in Bad : i <= j
    <3>1. Bad \subseteq Nat
      OBVIOUS
    <3> QED
      BY <3>1, NatMin, Zenon
  <2>2. i \in 0..n /\ g[i] \notin T
    OBVIOUS
  <2>3. i # 0
    BY <1>1, <1>9, <2>2
  <2>4. i \in 1..n /\ i - 1 \in 0..n /\ i - 1 < i
    BY <2>2, <2>3
  <2>5. g[i - 1] \in T
    BY <2>1, <2>4
  <2>6. g[i] = Next1(i, g[i - 1]) /\ Next1(i, g[i - 1]) \in T
    BY <1>2, <1>10, <2>4, <2>5
  <2> QED
    BY <2>2, <2>6
<1>12. \A i \in 0..n : g[i] \in T
  BY <1>11
<1> QED
  BY <1>8, <1>9, <1>10, <1>12

\* A batch holds blocks and sign blocks, the first block first; an empty chain
\* has no sign blocks to wait for.
LEMMA ItemsFacts ==
    ASSUME countBlocks \in Nat, getBlock(0) = Genesis, tip \in Block,
           NEW known \in SUBSET Sign, NEW n \in Nat, countBlocks + n <= LastNumber
    PROVE  /\ Items(n, known) \in Seq(Item)
           /\ n > 0 => Items(n, known)[1] = ServerBlock(countBlocks + 1)
           /\ n = 0 /\ countBlocks = 0 => Items(n, known) = <<>>
<1>1. PICK g :
        /\ Items(n, known) = g[n]
        /\ g[0] = IF n = 0 THEN SignsAfter(getLastBlock, known) ELSE <<>>
        /\ \A i \in 0..n : g[i] \in Seq(Item)
        /\ \A i \in 1..n :
             g[i] = g[i - 1] \o <<ServerBlock(countBlocks + i)>>
                      \o SignsAfter(ServerBlock(countBlocks + i), known)
  BY ItemsRun
<1>2. ASSUME NEW i \in 1..n PROVE ServerBlock(countBlocks + i) \in Item
  <2>1. countBlocks + i \in 1..LastNumber
    BY ServerFacts
  <2> QED
    BY <2>1, ServerFacts DEF Item
<1> DEFINE First(i) == i > 0 =>
             g[i] # <<>> /\ g[i][1] = ServerBlock(countBlocks + 1)
           Bad == {i \in 0..n : ~First(i)}
<1>3. Bad = {}
  <2> SUFFICES ASSUME Bad # {} PROVE FALSE
    OBVIOUS
  <2>1. PICK i \in Bad : \A j \in Bad : i <= j
    <3>1. Bad \subseteq Nat
      OBVIOUS
    <3> QED
      BY <3>1, NatMin, Zenon
  <2>2. i \in 1..n /\ i - 1 \in 0..n /\ i - 1 < i /\ ~First(i)
    OBVIOUS
  <2>3. First(i - 1)
    BY <2>1, <2>2
  <2>4. PICK q, h, s : /\ q = g[i - 1] /\ h = ServerBlock(countBlocks + i)
                       /\ s = SignsAfter(h, known)
    BY Zenon
  <2>5. g[i] = q \o <<h>> \o s
    BY <1>1, <2>2, <2>4
  <2>6. s \in Seq(Item) /\ q \in Seq(Item) /\ h \in Item
    BY <1>1, <1>2, <2>2, <2>4, SignsFacts
  <2>7. g[i] # <<>> /\ (q = <<>> => g[i][1] = h) /\ (q # <<>> => g[i][1] = q[1])
    BY <2>5, <2>6
  <2>8. CASE i = 1
    <3>1. q = <<>>
      BY <1>1, <2>2, <2>4, <2>8
    <3> QED
      BY <2>2, <2>4, <2>7, <2>8, <3>1
  <2>9. CASE i # 1
    <3>1. i - 1 > 0
      BY <2>2, <2>9
    <3> QED
      BY <2>2, <2>3, <2>4, <2>7, <3>1
  <2> QED
    BY <2>8, <2>9
<1>4. First(n)
  BY <1>3
<1>5. n = 0 /\ countBlocks = 0 => Items(n, known) = <<>>
  <2> SUFFICES ASSUME n = 0, countBlocks = 0 PROVE Items(n, known) = <<>>
    OBVIOUS
  <2>1. getLastBlock \notin Hash
    BY HashAssumption DEF getLastBlock
  <2>2. SignsAfter(getLastBlock, known) = <<>>
    BY <2>1, SignsFacts
  <2> QED
    BY <1>1, <2>2
<1>6. Items(n, known) \in Seq(Item)
  BY <1>1
<1> QED
  BY <1>1, <1>4, <1>5, <1>6

(***************************************************************************)
(* The steps of the synchronising thread that only move it.                *)
(***************************************************************************)

LEMMA KeepsChain ==
    ASSUME BcInv, UNCHANGED bcVars
    PROVE  /\ BcInv' /\ hashes' = hashes /\ DOMAIN blocks' = DOMAIN blocks
           /\ countBlocks' = countBlocks /\ \A n : getBlock(n)' = getBlock(n)
<1>1. blocks' = blocks /\ hashes' = hashes /\ lastStateBlock' = lastStateBlock
  BY DEF bcVars
<1> QED
  BY <1>1 DEF BcInv, BcTypeOK, NumbersAgree, ChainLinked, HeightsGrow,
     LastStateBlockInRange, getBlock, countBlocks

\* What the invariant gives to the steps.
LEMMA Given ==
    ASSUME SyncInv
    PROVE  /\ BcInv /\ OrphansNotNumbered
           /\ countBlocks \in Nat /\ getBlock(0) = Genesis
           /\ DiskTypeOK /\ ThreadTypeOK /\ WorkerTypeOK
           /\ FileOK /\ PlacesOK /\ StepOK /\ EmptyOK /\ TimelineOK /\ DbOK
<1>1. BcInv
  BY DEF SyncInv, SyncParts, ChainOK
<1> QED
  BY <1>1, InvFacts DEF SyncInv, SyncTypeOK, SyncParts, ChainOK

LEMMA MoveTo ==
    ASSUME SyncInv, Moved, confirmed' = confirmed,
           pc \notin {"off", "dropDb"}, pc' \notin {"off", "dropDb"},
           pc' \in Running => pc \in Running,
           pc' = "truncate" => pc \in Running,
           pc' \in {"add", "push", "store"} =>
                itemPos' \in 1..Len(file) /\ file[itemPos'] = item',
           pc' \in {"push", "store"} => pc \in {"push", "store"} /\ item' = item,
           pc' # "confirm",
           StepOK', EmptyOK'
    PROVE  SyncParts'
<1>1. ChainOK' /\ FileOK' /\ PlacesOK' /\ TimelineOK'
  BY MovedParts
<1>2. DbOK'
  BY Given DEF Moved, DbOK, TimelineSequence
<1> QED
  BY <1>1, <1>2 DEF SyncParts

LEMMA StartMoves ==
    ASSUME SyncInv, StartFails \/ ReplayBlock \/ ReplayFails \/ ReplayDone
    PROVE  SyncParts'
<1>0. BcInv /\ ThreadTypeOK /\ countBlocks \in Nat
  BY Given
<1>1. CASE StartFails
  <2>1. Moved /\ confirmed' = confirmed /\ pc = "off" /\ pc' = "failed"
    BY <1>0, <1>1, KeepsChain DEF StartFails, Moved, diskVars
  <2>2. ChainOK' /\ FileOK' /\ PlacesOK' /\ TimelineOK'
    BY <2>1, MovedParts DEF Running
  <2>3. StepOK' /\ EmptyOK'
    BY <2>1 DEF StepOK, EmptyOK, Running
  <2>4. DbOK'
    BY <2>1, Given DEF Moved, DbOK, TimelineSequence
  <2> QED
    BY <2>2, <2>3, <2>4 DEF SyncParts
<1>2. CASE ReplayBlock
  <2>1. /\ Moved /\ confirmed' = confirmed /\ pc = "replay" /\ pc' = "replay"
        /\ batch' = batch /\ cursor' = cursor /\ countBlocks' = countBlocks
    BY <1>0, <1>2, KeepsChain DEF ReplayBlock, Moved, diskVars, sourceVars
  <2>2. StepOK' /\ EmptyOK'
    BY <2>1, Given DEF StepOK, EmptyOK, Running
  <2> QED
    BY <2>1, <2>2, MoveTo DEF Running
<1>3. CASE ReplayFails
  <2>1. Moved /\ confirmed' = confirmed /\ pc = "replay" /\ pc' = "failed"
    BY <1>0, <1>3, KeepsChain DEF ReplayFails, Moved, diskVars
  <2>2. StepOK' /\ EmptyOK'
    BY <2>1 DEF StepOK, EmptyOK, Running
  <2> QED
    BY <2>1, <2>2, MoveTo DEF Running
<1>4. CASE ReplayDone
  <2>1. /\ Moved /\ confirmed' = confirmed /\ pc = "replay" /\ pc' = "idle"
        /\ batch' = batch /\ cursor' = cursor /\ countBlocks' = countBlocks
    BY <1>0, <1>4, KeepsChain DEF ReplayDone, Moved, diskVars
  <2>2. StepOK' /\ EmptyOK'
    BY <2>1, Given DEF StepOK, EmptyOK, Running
  <2> QED
    BY <2>1, <2>2, MoveTo DEF Running
<1> QED
  BY <1>1, <1>2, <1>3, <1>4

\* The batch that is fetched for an empty chain begins with a first block.
LEMMA FetchedBatch ==
    ASSUME SyncInv, Fetch
    PROVE  /\ batch' \in Seq(Item)
           /\ countBlocks = 0 => batch' = <<>> \/ IsRoot(batch'[1])
<1>0. countBlocks \in Nat /\ getBlock(0) = Genesis /\ tip \in Block
  BY Given DEF ThreadTypeOK
<1>1. LastNumber \in Nat /\ BatchSize \in Nat \ {0}
  BY <1>0, ServerFacts, SyncAssumption
<1>2. PICK known \in SUBSET Sign :
        batch' = IF LastNumber < countBlocks THEN <<>>
                 ELSE Items(Least(BatchSize, LastNumber - countBlocks), known)
  BY DEF Fetch
<1>3. CASE LastNumber < countBlocks
  BY <1>2, <1>3
<1>4. CASE ~(LastNumber < countBlocks)
  <2> DEFINE n == Least(BatchSize, LastNumber - countBlocks)
  <2>1. n \in Nat /\ countBlocks + n <= LastNumber
    BY <1>0, <1>1, <1>4 DEF Least
  <2>2. batch' = Items(n, known)
    BY <1>2, <1>4
  <2> HIDE DEF n
  <2>3. /\ Items(n, known) \in Seq(Item)
        /\ n > 0 => Items(n, known)[1] = ServerBlock(countBlocks + 1)
        /\ n = 0 /\ countBlocks = 0 => Items(n, known) = <<>>
    BY <1>0, <2>1, ItemsFacts
  <2>4. n > 0 /\ countBlocks = 0 => IsRoot(ServerBlock(countBlocks + 1))
    <3> SUFFICES ASSUME n > 0, countBlocks = 0 PROVE IsRoot(ServerBlock(1))
      OBVIOUS
    <3>1. 1 \in 1..LastNumber
      BY <1>1, <2>1
    <3>2. ServerBlock(1) \in Hash /\ height[ServerBlock(1)] = 1
      BY <1>0, <3>1, ServerFacts
    <3> QED
      BY <3>2, HeightOne
  <2>5. n = 0 \/ n > 0
    BY <2>1
  <2> QED
    BY <2>2, <2>3, <2>4, <2>5
<1> QED
  BY <1>3, <1>4

LEMMA SourceMoves ==
    ASSUME SyncInv, Fetch \/ TakeFetched \/ TakeFromFile \/ FileSpins \/ FileDone
    PROVE  SyncParts'
<1>0. /\ BcInv /\ ThreadTypeOK /\ countBlocks \in Nat
      /\ StepOK /\ EmptyOK /\ FileOK /\ DiskTypeOK
  BY Given
<1>1. CASE Fetch
  <2>1. /\ Moved /\ confirmed' = confirmed /\ pc = "idle" /\ pc' = "idle"
        /\ cursor' = cursor /\ gba' = gba /\ countBlocks' = countBlocks
    BY <1>0, <1>1, KeepsChain DEF Fetch, Moved, diskVars
  <2>2. countBlocks = 0 => batch' = <<>> \/ IsRoot(batch'[1])
    BY <1>1, FetchedBatch
  <2>3. StepOK'
    BY <2>1 DEF StepOK
  <2>4. EmptyOK'
    BY <1>0, <2>1, <2>2 DEF EmptyOK, Running, IsRoot
  <2> QED
    BY <2>1, <2>3, <2>4, MoveTo DEF Running
<1>2. CASE TakeFetched
  <2>1. /\ Moved /\ confirmed' = confirmed /\ pc = "idle" /\ pc' = "save"
        /\ item' = Head(batch) /\ batch # <<>> /\ countBlocks' = countBlocks
    BY <1>0, <1>2, KeepsChain DEF TakeFetched, Moved, diskVars
  <2>2. item' = batch[1] /\ item' \in Item
    BY <1>0, <2>1 DEF ThreadTypeOK
  <2>3. StepOK'
    BY <2>1, <2>2 DEF StepOK
  <2>4. EmptyOK'
    BY <1>0, <2>1, <2>2 DEF EmptyOK, Running, IsRoot
  <2> QED
    BY <2>1, <2>3, <2>4, MoveTo DEF Running
<1>3. CASE TakeFromFile
  <2>1. /\ Moved /\ confirmed' = confirmed /\ pc = "idle" /\ pc' = "add"
        /\ item' = file[cursor] /\ itemPos' = cursor /\ cursor <= Len(file)
        /\ file[cursor] # RawDump /\ gba = "file" /\ countBlocks' = countBlocks
    BY <1>0, <1>3, KeepsChain DEF TakeFromFile, Moved, diskVars
  <2>2. cursor \in 1..Len(file)
    BY <1>0, <2>1 DEF ThreadTypeOK, DiskTypeOK
  <2>3. item' \in Item
    BY <1>0, <2>1, <2>2 DEF DiskTypeOK, FileRecord
  <2>4. StepOK'
    BY <2>1, <2>3 DEF StepOK
  <2>5. countBlocks = 0 => IsRoot(item')
    <3> SUFFICES ASSUME countBlocks = 0 PROVE IsRoot(item')
      OBVIOUS
    <3>1. cursor = 1
      BY <1>0, <2>1 DEF EmptyOK, Running
    <3>2. file # <<>> /\ file[1] # RawDump
      BY <1>0, <2>1, <2>2, <3>1 DEF DiskTypeOK
    <3> QED
      BY <1>0, <2>1, <3>1, <3>2 DEF FileOK, HeadOK
  <2>6. EmptyOK'
    BY <2>1, <2>5 DEF EmptyOK, IsRoot
  <2> QED
    BY <2>1, <2>2, <2>4, <2>6, MoveTo DEF Running
<1>4. CASE FileSpins
  BY <1>4, QuietParts DEF FileSpins, vars, sourceVars
<1>5. CASE FileDone
  <2>1. /\ Moved /\ confirmed' = confirmed /\ pc = "idle" /\ pc' = "idle"
        /\ cursor' = cursor /\ batch' = batch /\ gba' = "network"
        /\ countBlocks' = countBlocks
    BY <1>0, <1>5, KeepsChain DEF FileDone, Moved, diskVars
  <2>2. StepOK'
    BY <2>1 DEF StepOK
  <2>3. EmptyOK'
    BY <1>0, <2>1 DEF EmptyOK, Running, IsRoot
  <2> QED
    BY <2>1, <2>2, <2>3, MoveTo DEF Running
<1> QED
  BY <1>1, <1>2, <1>3, <1>4, <1>5

\* A step that ends the round, with blocks in the chain.
LEMMA RetryMoves ==
    ASSUME SyncInv, Retry, UNCHANGED <<bcVars, file, diskVars, position, timeline, loadedFile>>,
           pc \in Running, countBlocks # 0
    PROVE  SyncParts'
<1>1. BcInv /\ countBlocks \in Nat
  BY Given
<1>2. /\ Moved /\ confirmed' = confirmed /\ pc' = "idle" /\ countBlocks' = countBlocks
  BY <1>1, KeepsChain DEF Retry, NextRound, Moved, diskVars
<1>3. StepOK'
  BY <1>2 DEF StepOK
<1>4. EmptyOK'
  BY <1>2 DEF EmptyOK
<1> QED
  BY <1>2, <1>3, <1>4, MoveTo DEF Running

\* An empty chain refuses no block.
LEMMA EmptyRefusesNone ==
    ASSUME BcInv, NEW h \in Hash, AddRefused(h)
    PROVE  countBlocks # 0
<1> SUFFICES ASSUME countBlocks = 0 PROVE FALSE
  OBVIOUS
<1> DEFINE bl == WithHeaders(blocks, {h})
<1>1. h \notin DOMAIN blocks
  BY DEF AddRefused
<1>2. PICK p \in Paths : IsWalk(bl, h, p) /\ CalcRefuses(bl, hashes, lastStateBlock, p)
  BY DEF AddRefused
<1>3. /\ Len(p) = 1
      /\ BaseNumber(bl, p) = IF prevHash[h] \in DOMAIN blocks THEN blocks[prevHash[h]] ELSE 0
  BY <1>1, <1>2, AddWalk
<1>4. \A x \in DOMAIN blocks : blocks[x] = 0
  BY InvFacts
<1>5. BaseNumber(bl, p) = 0
  BY <1>3, <1>4
<1> HIDE DEF bl
<1>6. WalkNumber(bl, p, Len(p)) = 1
  BY <1>3, <1>5 DEF WalkNumber
<1>7. Len(hashes) = 1
  BY InvFacts
<1>8. ~WalkFits(bl, hashes, p)
  BY <1>2 DEF CalcRefuses
<1> QED
  BY <1>6, <1>7, <1>8 DEF WalkFits

LEMMA ItemMoves ==
    ASSUME SyncInv, SaveFails \/ AddKnown \/ AddFork \/ Push \/ StoreFails
    PROVE  SyncParts'
<1>0. /\ BcInv /\ ThreadTypeOK /\ countBlocks \in Nat
      /\ StepOK /\ EmptyOK /\ FileOK /\ PlacesOK /\ DiskTypeOK
  BY Given
<1>1. CASE SaveFails
  <2>1. pc = "save" /\ item \in Sign
    BY <1>1 DEF SaveFails
  <2>2. countBlocks # 0
    BY <1>0, <2>1, SyncAssumption DEF EmptyOK, IsRoot, Block, Running
  <2> QED
    BY <1>1, <2>1, <2>2, RetryMoves DEF SaveFails, Running
<1>2. CASE AddKnown
  <2>1. pc = "add" /\ item \in Hash /\ item \in DOMAIN blocks /\ UNCHANGED bcVars
    BY <1>2 DEF AddKnown, AddExisting
  <2>2. countBlocks # 0
    <3> SUFFICES ASSUME countBlocks = 0 PROVE FALSE
      OBVIOUS
    <3>1. DOMAIN blocks = {getBlock(n) : n \in 0..countBlocks} /\ getBlock(0) = Genesis
      BY <1>0, InvFacts
    <3> QED
      BY <2>1, <3>1, HashAssumption
  <2> QED
    BY <1>2, <2>1, <2>2, RetryMoves DEF AddKnown, Running
<1>3. CASE AddFork
  <2>1. /\ pc = "add" /\ item \in Hash /\ AddRefused(item)
        /\ pc' = "ancestor" /\ walkNum' = countBlocks
    BY <1>3 DEF AddFork
  <2>2. countBlocks # 0
    BY <1>0, <2>1, EmptyRefusesNone
  <2>3. BcInv' /\ hashes' = hashes
    BY <1>0, <2>1, RefusedInv
  <2>4. countBlocks' = countBlocks
    BY <2>3 DEF countBlocks
  <2>5. Moved /\ confirmed' = confirmed
    BY <1>0, <1>3, <2>3, SameChain DEF AddFork, Moved, diskVars
  <2>6. StepOK'
    BY <1>0, <2>1, <2>4 DEF StepOK
  <2>7. EmptyOK'
    BY <2>2, <2>4 DEF EmptyOK
  <2> QED
    BY <2>1, <2>5, <2>6, <2>7, MoveTo DEF Running
<1>4. CASE Push
  <2>1. /\ Moved /\ confirmed' = confirmed /\ pc = "push" /\ pc' = "store"
        /\ item' = item /\ itemPos' = itemPos /\ countBlocks' = countBlocks
        /\ getLastBlock' = getLastBlock
    BY <1>0, <1>4, KeepsChain DEF Push, Moved, diskVars, getLastBlock, getBlock, countBlocks
  <2>2. countBlocks # 0
    BY <1>0, <2>1 DEF EmptyOK, Running
  <2>3. StepOK'
    BY <1>0, <2>1 DEF StepOK
  <2>4. EmptyOK'
    BY <2>1, <2>2 DEF EmptyOK
  <2>5. itemPos \in 1..Len(file) /\ file[itemPos] = item
    BY <1>0, <2>1 DEF PlacesOK
  <2> QED
    BY <2>1, <2>3, <2>4, <2>5, MoveTo DEF Running
<1>5. CASE StoreFails
  <2>1. pc = "store"
    BY <1>5 DEF StoreFails
  <2>2. countBlocks # 0
    BY <1>0, <2>1 DEF EmptyOK, Running
  <2> QED
    BY <1>5, <2>1, <2>2, RetryMoves DEF StoreFails, Running
<1> QED
  BY <1>1, <1>2, <1>3, <1>4, <1>5

LEMMA ForkMoves ==
    ASSUME SyncInv,
           AncestorFails \/ AncestorSpins \/ AncestorDown \/ FalseAlarm \/ Conflict
    PROVE  SyncParts'
<1>0. /\ BcInv /\ ThreadTypeOK /\ countBlocks \in Nat /\ StepOK /\ EmptyOK
      /\ walkNum \in Nat /\ tip \in Block
  BY Given DEF ThreadTypeOK
<1>1. pc = "ancestor"
  BY DEF AncestorFails, AncestorSpins, AncestorDown, FalseAlarm, Conflict, ServerForks
<1>2. countBlocks # 0 /\ walkNum <= countBlocks
  BY <1>0, <1>1 DEF EmptyOK, StepOK, Running
<1>3. CASE AncestorFails
  BY <1>1, <1>2, <1>3, RetryMoves DEF AncestorFails, Running
<1>4. CASE AncestorSpins
  BY <1>4, QuietParts DEF AncestorSpins, vars, sourceVars
<1>5. CASE AncestorDown
  <2>1. /\ Moved /\ confirmed' = confirmed /\ pc' = "ancestor"
        /\ countBlocks' = countBlocks /\ walkNum' = walkNum - 1
    BY <1>0, <1>1, <1>5, KeepsChain DEF AncestorDown, Moved, diskVars
  <2>2. StepOK'
    BY <1>0, <1>2, <2>1 DEF StepOK
  <2>3. EmptyOK'
    BY <1>2, <2>1 DEF EmptyOK
  <2> QED
    BY <1>1, <2>1, <2>2, <2>3, MoveTo DEF Running
<1>6. CASE FalseAlarm
  BY <1>1, <1>2, <1>6, RetryMoves DEF FalseAlarm, Running
<1>7. CASE Conflict
  <2>1. /\ Moved /\ confirmed' = confirmed /\ pc' = "truncate"
        /\ countBlocks' = countBlocks /\ walkNum' = walkNum
    BY <1>0, <1>1, <1>7, KeepsChain DEF Conflict, Moved, diskVars
  <2>2. walkNum > 0
    <3>1. walkNum \in 1..LastNumber
      BY <1>7 DEF Conflict, ServerForks, ServerHas
    <3> QED
      BY <1>0, <3>1, ServerFacts
  <2>3. StepOK'
    BY <1>0, <1>2, <2>1, <2>2 DEF StepOK
  <2>4. EmptyOK'
    BY <2>1 DEF EmptyOK, Running
  <2> QED
    BY <1>1, <2>1, <2>3, <2>4, MoveTo DEF Running
<1> QED
  BY <1>3, <1>4, <1>5, <1>6, <1>7

(***************************************************************************)
(* The steps that write.                                                   *)
(***************************************************************************)

\* An accepted block is a child of the last one, and becomes the last one.
LEMMA AcceptedLink ==
    ASSUME BcInv, OrphansNotNumbered, NEW h \in Hash, AddAccepted(h),
           countBlocks = 0 => prevHash[h] = Genesis
    PROVE  /\ BcInv' /\ OrphansNotNumbered'
           /\ h \notin DOMAIN blocks /\ prevHash[h] = getLastBlock
           /\ countBlocks' = countBlocks + 1
           /\ \A n \in 0..countBlocks : getBlock(n)' = getBlock(n)
           /\ hashes'[countBlocks + 2] = h
           /\ DOMAIN blocks' = DOMAIN blocks \cup {h}
<1> DEFINE bl == WithHeaders(blocks, {h})
<1>1. h \notin DOMAIN blocks
  BY DEF AddAccepted
<1>2. PICK p \in Paths : IsWalk(bl, h, p) /\ CalcAccepts(bl, hashes, lastStateBlock, p)
  BY DEF AddAccepted
<1>3. /\ Len(p) = 1
      /\ BaseNumber(bl, p) = IF prevHash[h] \in DOMAIN blocks THEN blocks[prevHash[h]] ELSE 0
  BY <1>1, <1>2, AddWalk
<1>4. PICK c \in Nat : c = countBlocks /\ Len(hashes) = c + 1 /\ hashes \in Seq(Block)
  BY InvFacts
<1>5. \A x \in DOMAIN blocks : blocks[x] \in 0..c /\ getBlock(blocks[x]) = x
  BY <1>4 DEF BcInv, NumbersAgree
<1> HIDE DEF bl
<1>6. BaseNumber(bl, p) \in Nat
  BY <1>3, <1>5
<1>7. BaseNumber(bl, p) = c
  <2>1. WalkNumber(bl, p, Len(p)) = Len(hashes)
    BY <1>2 DEF CalcAccepts, WalkFits
  <2>2. WalkNumber(bl, p, Len(p)) = BaseNumber(bl, p) + 1
    BY <1>3, <1>6 DEF WalkNumber
  <2> QED
    BY <1>4, <1>6, <2>1, <2>2
<1>8. prevHash[h] = getLastBlock
  <2>1. CASE c = 0
    BY <1>4, <2>1, InvFacts DEF getLastBlock
  <2>2. CASE c # 0
    <3>1. prevHash[h] \in DOMAIN blocks /\ blocks[prevHash[h]] = c
      BY <1>3, <1>7, <2>2
    <3> QED
      BY <1>4, <1>5, <3>1 DEF getLastBlock
  <2> QED
    BY <2>1, <2>2
<1>9. BcInv' /\ hashes' = Append(hashes, h)
  BY AcceptedInv
<1>10. h \in Block
  BY DEF Block
<1>11. /\ Len(hashes') = c + 2 /\ hashes'[c + 2] = h
       /\ \A n \in 0..c : hashes'[n + 1] = hashes[n + 1]
  BY <1>4, <1>9, <1>10
<1>12. countBlocks' = c + 1
  BY <1>4, <1>11 DEF countBlocks
<1>13. \A n \in 0..c : getBlock(n)' = getBlock(n)
  BY <1>11 DEF getBlock
<1>14. OrphansNotNumbered'
  <2>1. ASSUME NEW n \in 1..(c + 1) PROVE prevHash[hashes'[n + 1]] = hashes'[(n - 1) + 1]
    <3>1. CASE n = c + 1
      <4>1. hashes'[n + 1] = h /\ (n - 1) + 1 = c + 1 /\ c \in 0..c
        BY <1>11, <3>1
      <4>2. hashes'[(n - 1) + 1] = hashes[c + 1]
        BY <1>11, <4>1
      <4> QED
        BY <1>4, <1>8, <4>1, <4>2 DEF getLastBlock, getBlock
    <3>2. CASE n # c + 1
      <4>1. n \in 1..c /\ n \in 0..c /\ n - 1 \in 0..c
        BY <3>2
      <4>2. prevHash[hashes[n + 1]] = hashes[(n - 1) + 1]
        BY <1>4, <4>1 DEF OrphansNotNumbered, getBlock
      <4> QED
        BY <1>11, <4>1, <4>2
    <3> QED
      BY <3>1, <3>2
  <2> QED
    BY <1>12, <2>1 DEF OrphansNotNumbered, getBlock
<1>15. DOMAIN blocks' = DOMAIN blocks \cup {h}
  <2>1. blocks' = [x \in DOMAIN bl |->
                    IF \E i \in 1..Len(p) : p[i] = x
                    THEN WalkNumber(bl, p, CHOOSE i \in 1..Len(p) : p[i] = x)
                    ELSE bl[x]]
    BY <1>2 DEF CalcAccepts
  <2>2. DOMAIN bl = DOMAIN blocks \cup {h}
    BY DEF bl, WithHeaders
  <2> QED
    BY <2>1, <2>2
<1> QED
  BY <1>1, <1>4, <1>8, <1>9, <1>11, <1>12, <1>13, <1>14, <1>15

LEMMA SaveParts ==
    ASSUME SyncInv, Save
    PROVE  SyncParts'
<1>0. /\ BcInv /\ OrphansNotNumbered /\ countBlocks \in Nat /\ DiskTypeOK /\ ThreadTypeOK
      /\ StepOK /\ EmptyOK /\ FileOK /\ PlacesOK /\ TimelineOK /\ DbOK
  BY Given
<1>1. /\ pc = "save" /\ pc' = "add" /\ file' = Append(file, item) /\ itemPos' = Len(file) + 1
      /\ UNCHANGED <<bcVars, headers, metadata, timelineDb, confirmed, item, position,
                     timeline, gba, cursor, batch, walkNum, loadedFile>>
  BY DEF Save, SavedPosition, diskVars, sourceVars
<1>2. BcInv' /\ countBlocks' = countBlocks /\ (\A n : getBlock(n)' = getBlock(n))
      /\ DOMAIN blocks' = DOMAIN blocks
  BY <1>0, <1>1, KeepsChain
<1>3. item \in Item /\ (countBlocks = 0 => IsRoot(item))
  BY <1>0, <1>1 DEF StepOK, EmptyOK, Running
<1>4. PICK n \in Nat : n = Len(file)
  BY <1>0 DEF DiskTypeOK
<1>5. /\ Len(file') = n + 1 /\ file'[n + 1] = item /\ file' # <<>>
      /\ \A i \in 1..n : file'[i] = file[i]
  BY <1>0, <1>1, <1>3, <1>4 DEF DiskTypeOK, FileRecord
<1>6. ChainOK'
  BY <1>0, <1>2 DEF ChainOK, OrphansNotNumbered
<1>7. FileOK'
  <2>1. HeadOK(file)'
    <3>1. CASE n = 0
      <4>1. file = <<>>
        <5>1. file \in Seq(FileRecord) /\ Len(file) = 0
          BY <1>0, <1>4, <3>1 DEF DiskTypeOK
        <5> QED
          BY <5>1
      <4>2. countBlocks = 0
        BY <1>0, <1>1, <4>1 DEF FileOK, Running
      <4>3. file'[1] = item
        BY <1>5, <3>1
      <4> QED
        BY <1>3, <4>2, <4>3 DEF HeadOK, IsRoot
    <3>2. CASE n # 0
      <4>1. 1 \in 1..n /\ file # <<>>
        <5>1. 1 \in 1..n
          BY <3>2
        <5>2. Len(file) # 0
          BY <1>4, <3>2
        <5> QED
          BY <5>1, <5>2
      <4>2. file'[1] = file[1]
        BY <1>5, <4>1
      <4> QED
        BY <1>0, <4>1, <4>2 DEF FileOK, HeadOK, IsRoot
    <3> QED
      BY <3>1, <3>2
  <2>2. HeadOK(loadedFile)'
    BY <1>0, <1>1 DEF FileOK, HeadOK, IsRoot
  <2> QED
    BY <1>5, <2>1, <2>2 DEF FileOK
<1>8. PlacesOK'
  <2>1. \A h \in DOMAIN headers : headers[h] \in 1..n /\ file[headers[h]] = h
    BY <1>0, <1>1, <1>4 DEF PlacesOK
  <2>2. \A i \in 1..n : i \in 1..(n + 1)
    OBVIOUS
  <2>3. \A h \in DOMAIN headers : headers[h] \in 1..(n + 1) /\ file'[headers[h]] = h
    BY <1>5, <2>1, <2>2
  <2>4. itemPos' \in 1..(n + 1) /\ file'[itemPos'] = item'
    BY <1>1, <1>4, <1>5
  <2>5. \A k \in 1..countBlocks :
            getBlock(k) \in DOMAIN position /\ position[getBlock(k)] # 0
    BY <1>0, <1>1 DEF PlacesOK, Running
  <2> QED
    BY <1>1, <1>2, <1>5, <2>3, <2>4, <2>5 DEF PlacesOK
<1>9. StepOK'
  BY <1>1, <1>3 DEF StepOK
<1>10. EmptyOK'
  BY <1>1, <1>2, <1>3 DEF EmptyOK, IsRoot
<1>11. TimelineOK'
  BY <1>0, <1>1, <1>2 DEF TimelineOK, RangeOf, Running
<1>12. DbOK'
  BY <1>0, <1>1 DEF DbOK, TimelineSequence
<1> QED
  BY <1>6, <1>7, <1>8, <1>9, <1>10, <1>11, <1>12 DEF SyncParts

LEMMA AddParts ==
    ASSUME SyncInv, AddToChain
    PROVE  SyncParts'
<1>0. /\ BcInv /\ OrphansNotNumbered /\ countBlocks \in Nat /\ DiskTypeOK /\ ThreadTypeOK
      /\ StepOK /\ EmptyOK /\ FileOK /\ PlacesOK /\ TimelineOK /\ DbOK
  BY Given
<1>1. /\ pc = "add" /\ item \in Hash /\ AddAccepted(item)
      /\ position' = [h \in DOMAIN position \cup {item} |->
                        IF h = item THEN itemPos ELSE position[h]]
      /\ UNCHANGED <<file, headers, metadata, timelineDb, confirmed, walkNum, loadedFile>>
  BY DEF AddToChain, diskVars
<1>2. \/ item \in RangeOf(timeline) /\ pc' = "idle" /\ timeline' = timeline
      \/ /\ item \notin RangeOf(timeline) /\ pc' = "push" /\ timeline' = Append(timeline, item)
         /\ item' = item /\ itemPos' = itemPos
  BY DEF AddToChain, Retry, NextRound
<1>3. PICK c \in Nat : c = countBlocks
  BY <1>0
<1>4. c = 0 => prevHash[item] = Genesis
  BY <1>0, <1>1, <1>3 DEF EmptyOK, Running, IsRoot
<1>5. /\ BcInv' /\ OrphansNotNumbered'
      /\ item \notin DOMAIN blocks
      /\ countBlocks' = c + 1
      /\ \A n \in 0..c : getBlock(n)' = getBlock(n)
      /\ hashes'[c + 2] = item
      /\ DOMAIN blocks' = DOMAIN blocks \cup {item}
  BY <1>0, <1>1, <1>3, <1>4, AcceptedLink
<1>6. getBlock(c + 1)' = item /\ getLastBlock' = item
  <2>1. (c + 1) + 1 = c + 2
    OBVIOUS
  <2> QED
    BY <1>5, <2>1 DEF getBlock, getLastBlock
<1>7. \A n \in 1..(c + 1) : n = c + 1 \/ (n \in 0..c /\ n \in 1..c)
  OBVIOUS
<1>8. itemPos \in 1..Len(file) /\ file[itemPos] = item
  BY <1>0, <1>1 DEF PlacesOK
<1>9. ChainOK'
  BY <1>5 DEF ChainOK
<1>10. FileOK'
  <2>1. Len(file) # 0
    BY <1>0, <1>8 DEF DiskTypeOK
  <2>2. file # <<>>
    BY <2>1
  <2> QED
    BY <1>0, <1>1, <2>2 DEF FileOK, HeadOK, IsRoot
<1>11. PlacesOK'
  <2>1. \A h \in DOMAIN headers : headers[h] \in 1..Len(file) /\ file[headers[h]] = h
    BY <1>0, <1>1 DEF PlacesOK
  <2>2. \A n \in 1..c : getBlock(n) \in DOMAIN position /\ position[getBlock(n)] # 0
    BY <1>0, <1>1, <1>3 DEF PlacesOK, Running
  <2>3. itemPos # 0
    BY <1>8
  <2>4. ASSUME NEW n \in 1..(c + 1)
        PROVE  getBlock(n)' \in DOMAIN position' /\ position'[getBlock(n)'] # 0
    <3>1. CASE n = c + 1
      BY <1>1, <1>6, <2>3, <3>1
    <3>2. CASE n \in 1..c
      <4>1. getBlock(n)' = getBlock(n)
        BY <1>5, <1>7, <3>2
      <4> QED
        BY <1>1, <2>2, <2>3, <3>2, <4>1
    <3> QED
      BY <1>7, <3>1, <3>2
  <2>5. pc' \in {"add", "push", "store"} => itemPos' \in 1..Len(file) /\ file[itemPos'] = item'
    BY <1>2, <1>8
  <2> QED
    BY <1>1, <1>5, <2>1, <2>4, <2>5 DEF PlacesOK
<1>12. StepOK'
  BY <1>1, <1>2, <1>6 DEF StepOK, Item
<1>13. EmptyOK'
  BY <1>5 DEF EmptyOK
<1>14. TimelineOK'
  <2>0. pc \in Running
    BY <1>1 DEF Running
  <2>1. /\ \A n \in 1..c : getBlock(n) \in RangeOf(timeline)
        /\ \A i \in DOMAIN timeline :
            timeline[i] \in Hash => timeline[i] \in DOMAIN blocks
        /\ timeline # <<>> => timeline[1] \in Hash
        /\ \A k \in DOMAIN timelineDb :
            k + 1 \in DOMAIN timeline /\ timelineDb[k] = timeline[k + 1]
        /\ DOMAIN headers \subseteq DOMAIN blocks
    BY <1>0, <1>3, <2>0 DEF TimelineOK
  <2>2. CASE item \in RangeOf(timeline) /\ pc' = "idle" /\ timeline' = timeline
    <3>1. \A n \in 1..(c + 1) : getBlock(n)' \in RangeOf(timeline)
      BY <1>5, <1>6, <1>7, <2>1, <2>2
    <3> QED
      BY <1>1, <1>5, <2>1, <2>2, <3>1 DEF TimelineOK, RangeOf
  <2>3. CASE /\ item \notin RangeOf(timeline) /\ pc' = "push"
             /\ timeline' = Append(timeline, item)
             /\ item' = item /\ itemPos' = itemPos
    <3>1. PICK l \in Nat : l = Len(timeline) /\ DOMAIN timeline = 1..l
      BY <1>0 DEF ThreadTypeOK
    <3>2. /\ Len(timeline') = l + 1 /\ DOMAIN timeline' = 1..(l + 1)
          /\ timeline'[l + 1] = item
          /\ \A i \in 1..l : timeline'[i] = timeline[i]
      BY <1>0, <1>1, <2>3, <3>1 DEF ThreadTypeOK, Item
    <3>3. \A i \in 1..(l + 1) : i \in 1..l \/ i = l + 1
      OBVIOUS
    <3>4. \A n \in 1..(c + 1) : getBlock(n)' \in RangeOf(timeline')
      <4> SUFFICES ASSUME NEW n \in 1..(c + 1) PROVE \E i \in 1..(l + 1) : timeline'[i] = getBlock(n)'
        BY <3>2 DEF RangeOf
      <4>1. CASE n = c + 1
        BY <1>6, <3>2, <4>1
      <4>2. CASE n \in 1..c
        <5>1. PICK i \in 1..l : timeline[i] = getBlock(n)
          BY <2>1, <3>1, <4>2 DEF RangeOf
        <5>2. i \in 1..(l + 1) /\ getBlock(n)' = getBlock(n)
          BY <1>5, <1>7, <4>2
        <5> QED
          BY <3>2, <5>1, <5>2
      <4> QED
        BY <1>7, <4>1, <4>2
    <3>5. \A i \in 1..(l + 1) : timeline'[i] \in Hash => timeline'[i] \in DOMAIN blocks'
      BY <1>5, <2>1, <3>1, <3>2, <3>3
    <3>6. timeline'[1] \in Hash
      <4>1. CASE l = 0
        BY <1>1, <3>2, <4>1
      <4>2. CASE l # 0
        <5>1. 1 \in 1..l /\ timeline # <<>>
          BY <3>1, <4>2
        <5> QED
          BY <2>1, <3>2, <5>1
      <4> QED
        BY <4>1, <4>2
    <3>7. \A k \in DOMAIN timelineDb :
            k + 1 \in 1..(l + 1) /\ timelineDb[k] = timeline'[k + 1]
      BY <2>1, <3>1, <3>2
    <3>8. l \notin DOMAIN timelineDb
      BY <2>1, <3>1
    <3>9. timeline' # <<>> /\ timeline'[Len(timeline')] = item'
      BY <2>3, <3>2
    <3>10. TimelineKey' = l
      BY <3>2 DEF TimelineKey
    <3> QED
      BY <1>1, <1>5, <2>1, <2>3, <3>2, <3>4, <3>5, <3>6, <3>7, <3>8, <3>9, <3>10
         DEF TimelineOK
  <2> QED
    BY <1>2, <2>2, <2>3
<1>15. DbOK'
  BY <1>0, <1>1 DEF DbOK, TimelineSequence
<1> QED
  BY <1>9, <1>10, <1>11, <1>12, <1>13, <1>14, <1>15 DEF SyncParts

LEMMA AddSignParts ==
    ASSUME SyncInv, AddSign
    PROVE  SyncParts'
<1>0. /\ BcInv /\ OrphansNotNumbered /\ countBlocks \in Nat /\ DiskTypeOK /\ ThreadTypeOK
      /\ StepOK /\ EmptyOK /\ FileOK /\ PlacesOK /\ TimelineOK /\ DbOK
  BY Given
<1>1. /\ pc = "add" /\ item \in Sign
      /\ UNCHANGED <<bcVars, file, headers, metadata, timelineDb, confirmed, position,
                     walkNum, loadedFile>>
  BY DEF AddSign, diskVars
<1>2. item \notin Hash
  BY <1>1, SyncAssumption DEF Block
<1>3. countBlocks # 0
  BY <1>0, <1>1, <1>2 DEF EmptyOK, Running, IsRoot
<1>4. CASE item \in RangeOf(timeline)
  BY <1>1, <1>3, <1>4, RetryMoves DEF AddSign, Running, diskVars
<1>5. CASE item \notin RangeOf(timeline)
  <2>1. /\ timeline' = Append(timeline, item) /\ pc' = "store"
        /\ item' = item /\ itemPos' = itemPos
    BY <1>5 DEF AddSign
  <2>2. BcInv' /\ countBlocks' = countBlocks /\ (\A n : getBlock(n)' = getBlock(n))
        /\ DOMAIN blocks' = DOMAIN blocks
    BY <1>0, <1>1, KeepsChain
  <2>3. ChainOK'
    BY <1>0, <2>2 DEF ChainOK, OrphansNotNumbered
  <2>4. FileOK'
    BY <1>0, <1>1, <2>2 DEF FileOK, HeadOK, IsRoot, Running
  <2>5. PlacesOK'
    BY <1>0, <1>1, <2>1, <2>2 DEF PlacesOK, Running
  <2>6. StepOK'
    BY <1>1, <1>2, <2>1 DEF StepOK, Item
  <2>7. EmptyOK'
    BY <1>3, <2>2 DEF EmptyOK
  <2>8. TimelineOK'
    <3>0. pc \in Running
      BY <1>1 DEF Running
    <3>1. /\ \A n \in 1..countBlocks : getBlock(n) \in RangeOf(timeline)
          /\ \A i \in DOMAIN timeline :
              timeline[i] \in Hash => timeline[i] \in DOMAIN blocks
          /\ timeline # <<>> => timeline[1] \in Hash
          /\ \A k \in DOMAIN timelineDb :
              k + 1 \in DOMAIN timeline /\ timelineDb[k] = timeline[k + 1]
          /\ DOMAIN headers \subseteq DOMAIN blocks
      BY <1>0, <3>0 DEF TimelineOK
    <3>2. PICK l \in Nat : l = Len(timeline) /\ DOMAIN timeline = 1..l
      BY <1>0 DEF ThreadTypeOK
    <3>3. /\ Len(timeline') = l + 1 /\ DOMAIN timeline' = 1..(l + 1)
          /\ timeline'[l + 1] = item
          /\ \A i \in 1..l : timeline'[i] = timeline[i]
      BY <1>0, <1>1, <2>1, <3>2 DEF ThreadTypeOK, Item
    <3>4. \A i \in 1..(l + 1) : i \in 1..l \/ i = l + 1
      OBVIOUS
    <3>5. \A n \in 1..countBlocks : getBlock(n)' \in RangeOf(timeline')
      <4> SUFFICES ASSUME NEW n \in 1..countBlocks
                   PROVE  \E i \in 1..(l + 1) : timeline'[i] = getBlock(n)'
        BY <3>3 DEF RangeOf
      <4>1. PICK i \in 1..l : timeline[i] = getBlock(n)
        BY <3>1, <3>2 DEF RangeOf
      <4>2. i \in 1..(l + 1)
        OBVIOUS
      <4> QED
        BY <2>2, <3>3, <4>1, <4>2
    <3>6. \A i \in 1..(l + 1) : timeline'[i] \in Hash => timeline'[i] \in DOMAIN blocks'
      BY <1>2, <2>2, <3>1, <3>2, <3>3, <3>4
    <3>7. l # 0
      <4>1. 1 \in 1..countBlocks
        BY <1>0, <1>3
      <4>2. getBlock(1) \in RangeOf(timeline)
        BY <3>1, <4>1
      <4> QED
        BY <3>2, <4>2 DEF RangeOf
    <3>8. timeline'[1] \in Hash
      <4>1. 1 \in 1..l /\ timeline # <<>>
        BY <3>2, <3>7
      <4> QED
        BY <3>1, <3>3, <4>1
    <3>9. \A k \in DOMAIN timelineDb :
            k + 1 \in 1..(l + 1) /\ timelineDb[k] = timeline'[k + 1]
      BY <3>1, <3>2, <3>3
    <3>10. l \notin DOMAIN timelineDb
      BY <3>1, <3>2
    <3>11. timeline' # <<>> /\ timeline'[Len(timeline')] = item'
      BY <2>1, <3>3
    <3>12. TimelineKey' = l
      BY <3>3 DEF TimelineKey
    <3> QED
      BY <1>1, <2>1, <2>2, <3>1, <3>3, <3>5, <3>6, <3>8, <3>9, <3>10, <3>11, <3>12
         DEF TimelineOK
  <2>9. DbOK'
    BY <1>0, <1>1 DEF DbOK, TimelineSequence
  <2> QED
    BY <2>3, <2>4, <2>5, <2>6, <2>7, <2>8, <2>9 DEF SyncParts
<1> QED
  BY <1>4, <1>5

\* In the list each block has its height as number.
LEMMA ListHeights ==
    ASSUME BcInv, OrphansNotNumbered
    PROVE  /\ \A n \in 1..countBlocks : getBlock(n) \in Hash /\ height[getBlock(n)] = n
           /\ \A x \in DOMAIN blocks \cap Hash : \E n \in 1..countBlocks : x = getBlock(n)
<1>1. PICK c \in Nat : c = countBlocks
  BY InvFacts
<1>2. \A n \in 1..c : getBlock(n) \in Hash
  BY <1>1, InvFacts
<1>3. \A n \in 1..c : height[getBlock(n)] = n
  <2>1. CASE c = 0
    BY <2>1
  <2>2. CASE c # 0
    <3> DEFINE s == [n \in 1..c |-> getBlock(n)]
    <3>1. s \in [1..c -> Hash]
      BY <1>2
    <3>2. prevHash[s[1]] = Genesis
      <4>1. 1 \in 1..c /\ 1 - 1 = 0
        BY <2>2
      <4> QED
        BY <1>1, <4>1, InvFacts DEF OrphansNotNumbered
    <3>3. \A i \in 2..c : prevHash[s[i]] = s[i - 1]
      BY <1>1 DEF OrphansNotNumbered
    <3>4. \A n \in 1..c : s[n] = getBlock(n)
      OBVIOUS
    <3> HIDE DEF s
    <3>5. IsChain(s, c)
      BY <3>1, <3>2, <3>3 DEF IsChain
    <3>6. \A n \in 1..c : height[s[n]] = n
      BY <2>2, <3>5, ChainHeights
    <3> QED
      BY <3>4, <3>6
  <2> QED
    BY <2>1, <2>2
<1>4. ASSUME NEW x \in DOMAIN blocks, x \in Hash PROVE \E n \in 1..c : x = getBlock(n)
  <2>1. PICK n \in 0..c : x = getBlock(n)
    BY <1>1, InvFacts
  <2>2. n # 0
    <3>1. getBlock(0) \notin Hash
      BY InvFacts, HashAssumption
    <3> QED
      BY <1>4, <2>1, <3>1
  <2> QED
    BY <2>1, <2>2
<1> QED
  BY <1>1, <1>2, <1>3, <1>4

LEMMA StoreParts ==
    ASSUME SyncInv, Store
    PROVE  SyncParts'
<1>0. /\ BcInv /\ OrphansNotNumbered /\ countBlocks \in Nat /\ DiskTypeOK /\ ThreadTypeOK
      /\ StepOK /\ EmptyOK /\ FileOK /\ PlacesOK /\ TimelineOK /\ DbOK
  BY Given
<1>1. /\ pc = "store" /\ pc' = "confirm"
      /\ timelineDb' = [k \in DOMAIN timelineDb \cup {TimelineKey} |->
                            IF k = TimelineKey THEN item ELSE timelineDb[k]]
      /\ UNCHANGED <<bcVars, file, confirmed, item, itemPos, position, timeline,
                     gba, cursor, batch, walkNum, loadedFile>>
  BY DEF Store, sourceVars
<1>2. \/ /\ item \in Hash
         /\ headers' = [h \in DOMAIN headers \cup {item} |->
                            IF h = item THEN itemPos ELSE headers[h]]
         /\ metadata' = NewMetadata(item)
      \/ item \notin Hash /\ headers' = headers /\ metadata' = metadata
  BY DEF Store
<1>3. PICK D : D = DOMAIN headers'
  OBVIOUS
<1>4. D = DOMAIN headers \cup ({item} \cap Hash)
  BY <1>2, <1>3
<1>5. BcInv' /\ countBlocks' = countBlocks /\ (\A n : getBlock(n)' = getBlock(n))
      /\ DOMAIN blocks' = DOMAIN blocks
  BY <1>0, <1>1, KeepsChain
<1>6. pc \in Running
  BY <1>1 DEF Running
<1>7. countBlocks # 0
  BY <1>0, <1>1, <1>6 DEF EmptyOK
<1>8. /\ \A n \in 1..countBlocks : getBlock(n) \in RangeOf(timeline)
      /\ \A i \in DOMAIN timeline :
          timeline[i] \in Hash => timeline[i] \in DOMAIN blocks
      /\ timeline # <<>> /\ timeline[1] \in Hash
      /\ \A k \in DOMAIN timelineDb :
          k + 1 \in DOMAIN timeline /\ timelineDb[k] = timeline[k + 1]
      /\ timeline[Len(timeline)] = item
      /\ TimelineKey \notin DOMAIN timelineDb
      /\ DOMAIN headers \subseteq DOMAIN blocks
  BY <1>0, <1>1, <1>6 DEF TimelineOK
<1>9. PICK m \in Nat : /\ Len(timeline) = m + 1 /\ DOMAIN timeline = 1..(m + 1)
                       /\ TimelineKey = m
  <2>1. Len(timeline) \in Nat \ {0} /\ DOMAIN timeline = 1..Len(timeline)
    BY <1>0, <1>8, EmptySeq DEF ThreadTypeOK
  <2>2. Len(timeline) - 1 \in Nat /\ Len(timeline) = (Len(timeline) - 1) + 1
    BY <2>1
  <2> QED
    BY <2>1, <2>2 DEF TimelineKey
<1>10. PICK K : K = DOMAIN timelineDb'
  OBVIOUS
<1>11. /\ K = DOMAIN timelineDb \cup {m} /\ m \in K
       /\ \A k \in K : k + 1 \in 1..(m + 1) /\ timelineDb'[k] = timeline[k + 1]
  <2>1. K = DOMAIN timelineDb \cup {m}
    BY <1>1, <1>9, <1>10
  <2>2. timelineDb'[m] = timeline[m + 1] /\ m + 1 \in 1..(m + 1)
    BY <1>1, <1>8, <1>9
  <2>3. \A k \in DOMAIN timelineDb : timelineDb'[k] = timelineDb[k]
    BY <1>1, <1>8
  <2> QED
    BY <1>8, <1>9, <2>1, <2>2, <2>3
<1>12. item \in Hash => item = getLastBlock
  BY <1>0, <1>1 DEF StepOK
<1>13. PICK c \in Nat : c = countBlocks /\ c # 0 /\ c \in 1..c
  BY <1>0, <1>7
<1>14. /\ \A n \in 1..c : getBlock(n) \in Hash /\ height[getBlock(n)] = n
       /\ \A x \in DOMAIN blocks \cap Hash : \E n \in 1..c : x = getBlock(n)
  BY <1>0, <1>13, ListHeights
<1>15. \A h \in D : \E n \in 1..c : h = getBlock(n)
  <2>1. DOMAIN headers \subseteq Hash
    BY <1>0 DEF DiskTypeOK, IsMap
  <2>2. item \in Hash => item = getBlock(c)
    BY <1>12, <1>13 DEF getLastBlock
  <2> QED
    BY <1>4, <1>8, <1>13, <1>14, <2>1, <2>2
<1>16. \A g, h \in D : height[g] = height[h] => g = h
  BY <1>14, <1>15
<1>17. ChainOK' /\ FileOK'
  BY <1>0, <1>1, <1>5, <1>6 DEF ChainOK, OrphansNotNumbered, FileOK, HeadOK, IsRoot
<1>18. PlacesOK'
  <2>1. \A h \in DOMAIN headers : headers[h] \in 1..Len(file) /\ file[headers[h]] = h
    BY <1>0, <1>1 DEF PlacesOK
  <2>2. itemPos \in 1..Len(file) /\ file[itemPos] = item
    BY <1>0, <1>1 DEF PlacesOK
  <2>3. \A h \in D : headers'[h] \in 1..Len(file) /\ file[headers'[h]] = h
    BY <1>2, <1>3, <2>1, <2>2
  <2>4. \A n \in 1..countBlocks :
            getBlock(n) \in DOMAIN position /\ position[getBlock(n)] # 0
    BY <1>0, <1>6 DEF PlacesOK
  <2> QED
    BY <1>1, <1>3, <1>5, <2>3, <2>4 DEF PlacesOK
<1>19. StepOK' /\ EmptyOK'
  BY <1>1, <1>5, <1>7 DEF StepOK, EmptyOK
<1>20. TimelineOK'
  <2>1. D \subseteq DOMAIN blocks
    <3>1. \A n \in 1..c : getBlock(n) \in DOMAIN blocks
      <4>1. \A n \in 1..c : n \in 0..countBlocks
        BY <1>13
      <4>2. \A n \in 0..countBlocks : getBlock(n) \in DOMAIN blocks
        BY <1>0 DEF BcInv, NumbersAgree
      <4> QED
        BY <4>1, <4>2, Zenon
    <3> QED
      BY <1>15, <3>1
  <2> QED
    BY <1>1, <1>3, <1>5, <1>8, <1>9, <1>10, <1>11, <2>1 DEF TimelineOK, RangeOf
<1>21. DbOK'
  <2>1. IsFiniteSet(K)
    BY <1>0, <1>11, FS_AddElement DEF DbOK
  <2>2. \A k \in K : timelineDb'[k] \in Hash => timelineDb'[k] \in D
    <3>1. \A k \in DOMAIN timelineDb : timelineDb'[k] = timelineDb[k]
      BY <1>1, <1>8
    <3>2. timelineDb'[m] = item
      BY <1>1, <1>9
    <3> QED
      BY <1>0, <1>4, <1>11, <3>1, <3>2 DEF DbOK
  <2>3. \A h \in D : \E k \in K : timelineDb'[k] = h
    <3>1. \A k \in DOMAIN timelineDb : timelineDb'[k] = timelineDb[k] /\ k \in K
      BY <1>1, <1>8, <1>11
    <3>2. timelineDb'[m] = item /\ m \in K
      BY <1>1, <1>9, <1>11
    <3>3. \A h \in DOMAIN headers : \E k \in DOMAIN timelineDb : timelineDb[k] = h
      BY <1>0 DEF DbOK
    <3>4. \A h \in DOMAIN headers : \E k \in K : timelineDb'[k] = h
      BY <3>1, <3>3, Zenon
    <3> QED
      BY <1>4, <3>2, <3>4, Zenon
  <2>4. item \in Hash => metadata' = item
    <3> SUFFICES ASSUME item \in Hash, metadata # NoHash, prevHash[metadata] = prevHash[item]
                 PROVE  metadata = item
      BY <1>2 DEF NewMetadata
    <3>1. metadata \in D /\ metadata \in Hash /\ item \in D
      BY <1>0, <1>4 DEF DbOK, DiskTypeOK
    <3>2. height[metadata] = height[item]
      BY <3>1, HeightAssumption
    <3> QED
      BY <1>16, <3>1, <3>2
  <2>5. item \in Hash => \A h \in D : height[h] <= height[item]
    <3>1. item \in Hash => height[item] = c
      BY <1>12, <1>13, <1>14 DEF getLastBlock
    <3> QED
      BY <1>14, <1>15, <3>1
  <2>6. metadata' = NoHash => D = {}
    BY <1>0, <1>2, <1>4, <2>4, SyncAssumption DEF DbOK, Block
  <2>7. metadata' # NoHash => metadata' \in D /\ \A h \in D : height[h] <= height[metadata']
    BY <1>0, <1>2, <1>4, <2>4, <2>5 DEF DbOK
  <2>8. ASSUME K = 0..(Cardinality(K) - 1)
        PROVE  \A h \in D : prevHash[h] = Genesis \/ prevHash[h] \in D
    <3>1. PICK q \in Nat : q = Cardinality(K)
      BY <2>1, FS_CardinalityType
    <3>2. \A i \in 1..(m + 1) : i - 1 \in K
      <4>1. m \in 0..(q - 1)
        BY <1>11, <2>8, <3>1
      <4>2. \A i \in 1..(m + 1) : i - 1 \in 0..(q - 1)
        BY <4>1
      <4> QED
        BY <2>8, <3>1, <4>2
    <3> SUFFICES ASSUME NEW h \in D PROVE prevHash[h] = Genesis \/ prevHash[h] \in D
      OBVIOUS
    <3>3. PICK n \in 1..c : h = getBlock(n)
      BY <1>15
    <3>4. prevHash[h] = getBlock(n - 1)
      BY <1>0, <1>13, <3>3 DEF OrphansNotNumbered
    <3>5. CASE n = 1
      <4>1. n - 1 = 0
        BY <3>5
      <4> QED
        BY <1>0, <3>4, <4>1, InvFacts
    <3>6. CASE n # 1
      <4>1. n - 1 \in 1..c
        BY <3>6
      <4>2. PICK i \in 1..(m + 1) : timeline[i] = getBlock(n - 1)
        BY <1>8, <1>9, <1>13, <4>1 DEF RangeOf
      <4>3. i - 1 \in K /\ (i - 1) + 1 = i
        BY <3>2
      <4>4. timelineDb'[i - 1] = getBlock(n - 1)
        BY <1>11, <4>2, <4>3
      <4> QED
        BY <1>14, <2>2, <3>4, <4>1, <4>3, <4>4
    <3> QED
      BY <3>5, <3>6
  <2>9. 0 \in K => timelineDb'[0] \in Hash
    <3>1. 0 + 1 = 1
      OBVIOUS
    <3> QED
      BY <1>8, <1>11, <3>1
  <2>10. TimelineSequence' => K = 0..(Cardinality(K) - 1)
    BY <1>10 DEF TimelineSequence
  <2> QED
    BY <1>3, <1>10, <1>11, <1>16, <2>1, <2>2, <2>3, <2>6, <2>7, <2>8, <2>9, <2>10
       DEF DbOK
<1> QED
  BY <1>17, <1>18, <1>19, <1>20, <1>21 DEF SyncParts

LEMMA ConfirmParts ==
    ASSUME SyncInv, Confirm
    PROVE  SyncParts'
<1>0. /\ BcInv /\ countBlocks \in Nat /\ ThreadTypeOK
      /\ StepOK /\ EmptyOK /\ TimelineOK /\ DbOK
  BY Given
<1>1. /\ pc = "confirm" /\ pc' = "idle"
      /\ UNCHANGED <<bcVars, file, headers, metadata, timelineDb, position, timeline,
                     gba, cursor, batch, walkNum, loadedFile>>
  BY DEF Confirm, NextRound, sourceVars
<1>2. Moved /\ countBlocks' = countBlocks
  BY <1>0, <1>1, KeepsChain DEF Moved
<1>3. ChainOK' /\ FileOK' /\ PlacesOK' /\ TimelineOK'
  BY <1>1, <1>2, MovedParts DEF Running
<1>4. countBlocks # 0 /\ DOMAIN timelineDb # {}
  BY <1>0, <1>1 DEF EmptyOK, TimelineOK, Running
<1>5. StepOK' /\ EmptyOK'
  BY <1>1, <1>2, <1>4 DEF StepOK, EmptyOK
<1>6. DbOK'
  BY <1>0, <1>1, <1>4 DEF DbOK, TimelineSequence
<1> QED
  BY <1>3, <1>5, <1>6 DEF SyncParts

(***************************************************************************)
(* The start and the end of a process, and the recovery from a fork.       *)
(***************************************************************************)

LEMMA EmptyNext ==
    ASSUME LoadEmpty
    PROVE  /\ BcInv' /\ OrphansNotNumbered' /\ countBlocks' = 0
           /\ DOMAIN blocks' = {Genesis}
<1>1. /\ hashes' = <<Genesis>> /\ blocks' = [x \in {Genesis} |-> 0]
      /\ lastStateBlock' = 0
  BY DEF LoadEmpty
<1>2. hashes' \in Seq(Block) /\ Len(hashes') = 0 + 1 /\ hashes'[1] = Genesis
  BY <1>1 DEF Block
<1>3. DOMAIN blocks' = {hashes'[n + 1] : n \in 0..0} /\ DOMAIN blocks' = {Genesis}
  BY <1>1
<1>4. /\ \A n \in 1..0 : hashes'[n + 1] \in Hash
      /\ \A n \in 2..0 : prevHash[hashes'[n + 1]] = hashes'[n]
      /\ \A n \in 1..0 : height[hashes'[n + 1]] = height[hashes'[2]] + n - 1
      /\ \A n \in 0..0 : blocks'[hashes'[n + 1]] = n
      /\ blocks' = [x \in DOMAIN blocks' |-> blocks'[x]]
      /\ lastStateBlock' \in 0..0
  BY <1>1
<1>5. 0 \in Nat
  OBVIOUS
<1>6. BcInv'
  BY <1>2, <1>3, <1>4, <1>5, NextInv
<1>7. countBlocks' = 0
  BY <1>2 DEF countBlocks
<1> QED
  BY <1>3, <1>6, <1>7 DEF OrphansNotNumbered

LEMMA StartParts ==
    ASSUME SyncInv, Start
    PROVE  SyncParts'
<1>0. DiskTypeOK /\ ThreadTypeOK /\ StepOK /\ FileOK /\ PlacesOK /\ DbOK
  BY Given
<1>1. /\ pc = "off" /\ pc' = "replay" /\ LoadDb /\ TimelineSequence
      /\ timeline' = [i \in 1..Cardinality(DOMAIN timelineDb) |-> timelineDb[i - 1]]
      /\ position' = headers /\ cursor' = confirmed
      /\ UNCHANGED <<file, headers, metadata, timelineDb, confirmed, batch, loadedFile>>
  BY DEF Start, diskVars
<1>2. PICK K, D : K = DOMAIN timelineDb /\ D = DOMAIN headers
  BY Zenon
<1>3. PICK q \in Nat :
        /\ K = 0..(q - 1)
        /\ timeline' = [i \in 1..q |-> timelineDb[i - 1]]
  <2>1. Cardinality(K) \in Nat
    BY <1>0, <1>2, FS_CardinalityType DEF DbOK
  <2> QED
    BY <1>1, <1>2, <2>1 DEF TimelineSequence
<1>4. D \subseteq Hash /\ metadata \in Hash \cup {NoHash}
  BY <1>0, <1>2 DEF DiskTypeOK, IsMap
<1>5. /\ \A k \in K : timelineDb[k] \in Hash => timelineDb[k] \in D
      /\ \A h \in D : \E k \in K : timelineDb[k] = h
      /\ metadata = NoHash => D = {}
      /\ metadata # NoHash => metadata \in D /\ \A h \in D : height[h] <= height[metadata]
      /\ \A g, h \in D : height[g] = height[h] => g = h
      /\ \A h \in D : prevHash[h] = Genesis \/ prevHash[h] \in D
      /\ 0 \in K => timelineDb[0] \in Hash
      /\ K = {} => confirmed = 1
  BY <1>0, <1>1, <1>2 DEF DbOK
<1>6. /\ BcInv' /\ OrphansNotNumbered'
      /\ DOMAIN blocks' = D \cup {Genesis}
      /\ countBlocks' = 0 => D = {} /\ confirmed = 1
  <2>1. CASE metadata = NoHash
    <3>1. LoadEmpty
      BY <1>1, <2>1 DEF LoadDb
    <3>2. D = {}
      BY <1>5, <2>1
    <3>3. K = {}
      <4>1. q # 0 => 0 \in K
        BY <1>3
      <4>2. 0 \notin K
        BY <1>5, <3>2
      <4> QED
        BY <1>3, <4>1, <4>2
    <3> QED
      BY <1>5, <3>1, <3>2, <3>3, EmptyNext
  <2>2. CASE metadata # NoHash
    <3>1. Load(D, metadata)
      BY <1>1, <1>2, <2>2 DEF LoadDb
    <3>2. metadata \in D /\ height[metadata] \in Nat \ {0}
      BY <1>4, <1>5, <2>2, AncestorHeights
    <3>3. /\ BcInv' /\ OrphansNotNumbered'
          /\ DOMAIN blocks' = D \cup {Genesis}
          /\ countBlocks' = height[metadata]
      BY <1>4, <1>5, <2>2, <3>1, <3>2, LoadClosed
    <3> QED
      BY <3>2, <3>3
  <2> QED
    BY <2>1, <2>2
<1>7. /\ countBlocks' \in Nat
      /\ \A n \in 1..countBlocks' : getBlock(n)' \in D
  <2>1. /\ countBlocks' \in Nat
        /\ \A n \in 1..countBlocks' : hashes'[n + 1] \in DOMAIN blocks' \cap Hash
    BY <1>6, KnownNext
  <2> QED
    BY <1>6, <2>1, HashAssumption DEF getBlock
<1>8. \A h \in D : headers[h] \in 1..Len(file) /\ file[headers[h]] = h
  BY <1>0, <1>1, <1>2 DEF PlacesOK
<1>9. ChainOK'
  BY <1>6 DEF ChainOK
<1>10. FileOK'
  <2>1. countBlocks' > 0 => file # <<>>
    <3> SUFFICES ASSUME countBlocks' > 0 PROVE Len(file) # 0
      OBVIOUS
    <3>1. 1 \in 1..countBlocks'
      BY <1>7
    <3>2. PICK h \in D : TRUE
      BY <1>7, <3>1
    <3> QED
      BY <1>0, <1>8, <3>2 DEF DiskTypeOK
  <2> QED
    BY <1>0, <1>1, <2>1 DEF FileOK, HeadOK, IsRoot
<1>11. PlacesOK'
  <2>1. \A h \in D : headers[h] # 0
    BY <1>8
  <2> QED
    BY <1>1, <1>2, <1>7, <1>8, <2>1 DEF PlacesOK
<1>12. StepOK'
  BY <1>0, <1>1 DEF StepOK
<1>13. EmptyOK'
  BY <1>1, <1>6 DEF EmptyOK
<1>14. TimelineOK'
  <2>1. /\ DOMAIN timeline' = 1..q /\ Len(timeline') = q
        /\ \A i \in 1..q : timeline'[i] = timelineDb[i - 1]
    BY <1>3
  <2>2. \A k \in K : k + 1 \in 1..q /\ (k + 1) - 1 = k /\ timeline'[k + 1] = timelineDb[k]
    BY <1>3, <2>1
  <2>3. \A i \in 1..q : i - 1 \in K
    BY <1>3
  <2>4. \A n \in 1..countBlocks' : getBlock(n)' \in RangeOf(timeline')
    <3> SUFFICES ASSUME NEW h \in D PROVE \E i \in 1..q : timeline'[i] = h
      BY <1>7, <2>1 DEF RangeOf
    <3>1. PICK k \in K : timelineDb[k] = h
      BY <1>5
    <3> QED
      BY <2>2, <3>1
  <2>5. \A i \in 1..q : timeline'[i] \in Hash => timeline'[i] \in DOMAIN blocks'
    BY <1>5, <1>6, <2>1, <2>3
  <2>6. timeline' # <<>> => timeline'[1] \in Hash
    <3>1. q = 0 => timeline' = <<>>
      BY <1>3
    <3>2. q # 0 => 1 \in 1..q /\ 1 - 1 = 0
      OBVIOUS
    <3> QED
      BY <1>5, <2>1, <2>3, <3>1, <3>2
  <2> QED
    BY <1>1, <1>2, <1>6, <2>1, <2>2, <2>4, <2>5, <2>6 DEF TimelineOK
<1>15. DbOK'
  BY <1>0, <1>1 DEF DbOK, TimelineSequence
<1> QED
  BY <1>9, <1>10, <1>11, <1>12, <1>13, <1>14, <1>15 DEF SyncParts

\* A process that ends leaves what is on disk.
LEMMA ExitParts ==
    ASSUME SyncInv, Exit, HeadOK(file'), DbOK',
           \A h \in DOMAIN headers' : headers'[h] \in 1..Len(file') /\ file'[headers'[h]] = h
    PROVE  SyncParts'
<1>1. pc' = "off" /\ LoadEmpty /\ batch' = <<>> /\ loadedFile' = <<>>
  BY DEF Exit, NoProcess
<1>2. ChainOK'
  BY <1>1, EmptyNext DEF ChainOK
<1>3. FileOK'
  BY <1>1 DEF FileOK, HeadOK, IsRoot, Running
<1>4. PlacesOK'
  BY <1>1 DEF PlacesOK, Running
<1>5. StepOK' /\ EmptyOK' /\ TimelineOK'
  BY <1>1 DEF StepOK, EmptyOK, TimelineOK, Running
<1> QED
  BY <1>2, <1>3, <1>4, <1>5 DEF SyncParts

LEMMA TruncateParts ==
    ASSUME SyncInv, Truncate
    PROVE  SyncParts'
<1>0. /\ BcInv /\ OrphansNotNumbered /\ countBlocks \in Nat /\ DiskTypeOK /\ ThreadTypeOK
      /\ StepOK /\ FileOK /\ PlacesOK /\ DbOK
  BY Given
<1>1. PICK pos : pos = position[getBlock(walkNum)]
  OBVIOUS
<1>2. /\ pc = "truncate" /\ pc' = "dropDb"
      /\ file' = IF pos <= Len(file) THEN SubSeq(file, 1, pos - 1)
                 ELSE IF pos = Len(file) + 1 THEN file ELSE Append(file, RawDump)
      /\ UNCHANGED <<bcVars, headers, metadata, timelineDb, confirmed, loadedFile>>
  BY <1>1 DEF Truncate, diskVars
<1>3. pos \in Nat \ {0}
  <2>1. walkNum \in 1..countBlocks
    BY <1>0, <1>2 DEF StepOK, ThreadTypeOK
  <2>2. getBlock(walkNum) \in DOMAIN position /\ position[getBlock(walkNum)] # 0
    BY <1>0, <1>2, <2>1 DEF PlacesOK
  <2> QED
    BY <1>0, <1>1, <2>2 DEF ThreadTypeOK, IsMap
<1>4. file \in Seq(FileRecord) /\ Len(file) \in Nat
  BY <1>0 DEF DiskTypeOK
<1>5. HeadOK(file) /\ HeadOK(loadedFile)
  BY <1>0 DEF FileOK
<1>6. HeadOK(file')
  <2>1. CASE pos <= Len(file)
    <3>1. file' = SubSeq(file, 1, pos - 1)
      BY <1>2, <2>1
    <3>2. CASE pos = 1
      <4>1. file' = <<>>
        BY <1>4, <2>1, <3>1, <3>2
      <4> QED
        BY <4>1 DEF HeadOK
    <3>3. CASE pos # 1
      <4>1. file'[1] = file[1] /\ file # <<>>
        BY <1>3, <1>4, <2>1, <3>1, <3>3
      <4> QED
        BY <1>5, <4>1 DEF HeadOK
    <3> QED
      BY <3>2, <3>3
  <2>2. CASE file' = file
    BY <1>5, <2>2
  <2>3. CASE file' = Append(file, RawDump)
    <3>1. CASE file = <<>>
      <4>1. file'[1] = RawDump
        BY <2>3, <3>1
      <4> QED
        BY <4>1 DEF HeadOK
    <3>2. CASE file # <<>>
      <4>1. file'[1] = file[1]
        BY <1>4, <2>3, <3>2
      <4> QED
        BY <1>5, <3>2, <4>1 DEF HeadOK
    <3> QED
      BY <3>1, <3>2
  <2> QED
    BY <1>2, <2>1, <2>2, <2>3
<1>7. BcInv' /\ hashes' = hashes /\ countBlocks' = countBlocks /\ \A n : getBlock(n)' = getBlock(n)
  BY <1>0, <1>2, KeepsChain
<1>8. ChainOK'
  BY <1>0, <1>7 DEF ChainOK, OrphansNotNumbered
<1>9. FileOK'
  BY <1>2, <1>5, <1>6 DEF FileOK, Running
<1>10. PlacesOK' /\ StepOK' /\ EmptyOK' /\ TimelineOK'
  BY <1>2 DEF PlacesOK, StepOK, EmptyOK, TimelineOK, Running
<1>11. DbOK'
  BY <1>0, <1>2 DEF DbOK, TimelineSequence
<1> QED
  BY <1>8, <1>9, <1>10, <1>11 DEF SyncParts

\* An empty database can be loaded, to an empty chain.
LEMMA DropDbParts ==
    ASSUME SyncInv, DropDb
    PROVE  SyncParts'
<1>0. BcInv /\ OrphansNotNumbered /\ FileOK
  BY Given
<1>1. /\ pc = "dropDb" /\ pc' = "rewrite"
      /\ headers' = [h \in {} |-> 0] /\ metadata' = NoHash
      /\ timelineDb' = [k \in {} |-> NoHash] /\ confirmed' = 1
      /\ UNCHANGED <<bcVars, file, loadedFile>>
  BY DEF DropDb
<1>2. DOMAIN headers' = {} /\ DOMAIN timelineDb' = {}
  BY <1>1
<1>3. BcInv' /\ hashes' = hashes /\ countBlocks' = countBlocks /\ \A n : getBlock(n)' = getBlock(n)
  BY <1>0, <1>1, KeepsChain
<1>4. ChainOK'
  BY <1>0, <1>3 DEF ChainOK, OrphansNotNumbered
<1>5. FileOK'
  BY <1>0, <1>1 DEF FileOK, HeadOK, IsRoot, Running
<1>6. PlacesOK' /\ StepOK' /\ EmptyOK' /\ TimelineOK'
  BY <1>1, <1>2 DEF PlacesOK, StepOK, EmptyOK, TimelineOK, Running
<1>7. DbOK'
  <2>1. IsFiniteSet(DOMAIN timelineDb')
    BY <1>2, FS_EmptySet
  <2> QED
    BY <1>1, <1>2, <2>1 DEF DbOK
<1> QED
  BY <1>4, <1>5, <1>6, <1>7 DEF SyncParts

LEMMA RewriteParts ==
    ASSUME SyncInv, Rewrite
    PROVE  SyncParts'
<1>0. BcInv /\ OrphansNotNumbered /\ FileOK /\ StepOK /\ DbOK
  BY Given
<1>1. /\ pc = "rewrite" /\ pc' = "append" /\ loadedFile' = file /\ file' = <<>>
      /\ UNCHANGED <<bcVars, headers, metadata, timelineDb, confirmed>>
  BY DEF Rewrite, diskVars
<1>2. DOMAIN headers' = {}
  BY <1>0, <1>1 DEF StepOK
<1>3. BcInv' /\ hashes' = hashes /\ countBlocks' = countBlocks /\ \A n : getBlock(n)' = getBlock(n)
  BY <1>0, <1>1, KeepsChain
<1>4. ChainOK'
  BY <1>0, <1>3 DEF ChainOK, OrphansNotNumbered
<1>5. FileOK'
  BY <1>0, <1>1 DEF FileOK, HeadOK, IsRoot, Running
<1>6. PlacesOK' /\ StepOK' /\ EmptyOK' /\ TimelineOK'
  BY <1>1, <1>2 DEF PlacesOK, StepOK, EmptyOK, TimelineOK, Running
<1>7. DbOK'
  BY <1>0, <1>1 DEF DbOK, TimelineSequence
<1> QED
  BY <1>4, <1>5, <1>6, <1>7 DEF SyncParts

LEMMA AppendParts ==
    ASSUME SyncInv, AppendServerBlock
    PROVE  SyncParts'
<1>0. ThreadTypeOK /\ FileOK /\ StepOK /\ DbOK
  BY Given
<1>1. /\ pc = "append" /\ Exit /\ file' = Append(loadedFile, RawDump)
      /\ UNCHANGED <<headers, metadata, timelineDb, confirmed>>
  BY DEF AppendServerBlock, diskVars
<1>2. DOMAIN headers' = {}
  BY <1>0, <1>1 DEF StepOK
<1>3. loadedFile \in Seq(FileRecord) /\ HeadOK(loadedFile)
  BY <1>0 DEF ThreadTypeOK, FileOK
<1>4. HeadOK(file')
  <2>1. CASE loadedFile = <<>>
    <3>1. file'[1] = RawDump
      BY <1>1, <2>1
    <3> QED
      BY <3>1 DEF HeadOK
  <2>2. CASE loadedFile # <<>>
    <3>1. file'[1] = loadedFile[1]
      BY <1>1, <1>3, <2>2
    <3> QED
      BY <1>3, <2>2, <3>1 DEF HeadOK
  <2> QED
    BY <2>1, <2>2
<1>5. DbOK'
  BY <1>0, <1>1 DEF DbOK, TimelineSequence
<1> QED
  BY <1>1, <1>2, <1>4, <1>5, ExitParts

LEMMA CrashParts ==
    ASSUME SyncInv, Crash, pc # "dropDb" \/ "dropDb" \notin CrashPoints
    PROVE  SyncParts'
<1>0. FileOK /\ PlacesOK /\ DbOK
  BY Given
<1>1. /\ pc # "dropDb" /\ Exit
      /\ UNCHANGED <<file, headers, metadata, timelineDb, confirmed>>
  BY DEF Crash, diskVars
<1>2. HeadOK(file')
  BY <1>0, <1>1 DEF FileOK, HeadOK, IsRoot
<1>3. DbOK'
  BY <1>0, <1>1 DEF DbOK, TimelineSequence
<1>4. \A h \in DOMAIN headers' : headers'[h] \in 1..Len(file') /\ file'[headers'[h]] = h
  BY <1>0, <1>1 DEF PlacesOK
<1> QED
  BY <1>1, <1>2, <1>3, <1>4, ExitParts

\* The steps of the worker and of the servers.
LEMMA OtherParts ==
    ASSUME SyncInv,
           Pop \/ WorkSaved \/ WorkDropped \/ WorkFails \/ ServerExtends \/ ServerReorgs
           \/ OnlyServe \/ UNCHANGED vars
    PROVE  SyncParts'
<1>1. UNCHANGED <<bcVars, file, diskVars, pc, item, itemPos, position, timeline,
                  gba, cursor, batch, walkNum, loadedFile>>
  BY DEF Pop, WorkSaved, WorkDropped, WorkFails, WorkDone, ServerExtends,
     ServerReorgs, OnlyServe, sourceVars, vars
<1> QED
  BY <1>1, QuietParts

LEMMA PartsKept ==
    ASSUME SyncInv, [SyncNext]_vars, pc # "dropDb" \/ "dropDb" \notin CrashPoints
    PROVE  SyncParts'
<1>1. CASE StartSteps
  BY <1>1, StartParts, StartMoves DEF StartSteps
<1>2. CASE BlockSteps
  BY <1>2, SourceMoves, ItemMoves, SaveParts, AddParts, AddSignParts, StoreParts,
     ConfirmParts DEF BlockSteps
<1>3. CASE ForkSteps
  BY <1>3, ForkMoves, TruncateParts, DropDbParts, RewriteParts, AppendParts
     DEF ForkSteps
<1>4. CASE OnlyServe \/ WorkerThread \/ UNCHANGED vars
  BY <1>4, OtherParts DEF WorkerThread
<1>5. CASE Environment
  BY <1>5, OtherParts, CrashParts, ItemMoves DEF Environment
<1> QED
  BY <1>1, <1>2, <1>3, <1>4, <1>5 DEF SyncNext, SyncThread

(***************************************************************************)
(* The types.                                                              *)
(***************************************************************************)

LEMMA EntryTypes ==
    ASSUME NEW n \in Nat, NEW h \in Hash \cup {NoHash}
    PROVE  Entry(n, h) \in Entries
BY DEF Entry, Entries

LEMMA PushTypes ==
    ASSUME SyncTypeOK, NEW n \in Nat, NEW h \in Hash, PushToWorker(n, h)
    PROVE  queue' \in Seq(Entries) /\ Len(queue') <= 1
<1>1. queue \in Seq(Entries) /\ Len(queue) <= 1
  BY DEF SyncTypeOK, WorkerTypeOK
<1>2. PICK e \in Entries : e = Entry(n, h)
  BY EntryTypes
<1>3. CASE queue' = queue
  BY <1>1, <1>3
<1>4. CASE queue' = <<e>>
  BY <1>4
<1> QED
  BY <1>2, <1>3, <1>4 DEF PushToWorker

LEMMA DiskTypes ==
    ASSUME SyncInv, SyncNext
    PROVE  DiskTypeOK'
<1>0. DiskTypeOK /\ ThreadTypeOK /\ WorkerTypeOK /\ StepOK
  BY Given
<1> USE DEF DiskTypeOK, IsMap
<1>1. CASE UNCHANGED <<file, diskVars>>
  BY <1>0, <1>1 DEF diskVars
<1>2. CASE Save
  <2>1. item \in Item /\ file' = Append(file, item)
    BY <1>0, <1>2 DEF Save, StepOK
  <2>2. item \in FileRecord /\ file \in Seq(FileRecord)
    BY <1>0, <2>1 DEF FileRecord
  <2>3. file' \in Seq(FileRecord)
    BY <2>1, <2>2
  <2>4. UNCHANGED diskVars
    BY <1>2 DEF Save
  <2> QED
    BY <1>0, <2>3, <2>4 DEF diskVars
<1>3. CASE Store
  <2>1. item \in Item /\ itemPos \in Nat /\ file' = file /\ confirmed' = confirmed
    BY <1>0, <1>3 DEF Store, StepOK, ThreadTypeOK
  <2>2. TimelineKey \in Nat
    <3>1. timeline # <<>> /\ timeline \in Seq(Item)
      BY <1>0, <1>3, Given DEF Store, TimelineOK, ThreadTypeOK, Running
    <3> QED
      BY <3>1, EmptySeq DEF TimelineKey
  <2>3. timelineDb' = [k \in DOMAIN timelineDb \cup {TimelineKey} |->
                        IF k = TimelineKey THEN item ELSE timelineDb[k]]
    BY <1>3 DEF Store
  <2>4. IsMap(timelineDb', Nat, Item)
    BY <1>0, <2>1, <2>2, <2>3
  <2>5. IsMap(headers', Hash, Nat) /\ metadata' \in Hash \cup {NoHash}
    <3>1. CASE item \in Hash
      <4>1. headers' = [h \in DOMAIN headers \cup {item} |->
                            IF h = item THEN itemPos ELSE headers[h]]
            /\ metadata' = NewMetadata(item)
        BY <1>3, <3>1 DEF Store
      <4> QED
        BY <1>0, <2>1, <3>1, <4>1 DEF NewMetadata
    <3>2. CASE item \notin Hash
      <4>1. headers' = headers /\ metadata' = metadata
        BY <1>3, <3>2 DEF Store
      <4> QED
        BY <1>0, <4>1
    <3> QED
      BY <3>1, <3>2
  <2> QED
    BY <1>0, <2>1, <2>4, <2>5
<1>4. CASE Confirm
  BY <1>0, <1>4 DEF Confirm, ThreadTypeOK
<1>5. CASE Truncate
  <2>1. PICK pos : pos = position[getBlock(walkNum)]
    OBVIOUS
  <2>2. /\ file' = IF pos <= Len(file) THEN SubSeq(file, 1, pos - 1)
                   ELSE IF pos = Len(file) + 1 THEN file ELSE Append(file, RawDump)
        /\ UNCHANGED diskVars /\ pc = "truncate"
    BY <1>5, <2>1 DEF Truncate
  <2>3. pos \in Nat \ {0}
    <3>1. walkNum \in 1..countBlocks
      BY <1>0, <2>2, Given DEF StepOK, ThreadTypeOK
    <3>2. getBlock(walkNum) \in DOMAIN position /\ position[getBlock(walkNum)] # 0
      BY <2>2, <3>1, Given DEF PlacesOK
    <3> QED
      BY <1>0, <2>1, <3>2 DEF ThreadTypeOK
  <2>4. RawDump \in FileRecord /\ file \in Seq(FileRecord)
    BY <1>0 DEF FileRecord
  <2>5. CASE pos <= Len(file)
    <3>1. file' = SubSeq(file, 1, pos - 1) /\ pos - 1 \in 0..Len(file)
      BY <2>2, <2>3, <2>4, <2>5
    <3>2. file' \in Seq(FileRecord)
      BY <2>4, <3>1
    <3> QED
      BY <1>0, <2>2, <3>2 DEF diskVars
  <2>6. CASE file' = file
    BY <1>0, <2>2, <2>6 DEF diskVars
  <2>7. CASE file' = Append(file, RawDump)
    <3>1. file' \in Seq(FileRecord)
      BY <2>4, <2>7
    <3> QED
      BY <1>0, <2>2, <3>1 DEF diskVars
  <2> QED
    BY <2>2, <2>5, <2>6, <2>7
<1>6. CASE DropDb
  BY <1>0, <1>6 DEF DropDb
<1>7. CASE Rewrite
  BY <1>0, <1>7 DEF Rewrite, diskVars
<1>8. CASE AppendServerBlock
  <2>1. RawDump \in FileRecord /\ loadedFile \in Seq(FileRecord)
    BY <1>0 DEF FileRecord, ThreadTypeOK
  <2>2. file' = Append(loadedFile, RawDump) /\ UNCHANGED diskVars
    BY <1>8 DEF AppendServerBlock
  <2>3. file' \in Seq(FileRecord)
    BY <2>1, <2>2
  <2> QED
    BY <1>0, <2>2, <2>3 DEF diskVars
<1>9. SyncNext => \/ UNCHANGED <<file, diskVars>>
                  \/ Save \/ Store \/ Confirm \/ Truncate \/ DropDb \/ Rewrite
                  \/ AppendServerBlock
  <2>1. StartSteps => UNCHANGED <<file, diskVars>>
    BY DEF StartSteps, Start, StartFails, ReplayBlock, ReplayFails, ReplayDone
  <2>2. BlockSteps => UNCHANGED <<file, diskVars>> \/ Save \/ Store \/ Confirm
    BY DEF BlockSteps, Fetch, TakeFetched, TakeFromFile, FileSpins, FileDone, vars,
       SaveFails, AddToChain, AddKnown, AddFork, AddSign, Push
  <2>3. ForkSteps => \/ UNCHANGED <<file, diskVars>>
                     \/ Truncate \/ DropDb \/ Rewrite \/ AppendServerBlock
    BY DEF ForkSteps, AncestorFails, AncestorSpins, AncestorDown, FalseAlarm,
       Conflict, vars
  <2>4. OnlyServe \/ WorkerThread \/ Environment => UNCHANGED <<file, diskVars>>
    BY DEF OnlyServe, WorkerThread, Environment, Pop, WorkSaved, WorkDropped, WorkFails,
       WorkDone, ServerExtends, ServerReorgs, Crash, StoreFails, vars
  <2> QED
    BY <2>1, <2>2, <2>3, <2>4 DEF SyncNext, SyncThread
<1> QED
  BY <1>1, <1>2, <1>3, <1>4, <1>5, <1>6, <1>7, <1>8, <1>9

\* What a process that ends, or goes to the next round, has left.
LEMMA ExitTypes ==
    ASSUME SyncTypeOK, Exit, mainBlock' = mainBlock, tip' = tip
    PROVE  ThreadTypeOK' /\ WorkerTypeOK'
<1>1. ThreadTypeOK /\ WorkerTypeOK
  BY DEF SyncTypeOK
<1>2. /\ pc' = "off" /\ item' = NoHash /\ itemPos' = 0 /\ position' = [h \in {} |-> 0]
      /\ timeline' = <<>> /\ gba' = "file" /\ cursor' = 1 /\ batch' = <<>>
      /\ fileNamed' = FALSE /\ walkNum' = 0 /\ loadedFile' = <<>> /\ queue' = <<>>
      /\ working' = NoEntry /\ initBlock' = 0
  BY DEF Exit, NoProcess
<1>3. ThreadTypeOK'
  <2>1. fileNamed' \in BOOLEAN /\ tip' \in Block
    BY <1>1, <1>2, Zenon DEF ThreadTypeOK
  <2>2. timeline' \in Seq(Item) /\ batch' \in Seq(Item) /\ loadedFile' \in Seq(FileRecord)
    BY <1>2
  <2>3. IsMap(position', Hash, Nat)
    BY <1>2 DEF IsMap
  <2> QED
    BY <1>2, <2>1, <2>2, <2>3 DEF ThreadTypeOK
<1>4. NoEntry \in Entries
  BY EntryTypes DEF NoEntry
<1>5. WorkerTypeOK'
  <2>1. queue' \in Seq(Entries) /\ Len(queue') <= 1
    BY <1>2
  <2> QED
    BY <1>1, <1>2, <1>4, <2>1 DEF WorkerTypeOK
<1> QED
  BY <1>3, <1>5

LEMMA RetryTypes ==
    ASSUME ThreadTypeOK, Retry, UNCHANGED <<position, timeline, loadedFile, tip>>,
           walkNum' \in Nat
    PROVE  ThreadTypeOK'
BY DEF Retry, NextRound, ThreadTypeOK, IsMap, Running

LEMMA StartTypes ==
    ASSUME SyncInv, StartSteps
    PROVE  ThreadTypeOK' /\ WorkerTypeOK'
<1>0. /\ SyncTypeOK /\ DiskTypeOK /\ ThreadTypeOK /\ WorkerTypeOK /\ countBlocks \in Nat
  BY Given DEF SyncInv
<1>1. CASE Start
  <2>1. /\ pc' = "replay" /\ position' = headers /\ cursor' = confirmed
        /\ timeline' = [i \in 1..Cardinality(DOMAIN timelineDb) |-> timelineDb[i - 1]]
        /\ initBlock' = mainBlock.number /\ walkNum' = mainBlock.number + 1
        /\ TimelineSequence
        /\ UNCHANGED <<item, itemPos, gba, batch, fileNamed, loadedFile, queue, working,
                       mainBlock, tip>>
    BY <1>1 DEF Start, ReplayFrom, envVars
  <2>2. PICK q \in Nat : /\ DOMAIN timelineDb = 0..(q - 1)
                         /\ timeline' = [i \in 1..q |-> timelineDb[i - 1]]
    <3>1. Cardinality(DOMAIN timelineDb) \in Nat
      BY Given, FS_CardinalityType DEF DbOK
    <3> QED
      BY <2>1, <3>1 DEF TimelineSequence
  <2>3. timeline' \in Seq(Item)
    <3>1. \A k \in 0..(q - 1) : timelineDb[k] \in Item
      BY <1>0, <2>2 DEF DiskTypeOK, IsMap
    <3>2. \A i \in 1..q : timelineDb[i - 1] \in Item
      BY <3>1
    <3> QED
      BY <2>2, <3>2
  <2>4. mainBlock.number \in Nat
    BY <1>0 DEF WorkerTypeOK, Entries
  <2>5. ThreadTypeOK'
    BY <1>0, <2>1, <2>3, <2>4 DEF ThreadTypeOK, DiskTypeOK, IsMap, Running
  <2> QED
    BY <1>0, <2>1, <2>4, <2>5 DEF WorkerTypeOK
<1>2. CASE StartFails \/ ReplayFails
  <2>1. /\ pc' = "failed"
        /\ UNCHANGED <<item, itemPos, position, timeline, sourceVars, walkNum,
                       loadedFile, workerVars, tip>>
    BY <1>2 DEF StartFails, ReplayFails, envVars
  <2> QED
    BY <1>0, <2>1 DEF ThreadTypeOK, WorkerTypeOK, IsMap, sourceVars, workerVars
<1>3. CASE ReplayBlock
  <2>1. /\ pc' = pc /\ walkNum' = walkNum + 1
        /\ UNCHANGED <<item, itemPos, position, timeline, sourceVars, loadedFile,
                       working, initBlock, mainBlock, tip>>
    BY <1>3 DEF ReplayBlock, envVars
  <2>2. ThreadTypeOK'
    BY <1>0, <2>1 DEF ThreadTypeOK, IsMap, sourceVars
  <2>3. walkNum \in Nat
    BY <1>0 DEF ThreadTypeOK
  <2>4. \E h \in Hash : PushToWorker(walkNum, h)
    <3>1. PICK pos : pos = position[getBlock(walkNum)]
      OBVIOUS
    <3>2. CASE BlockAt(pos) /\ PushToWorker(walkNum, file[pos])
      <4>1. file[pos] \in Hash
        BY <3>2 DEF BlockAt
      <4> QED
        BY <3>2, <4>1, Zenon
    <3>3. CASE ServerHas(walkNum) /\ PushToWorker(walkNum, ServerBlock(walkNum))
      <4>1. ServerBlock(walkNum) \in Hash
        <5>1. walkNum \in 1..LastNumber
          BY <3>3 DEF ServerHas
        <5>2. tip \in Block
          BY <1>0 DEF ThreadTypeOK
        <5> QED
          BY <5>1, <5>2, ServerFacts
      <4> QED
        BY <3>3, <4>1, Zenon
    <3> QED
      BY <1>3, <3>1, <3>2, <3>3 DEF ReplayBlock
  <2>5. queue' \in Seq(Entries) /\ Len(queue') <= 1
    BY <1>0, <2>3, <2>4, PushTypes
  <2> QED
    BY <1>0, <2>1, <2>2, <2>5 DEF WorkerTypeOK
<1>4. CASE ReplayDone
  <2>1. /\ pc' = "idle" /\ gba' \in {"file", "network"} /\ walkNum' = 0
        /\ UNCHANGED <<item, itemPos, position, timeline, cursor, batch, fileNamed,
                       loadedFile, workerVars, tip>>
    BY <1>4 DEF ReplayDone, envVars
  <2> QED
    BY <1>0, <2>1 DEF ThreadTypeOK, WorkerTypeOK, IsMap, workerVars, Running
<1> QED
  BY <1>1, <1>2, <1>3, <1>4 DEF StartSteps

LEMMA BlockTypes ==
    ASSUME SyncInv, BlockSteps
    PROVE  ThreadTypeOK' /\ WorkerTypeOK'
<1>0. /\ SyncTypeOK /\ DiskTypeOK /\ ThreadTypeOK /\ WorkerTypeOK /\ countBlocks \in Nat
      /\ StepOK
  BY Given DEF SyncInv
<1>1. CASE Fetch \/ FileSpins \/ FileDone
  <2>1. CASE Fetch
    <3>1. batch' \in Seq(Item)
      BY <2>1, FetchedBatch
    <3> QED
      BY <1>0, <2>1, <3>1 DEF Fetch, ThreadTypeOK, WorkerTypeOK, IsMap, workerVars, envVars
  <2>2. CASE FileSpins
    BY <1>0, <2>2 DEF FileSpins, vars, ThreadTypeOK, WorkerTypeOK, IsMap, workerVars,
       envVars, sourceVars
  <2>3. CASE FileDone
    BY <1>0, <2>3 DEF FileDone, ThreadTypeOK, WorkerTypeOK, IsMap, workerVars, envVars
  <2> QED
    BY <1>1, <2>1, <2>2, <2>3
<1>2. CASE TakeFetched
  <2>1. batch \in Seq(Item) /\ batch # <<>>
    BY <1>0, <1>2 DEF TakeFetched, ThreadTypeOK
  <2>2. Head(batch) \in Item /\ Tail(batch) \in Seq(Item)
    BY <2>1
  <2>3. fileNamed' \in BOOLEAN
    BY <1>2, Zenon DEF TakeFetched
  <2>4. /\ pc' = "save" /\ item' = Head(batch) /\ batch' = Tail(batch)
        /\ UNCHANGED <<itemPos, position, timeline, gba, cursor, walkNum, loadedFile,
                       workerVars, tip>>
    BY <1>2 DEF TakeFetched, envVars
  <2> QED
    BY <1>0, <2>2, <2>3, <2>4 DEF ThreadTypeOK, WorkerTypeOK, IsMap, workerVars, Running
<1>3. CASE TakeFromFile
  <2>1. /\ pc' = "add" /\ item' = file[cursor] /\ itemPos' = cursor
        /\ cursor' = cursor + 1 /\ cursor <= Len(file) /\ file[cursor] # RawDump
        /\ UNCHANGED <<position, timeline, gba, batch, fileNamed, walkNum, loadedFile,
                       workerVars, tip>>
    BY <1>3 DEF TakeFromFile, envVars
  <2>2. cursor \in Nat \ {0} /\ file \in Seq(FileRecord)
    BY <1>0 DEF ThreadTypeOK, DiskTypeOK
  <2>3. file[cursor] \in FileRecord
    BY <2>1, <2>2
  <2>4. file[cursor] \in Item
    BY <2>1, <2>3 DEF FileRecord
  <2> QED
    BY <1>0, <2>1, <2>2, <2>4 DEF ThreadTypeOK, WorkerTypeOK, IsMap, workerVars, Running
<1>4. CASE Save
  <2>1. /\ pc' = "add" /\ itemPos' = Len(file) + 1
        /\ UNCHANGED <<item, position, timeline, sourceVars, walkNum, loadedFile,
                       workerVars, tip>>
    BY <1>4 DEF Save, SavedPosition, envVars
  <2>2. Len(file) + 1 \in Nat
    BY <1>0 DEF DiskTypeOK
  <2> QED
    BY <1>0, <2>1, <2>2 DEF ThreadTypeOK, WorkerTypeOK, IsMap, workerVars, sourceVars, Running
<1>5. CASE SaveFails \/ AddKnown
  <2>1. Retry /\ UNCHANGED <<position, timeline, walkNum, loadedFile, workerVars, tip>>
    BY <1>5 DEF SaveFails, AddKnown, envVars
  <2>2. walkNum' \in Nat
    BY <1>0, <2>1 DEF ThreadTypeOK
  <2>3. ThreadTypeOK'
    BY <1>0, <2>1, <2>2, RetryTypes
  <2> QED
    BY <1>0, <2>1, <2>3 DEF WorkerTypeOK, workerVars
<1>6. CASE AddToChain \/ AddSign
  <2>1. /\ item \in Item /\ itemPos \in Nat
        /\ position' = [h \in DOMAIN position \cup ({item} \cap Hash) |->
                            IF h = item THEN itemPos ELSE position[h]]
           \/ position' = position
        /\ UNCHANGED <<walkNum, loadedFile, workerVars, tip>>
    <3>1. item \in Item /\ itemPos \in Nat
      BY <1>0, <1>6 DEF AddToChain, AddSign, Item, ThreadTypeOK
    <3>2. AddToChain => {item} \cap Hash = {item}
      BY DEF AddToChain
    <3> QED
      BY <1>6, <3>1, <3>2 DEF AddToChain, AddSign, envVars
  <2>2. IsMap(position', Hash, Nat)
    BY <1>0, <2>1 DEF ThreadTypeOK, IsMap
  <2>3. CASE Retry /\ timeline' = timeline
    BY <1>0, <2>1, <2>2, <2>3 DEF Retry, NextRound, ThreadTypeOK, WorkerTypeOK,
       workerVars, Running
  <2>4. CASE /\ timeline' = Append(timeline, item) /\ pc' \in {"push", "store"}
             /\ UNCHANGED <<item, itemPos, sourceVars>>
    <3>1. timeline \in Seq(Item)
      BY <1>0 DEF ThreadTypeOK
    <3>2. timeline' \in Seq(Item)
      BY <2>1, <2>4, <3>1
    <3> QED
      BY <1>0, <2>1, <2>2, <2>4, <3>2 DEF ThreadTypeOK, WorkerTypeOK, workerVars,
         sourceVars, Running
  <2> QED
    BY <1>6, <2>3, <2>4 DEF AddToChain, AddSign
<1>7. CASE AddFork
  <2>1. /\ pc' = "ancestor" /\ walkNum' = countBlocks
        /\ UNCHANGED <<item, itemPos, position, timeline, sourceVars, loadedFile,
                       workerVars, tip>>
    BY <1>7 DEF AddFork, envVars
  <2> QED
    BY <1>0, <2>1 DEF ThreadTypeOK, WorkerTypeOK, IsMap, workerVars, sourceVars, Running
<1>8. CASE Push
  <2>1. /\ pc = "push" /\ pc' = "store" /\ PushToWorker(countBlocks, item)
        /\ UNCHANGED <<item, itemPos, position, timeline, sourceVars, walkNum, loadedFile,
                       working, initBlock, mainBlock, tip>>
    BY <1>8 DEF Push, NumberInChain, envVars
  <2>2. item \in Hash
    BY <1>0, <2>1 DEF StepOK
  <2>3. queue' \in Seq(Entries) /\ Len(queue') <= 1
    BY <1>0, <2>1, <2>2, PushTypes
  <2> QED
    BY <1>0, <2>1, <2>3 DEF ThreadTypeOK, WorkerTypeOK, IsMap, sourceVars, Running
<1>9. CASE Store
  <2>1. /\ pc' = "confirm"
        /\ UNCHANGED <<item, itemPos, position, timeline, sourceVars, walkNum, loadedFile,
                       workerVars, tip>>
    BY <1>9 DEF Store, envVars
  <2> QED
    BY <1>0, <2>1 DEF ThreadTypeOK, WorkerTypeOK, IsMap, workerVars, sourceVars, Running
<1>10. CASE Confirm
  <2>1. /\ pc' = "idle" /\ item' = NoHash /\ itemPos' = 0
        /\ UNCHANGED <<position, timeline, sourceVars, walkNum, loadedFile, workerVars, tip>>
    BY <1>10 DEF Confirm, NextRound, envVars
  <2> QED
    BY <1>0, <2>1 DEF ThreadTypeOK, WorkerTypeOK, IsMap, workerVars, sourceVars, Running
<1> QED
  BY <1>1, <1>2, <1>3, <1>4, <1>5, <1>6, <1>7, <1>8, <1>9, <1>10 DEF BlockSteps

LEMMA ForkTypes ==
    ASSUME SyncInv, ForkSteps
    PROVE  ThreadTypeOK' /\ WorkerTypeOK'
<1>0. SyncTypeOK /\ DiskTypeOK /\ ThreadTypeOK /\ WorkerTypeOK
  BY Given DEF SyncInv
<1>1. CASE AncestorFails \/ FalseAlarm
  <2>1. /\ Retry /\ walkNum' = 0
        /\ UNCHANGED <<position, timeline, loadedFile, workerVars, tip>>
    BY <1>1 DEF AncestorFails, FalseAlarm, envVars
  <2>2. ThreadTypeOK'
    BY <1>0, <2>1, RetryTypes
  <2> QED
    BY <1>0, <2>1, <2>2 DEF WorkerTypeOK, workerVars
<1>2. CASE AncestorSpins
  BY <1>0, <1>2 DEF AncestorSpins, vars, ThreadTypeOK, WorkerTypeOK, IsMap, workerVars,
     sourceVars, envVars
<1>3. CASE AncestorDown
  <2>1. walkNum - 1 \in Nat
    <3>1. walkNum \in 1..LastNumber
      BY <1>3 DEF AncestorDown, ServerForks, ServerHas
    <3>2. LastNumber \in Nat
      BY <1>0, ServerFacts DEF ThreadTypeOK
    <3> QED
      BY <3>1, <3>2
  <2>2. /\ pc' = pc /\ walkNum' = walkNum - 1
        /\ UNCHANGED <<item, itemPos, position, timeline, sourceVars, loadedFile,
                       workerVars, tip>>
    BY <1>3 DEF AncestorDown, envVars
  <2> QED
    BY <1>0, <2>1, <2>2 DEF ThreadTypeOK, WorkerTypeOK, IsMap, workerVars, sourceVars
<1>4. CASE Conflict \/ Truncate
  <2>1. /\ pc' \in {"truncate", "dropDb"}
        /\ UNCHANGED <<item, itemPos, position, timeline, sourceVars, walkNum, loadedFile,
                       workerVars, tip>>
    BY <1>4 DEF Conflict, Truncate, envVars
  <2> QED
    BY <1>0, <2>1 DEF ThreadTypeOK, WorkerTypeOK, IsMap, workerVars, sourceVars, Recovering
<1>5. CASE DropDb
  <2>1. /\ pc' = "rewrite" /\ mainBlock' = NoEntry
        /\ UNCHANGED <<item, itemPos, position, timeline, sourceVars, walkNum, loadedFile,
                       queue, working, initBlock, tip>>
    BY <1>5 DEF DropDb, envVars
  <2>2. NoEntry \in Entries
    BY EntryTypes DEF NoEntry
  <2> QED
    BY <1>0, <2>1, <2>2 DEF ThreadTypeOK, WorkerTypeOK, IsMap, sourceVars, Recovering
<1>6. CASE Rewrite
  <2>1. /\ pc' = "append" /\ loadedFile' = file
        /\ UNCHANGED <<item, itemPos, position, timeline, sourceVars, walkNum,
                       workerVars, tip>>
    BY <1>6 DEF Rewrite, envVars
  <2> QED
    BY <1>0, <2>1 DEF ThreadTypeOK, WorkerTypeOK, DiskTypeOK, IsMap, workerVars,
       sourceVars, Recovering
<1>7. CASE AppendServerBlock
  BY <1>0, <1>7, ExitTypes DEF AppendServerBlock, envVars
<1> QED
  BY <1>1, <1>2, <1>3, <1>4, <1>5, <1>6, <1>7 DEF ForkSteps

LEMMA OtherTypes ==
    ASSUME SyncInv, OnlyServe \/ WorkerThread \/ Environment
    PROVE  ThreadTypeOK' /\ WorkerTypeOK'
<1>0. SyncTypeOK /\ ThreadTypeOK /\ WorkerTypeOK
  BY Given DEF SyncInv
<1>1. CASE OnlyServe
  BY <1>0, <1>1 DEF OnlyServe, vars, ThreadTypeOK, WorkerTypeOK, IsMap, workerVars,
     sourceVars, envVars
<1>2. CASE Pop \/ WorkSaved \/ WorkDropped \/ WorkFails
  <2>1. UNCHANGED <<pc, item, itemPos, position, timeline, sourceVars, walkNum, loadedFile,
                    initBlock, tip>>
    BY <1>2 DEF Pop, WorkSaved, WorkDropped, WorkFails, WorkDone, envVars
  <2>2. ThreadTypeOK'
    BY <1>0, <2>1 DEF ThreadTypeOK, IsMap, sourceVars
  <2>3. CASE Pop
    <3>1. queue # <<>> /\ queue \in Seq(Entries) /\ Len(queue) <= 1
      BY <1>0, <2>3 DEF Pop, WorkerTypeOK
    <3>2. Head(queue) \in Entries /\ Tail(queue) \in Seq(Entries) /\ Len(Tail(queue)) <= 1
      BY <3>1
    <3> QED
      BY <1>0, <2>2, <2>3, <3>2 DEF Pop, WorkerTypeOK
  <2>4. CASE WorkSaved \/ WorkDropped \/ WorkFails
    <3>1. /\ working' = NoEntry /\ queue' = queue /\ initBlock' = initBlock
          /\ mainBlock' \in {mainBlock, working}
      BY <2>4 DEF WorkSaved, WorkDropped, WorkFails, WorkDone
    <3>2. NoEntry \in Entries
      BY EntryTypes DEF NoEntry
    <3> QED
      BY <1>0, <2>2, <3>1, <3>2 DEF WorkerTypeOK
  <2> QED
    BY <1>2, <2>3, <2>4
<1>3. CASE ServerExtends \/ ServerReorgs
  <2>1. /\ tip' \in Block
        /\ UNCHANGED <<pc, item, itemPos, position, timeline, sourceVars, walkNum,
                       loadedFile, workerVars>>
    BY <1>3 DEF ServerExtends, ServerReorgs, Block
  <2> QED
    BY <1>0, <2>1 DEF ThreadTypeOK, WorkerTypeOK, IsMap, workerVars, sourceVars
<1>4. CASE Crash
  BY <1>0, <1>4, ExitTypes DEF Crash
<1>5. CASE StoreFails
  <2>1. Retry /\ UNCHANGED <<position, timeline, walkNum, loadedFile, workerVars, tip>>
    BY <1>5 DEF StoreFails
  <2>2. walkNum' \in Nat
    BY <1>0, <2>1 DEF ThreadTypeOK
  <2>3. ThreadTypeOK'
    BY <1>0, <2>1, <2>2, RetryTypes
  <2> QED
    BY <1>0, <2>1, <2>3 DEF WorkerTypeOK, workerVars
<1> QED
  BY <1>1, <1>2, <1>3, <1>4, <1>5 DEF WorkerThread, Environment

LEMMA InvNext ==
    ASSUME SyncInv, [SyncNext]_vars, pc # "dropDb" \/ "dropDb" \notin CrashPoints
    PROVE  SyncInv'
<1>1. SyncParts'
  BY PartsKept
<1>2. BcTypeOK'
  BY <1>1 DEF SyncParts, ChainOK, BcInv
<1>3. CASE SyncNext
  <2>1. DiskTypeOK'
    BY <1>3, DiskTypes
  <2>2. ThreadTypeOK' /\ WorkerTypeOK'
    BY <1>3, StartTypes, BlockTypes, ForkTypes, OtherTypes DEF SyncNext, SyncThread
  <2> QED
    BY <1>1, <1>2, <2>1, <2>2 DEF SyncInv, SyncTypeOK
<1>4. CASE UNCHANGED vars
  <2>1. DiskTypeOK /\ ThreadTypeOK /\ WorkerTypeOK
    BY Given
  <2>2. DiskTypeOK' /\ ThreadTypeOK' /\ WorkerTypeOK'
    BY <1>4, <2>1 DEF vars, DiskTypeOK, ThreadTypeOK, WorkerTypeOK, IsMap, workerVars,
       sourceVars, envVars, diskVars
  <2> QED
    BY <1>1, <1>2, <2>2 DEF SyncInv, SyncTypeOK
<1> QED
  BY <1>3, <1>4

LEMMA InvInit ==
    ASSUME SyncInit
    PROVE  SyncInv
<1>0. /\ file = <<>> /\ headers = [h \in {} |-> 0] /\ metadata = NoHash
      /\ timelineDb = [k \in {} |-> NoHash] /\ mainBlock = NoEntry /\ confirmed = 1
      /\ pc = "off" /\ item = NoHash /\ itemPos = 0 /\ position = [h \in {} |-> 0]
      /\ timeline = <<>> /\ gba = "file" /\ cursor = 1 /\ batch = <<>>
      /\ fileNamed = FALSE /\ walkNum = 0 /\ loadedFile = <<>> /\ queue = <<>>
      /\ working = NoEntry /\ initBlock = 0 /\ tip = Genesis
  BY DEF SyncInit
<1>1. BcInv /\ countBlocks = 0
  <2>1. hashes = <<Genesis>>
    BY DEF SyncInit, Fresh
  <2> QED
    BY <2>1, InitInv DEF SyncInit, BcInit, countBlocks
<1>2. DiskTypeOK
  BY <1>0 DEF DiskTypeOK, IsMap
<1>3. ThreadTypeOK
  <2>1. fileNamed \in BOOLEAN /\ tip \in Block
    BY <1>0, Zenon DEF Block
  <2>2. timeline \in Seq(Item) /\ batch \in Seq(Item) /\ loadedFile \in Seq(FileRecord)
    BY <1>0
  <2>3. IsMap(position, Hash, Nat)
    BY <1>0 DEF IsMap
  <2> QED
    BY <1>0, <2>1, <2>2, <2>3 DEF ThreadTypeOK
<1>4. WorkerTypeOK
  <2>1. NoEntry \in Entries
    BY EntryTypes DEF NoEntry
  <2>2. queue \in Seq(Entries) /\ Len(queue) <= 1
    BY <1>0
  <2> QED
    BY <1>0, <2>1, <2>2 DEF WorkerTypeOK
<1>5. ChainOK
  BY <1>1 DEF ChainOK, OrphansNotNumbered
<1>6. FileOK /\ PlacesOK /\ StepOK /\ EmptyOK /\ TimelineOK
  BY <1>0 DEF FileOK, HeadOK, PlacesOK, StepOK, EmptyOK, TimelineOK, Running
<1>7. DbOK
  <2>1. DOMAIN timelineDb = {} /\ DOMAIN headers = {}
    BY <1>0
  <2>2. IsFiniteSet(DOMAIN timelineDb)
    BY <2>1, FS_EmptySet
  <2> QED
    BY <1>0, <2>1, <2>2 DEF DbOK
<1> QED
  BY <1>1, <1>2, <1>3, <1>4, <1>5, <1>6, <1>7 DEF SyncInv, SyncTypeOK, SyncParts, BcInv

(***************************************************************************)
(* The theorems.  The process may be killed anywhere but between the cut   *)
(* of the files and the removal of the databases: a process started from   *)
(* there knows blocks that the files have lost.                            *)
(***************************************************************************)

\* The chain, the files, the database and the two threads fit together in
\* every state.
THEOREM SyncInvariant ==
    ASSUME "dropDb" \notin CrashPoints
    PROVE  SyncSpec => []SyncInv
<1>1. SyncInit => SyncInv
  BY InvInit
<1>2. SyncInv /\ [SyncNext]_vars => SyncInv'
  BY InvNext
<1> QED
  BY <1>1, <1>2, PTL DEF SyncSpec

\* The state on disk, in the two threads and around the process has its type;
\* the queue of the worker holds one block at most.
THEOREM SyncTypes ==
    ASSUME "dropDb" \notin CrashPoints
    PROVE  SyncSpec => []SyncTypeOK
<1>1. SyncInv => SyncTypeOK
  BY DEF SyncInv
<1> QED
  BY <1>1, SyncInvariant, PTL

\* The dump of a block that the database has a header of is in the files, at
\* the position in the header.
THEOREM HeadersPlaced ==
    ASSUME "dropDb" \notin CrashPoints
    PROVE  SyncSpec => []HeadersInFile
<1>1. SyncInv => HeadersInFile
  <2> SUFFICES ASSUME SyncInv PROVE HeadersInFile
    OBVIOUS
  <2>1. DOMAIN headers \subseteq Hash
    BY Given DEF DiskTypeOK, IsMap
  <2> QED
    BY <2>1, Given DEF PlacesOK, HeadersInFile, BlockAt
<1> QED
  BY <1>1, SyncInvariant, PTL

\* Whatever writes to the database fail, the files begin with a block that
\* follows the genesis block, and a process that got through initialize works
\* on a chain that leads there.
THEOREM LoadedChains ==
    ASSUME "dropDb" \notin CrashPoints
    PROVE  SyncSpec => []FilesBeginAtRoot /\ []LoadedChainIntact
<1>1. SyncInv => FilesBeginAtRoot
  <2> SUFFICES ASSUME SyncInv PROVE FilesBeginAtRoot
    OBVIOUS
  <2> QED
    BY SyncAssumption DEF SyncInv, SyncParts, FileOK, HeadOK, IsRoot, FilesBeginAtRoot, Block
<1>2. SyncInv => LoadedChainIntact
  <2> SUFFICES ASSUME SyncInv PROVE LoadedChainIntact
    OBVIOUS
  <2> QED
    BY Given DEF BcInv, LoadedChainIntact
<1> QED
  BY <1>1, <1>2, SyncInvariant, PTL

(***************************************************************************)
(* The saved chain, when no write to the database fails: the timeline on   *)
(* disk is the one in memory but for the element at hand, and its blocks   *)
(* are the chain.                                                          *)
(***************************************************************************)

\* The element at hand is in the timeline and not yet in the database.
Unsaved == pc \in {"push", "store"}

SavedLength == Cardinality(BlockKeys)

\* The saved blocks are linked, from the genesis block to the last one.
SavedLinked ==
    /\ Ranked(BlockKeys)
    /\ SavedLength = 0 => metadata = NoHash
    /\ SavedLength # 0 =>
        IsChain(SavedBlocks, SavedLength) /\ metadata = SavedBlocks[SavedLength]
    /\ DOMAIN headers = BlocksOf(SavedBlocks, SavedLength)

\* The keys are the numbers up to that of the last element saved.
KeysSaved ==
    \E q \in Nat :
        /\ DOMAIN timelineDb = 0..(q - 1)
        /\ pc \in Running => Len(timeline) = q + (IF Unsaved THEN 1 ELSE 0)

\* What is saved of the chain in memory.
BlocksSaved ==
    pc \in Running =>
        DOMAIN headers =
            (DOMAIN blocks \cap Hash) \ (IF Unsaved THEN {item} ELSE {})

SavedInv ==
    /\ faults = 0
    /\ SavedLinked /\ KeysSaved /\ BlocksSaved

LEMMA SavedFacts ==
    ASSUME SyncInv
    PROVE  /\ BlockKeys \in SUBSET Nat /\ IsFiniteSet(BlockKeys)
           /\ SavedLength \in Nat
           /\ SavedBlocks = Listed(timelineDb, BlockKeys)
           /\ \A k \in BlockKeys : timelineDb[k] \in Hash
<1>1. IsFiniteSet(DOMAIN timelineDb) /\ DOMAIN timelineDb \subseteq Nat
  BY Given DEF DbOK, DiskTypeOK, IsMap
<1>2. BlockKeys \subseteq DOMAIN timelineDb /\ \A k \in BlockKeys : timelineDb[k] \in Hash
  BY DEF BlockKeys
<1>3. IsFiniteSet(BlockKeys)
  BY <1>1, <1>2, FS_Subset
<1>4. SavedLength \in Nat
  BY <1>3, FS_CardinalityType DEF SavedLength
<1> QED
  BY <1>1, <1>2, <1>3, <1>4 DEF SavedBlocks

\* What is on disk stays.
LEMMA SavedSame ==
    ASSUME SavedInv, UNCHANGED <<headers, metadata, timelineDb>>
    PROVE  SavedLinked' /\ SavedBlocks' = SavedBlocks
<1>1. BlockKeys' = BlockKeys
  BY DEF BlockKeys
<1>2. SavedBlocks' = SavedBlocks /\ SavedLength' = SavedLength
  BY <1>1 DEF SavedBlocks, SavedLength
<1> QED
  BY <1>1, <1>2 DEF SavedInv, SavedLinked

LEMMA QuietSaved ==
    ASSUME SavedInv, UNCHANGED <<headers, metadata, timelineDb, faults>>,
           pc' \in Running =>
                /\ pc \in Running /\ timeline' = timeline
                /\ DOMAIN blocks' = DOMAIN blocks
                /\ \/ ~Unsaved /\ ~Unsaved'
                   \/ Unsaved /\ Unsaved' /\ item' = item
    PROVE  SavedInv' /\ SavedBlocks' = SavedBlocks
<1>1. SavedLinked' /\ SavedBlocks' = SavedBlocks
  BY SavedSame
<1>2. KeysSaved'
  <2>1. PICK q \in Nat :
          /\ DOMAIN timelineDb = 0..(q - 1)
          /\ pc \in Running => Len(timeline) = q + (IF Unsaved THEN 1 ELSE 0)
    BY DEF SavedInv, KeysSaved
  <2>2. pc' \in Running => Len(timeline') = q + (IF Unsaved' THEN 1 ELSE 0)
    BY <2>1
  <2> QED
    BY <2>1, <2>2 DEF KeysSaved
<1>3. BlocksSaved'
  BY DEF SavedInv, BlocksSaved
<1> QED
  BY <1>1, <1>2, <1>3 DEF SavedInv

LEMMA StartSaved ==
    ASSUME SyncInv, SavedInv, Start
    PROVE  SavedInv' /\ SavedBlocks' = SavedBlocks
<1>0. DiskTypeOK /\ DbOK
  BY Given
<1>1. /\ pc' = "replay" /\ LoadDb
      /\ timeline' = [i \in 1..Cardinality(DOMAIN timelineDb) |-> timelineDb[i - 1]]
      /\ UNCHANGED <<headers, metadata, timelineDb, faults>>
  BY DEF Start, diskVars, envVars
<1>2. ~Unsaved' /\ pc' \in Running
  BY <1>1 DEF Unsaved, Running
<1>3. SavedLinked' /\ SavedBlocks' = SavedBlocks
  BY <1>1, SavedSame
<1>4. KeysSaved'
  <2>1. PICK q \in Nat : DOMAIN timelineDb = 0..(q - 1)
    BY DEF SavedInv, KeysSaved
  <2>2. Cardinality(DOMAIN timelineDb) = q
    <3>1. Cardinality(0..(q - 1)) = q
      BY FS_Interval
    <3> QED
      BY <2>1, <3>1
  <2>3. Len(timeline') = q
    BY <1>1, <2>2
  <2>4. Len(timeline') = q + (IF Unsaved' THEN 1 ELSE 0)
    BY <1>2, <2>3
  <2> QED
    BY <1>1, <2>1, <2>4 DEF KeysSaved
<1>5. BlocksSaved'
  <2>1. PICK D : D = DOMAIN headers
    OBVIOUS
  <2>2. D \subseteq Hash /\ metadata \in Hash \cup {NoHash}
    BY <1>0, <2>1 DEF DiskTypeOK, IsMap
  <2>3. DOMAIN blocks' = D \cup {Genesis}
    <3>1. CASE metadata = NoHash
      <4>1. LoadEmpty /\ D = {}
        BY <1>0, <1>1, <2>1, <3>1 DEF LoadDb, DbOK
      <4> QED
        BY <4>1, EmptyNext
    <3>2. CASE metadata # NoHash
      <4>1. Load(D, metadata)
        BY <1>1, <2>1, <3>2 DEF LoadDb
      <4>2. TimelineSequence
        BY DEF Start
      <4>3. /\ metadata \in D /\ \A h \in D : height[h] <= height[metadata]
            /\ \A g, h \in D : height[g] = height[h] => g = h
            /\ \A h \in D : prevHash[h] = Genesis \/ prevHash[h] \in D
        BY <1>0, <2>1, <3>2, <4>2 DEF DbOK
      <4> QED
        BY <2>2, <4>1, <4>3, LoadClosed
    <3> QED
      BY <3>1, <3>2
  <2>4. DOMAIN blocks' \cap Hash = D
    BY <2>2, <2>3, HashAssumption
  <2> QED
    BY <1>1, <1>2, <2>1, <2>4 DEF BlocksSaved
<1> QED
  BY <1>1, <1>3, <1>4, <1>5 DEF SavedInv

LEMMA AddSaved ==
    ASSUME SyncInv, SavedInv, AddToChain \/ AddSign
    PROVE  SavedInv' /\ SavedBlocks' = SavedBlocks
<1>0. /\ BcInv /\ OrphansNotNumbered /\ countBlocks \in Nat /\ ThreadTypeOK /\ EmptyOK
      /\ TimelineOK
  BY Given
<1>1. /\ pc = "add" /\ ~Unsaved /\ pc \in Running /\ faults' = 0
      /\ UNCHANGED <<headers, metadata, timelineDb>>
  BY DEF AddToChain, AddSign, diskVars, envVars, Unsaved, Running, SavedInv
<1>2. SavedLinked' /\ SavedBlocks' = SavedBlocks
  BY <1>1, SavedSame
<1>3. PICK q \in Nat : DOMAIN timelineDb = 0..(q - 1) /\ Len(timeline) = q
  BY <1>1 DEF SavedInv, KeysSaved
<1>4. timeline \in Seq(Item)
  BY <1>0 DEF ThreadTypeOK
<1>5. DOMAIN headers = DOMAIN blocks \cap Hash
  BY <1>1 DEF SavedInv, BlocksSaved
<1>6. CASE AddSign /\ item \in RangeOf(timeline)
  <2>1. pc' = "idle" /\ timeline' = timeline /\ UNCHANGED bcVars
    BY <1>6 DEF AddSign, Retry, NextRound
  <2>2. DOMAIN blocks' = DOMAIN blocks
    BY <1>0, <2>1, KeepsChain
  <2>3. ~Unsaved' /\ faults' = faults
    BY <1>1, <2>1 DEF Unsaved, SavedInv
  <2> QED
    BY <1>1, <2>1, <2>2, <2>3, QuietSaved
<1>7. CASE ~(AddSign /\ item \in RangeOf(timeline))
  <2>1. /\ item \notin RangeOf(timeline) /\ timeline' = Append(timeline, item)
        /\ pc' \in {"push", "store"} /\ item' = item /\ item \in Item
        /\ DOMAIN blocks' \cap Hash = (DOMAIN blocks \cap Hash) \cup ({item} \cap Hash)
        /\ item \notin DOMAIN blocks \cap Hash
    <3>1. CASE AddSign
      <4>1. item \in Sign /\ item \notin RangeOf(timeline)
        BY <1>7, <3>1 DEF AddSign
      <4>2. /\ timeline' = Append(timeline, item) /\ pc' = "store" /\ item' = item
            /\ UNCHANGED bcVars
        BY <3>1, <4>1 DEF AddSign
      <4>3. DOMAIN blocks' = DOMAIN blocks
        BY <1>0, <4>2, KeepsChain
      <4>4. item \notin Hash
        BY <4>1, SyncAssumption DEF Block
      <4> QED
        BY <4>1, <4>2, <4>3, <4>4 DEF Item
    <3>2. CASE AddToChain
      <4>1. item \in Hash /\ AddAccepted(item)
        BY <3>2 DEF AddToChain
      <4>2. countBlocks = 0 => prevHash[item] = Genesis
        BY <1>0, <1>1 DEF EmptyOK, IsRoot
      <4>3. item \notin DOMAIN blocks /\ DOMAIN blocks' = DOMAIN blocks \cup {item}
        BY <1>0, <4>1, <4>2, AcceptedLink
      <4>4. item \notin RangeOf(timeline)
        BY <1>0, <1>1, <4>1, <4>3 DEF TimelineOK, RangeOf
      <4>5. /\ timeline' = Append(timeline, item) /\ pc' = "push" /\ item' = item
        BY <3>2, <4>4 DEF AddToChain
      <4> QED
        BY <4>1, <4>3, <4>4, <4>5 DEF Item
    <3> QED
      BY <3>1, <3>2
  <2>2. Unsaved'
    BY <2>1 DEF Unsaved
  <2>3. Len(timeline') = q + 1
    BY <1>3, <1>4, <2>1
  <2>4. KeysSaved'
    <3>1. Len(timeline') = q + (IF Unsaved' THEN 1 ELSE 0)
      BY <2>2, <2>3
    <3> QED
      BY <1>1, <1>3, <3>1 DEF KeysSaved
  <2>5. BlocksSaved'
    BY <1>1, <1>5, <2>1, <2>2 DEF BlocksSaved
  <2> QED
    BY <1>1, <1>2, <2>4, <2>5 DEF SavedInv
<1> QED
  BY <1>6, <1>7

\* The block that the saved chain ends with.
SavedLast == IF SavedLength = 0 THEN Genesis ELSE SavedBlocks[SavedLength]

\* A block that is about to be saved is a child of the last one saved.
LEMMA NextSaved ==
    ASSUME SyncInv, SavedInv, pc = "store", item \in Hash
    PROVE  prevHash[item] = SavedLast
<1>0. /\ BcInv /\ OrphansNotNumbered /\ countBlocks \in Nat /\ EmptyOK /\ StepOK
      /\ getBlock(0) = Genesis
  BY Given
<1>1. pc \in Running /\ Unsaved
  BY DEF Running, Unsaved
<1>2. PICK c \in Nat : c = countBlocks /\ c # 0
  BY <1>0, <1>1 DEF EmptyOK
<1>3. item = getBlock(c)
  BY <1>0, <1>2 DEF StepOK, getLastBlock
<1>4. /\ \A n \in 1..c : getBlock(n) \in Hash /\ height[getBlock(n)] = n
      /\ \A x \in DOMAIN blocks \cap Hash : \E n \in 1..c : x = getBlock(n)
  BY <1>0, <1>2, ListHeights
<1>5. prevHash[item] = getBlock(c - 1)
  BY <1>0, <1>2, <1>3 DEF OrphansNotNumbered
<1>6. PICK k \in Nat : k = SavedLength
  BY SavedFacts
<1>7. PICK s : s = SavedBlocks
  OBVIOUS
<1>8. k # 0 => IsChain(s, k)
  BY <1>6, <1>7 DEF SavedInv, SavedLinked
<1>9. DOMAIN headers = BlocksOf(s, k)
  BY <1>6, <1>7 DEF SavedInv, SavedLinked
<1>10. DOMAIN headers = (DOMAIN blocks \cap Hash) \ {item}
  BY <1>1 DEF SavedInv, BlocksSaved
<1>11. \A i \in 1..k : s[i] \in DOMAIN headers /\ height[s[i]] = i
  <2>1. k # 0 => \A i \in 1..k : height[s[i]] = i
    BY <1>8, ChainHeights
  <2>2. \A i \in 1..k : s[i] \in DOMAIN headers
    BY <1>9 DEF BlocksOf
  <2>3. \A i \in 1..k : k # 0
    OBVIOUS
  <2> QED
    BY <2>1, <2>2, <2>3
<1>12. k < c
  <2> SUFFICES ASSUME k # 0 PROVE k < c
    BY <1>2
  <2>1. k \in 1..k
    OBVIOUS
  <2>2. s[k] \in DOMAIN headers /\ height[s[k]] = k
    BY <1>11, <2>1
  <2>3. PICK n \in 1..c : s[k] = getBlock(n)
    BY <1>4, <1>10, <2>2
  <2>4. n # c
    BY <1>3, <1>10, <2>2, <2>3
  <2>5. n = k
    BY <1>4, <2>2, <2>3
  <2> QED
    BY <2>4, <2>5
<1>13. CASE c = 1
  <2>1. k = 0 /\ c - 1 = 0
    BY <1>12, <1>13
  <2> QED
    BY <1>0, <1>5, <1>6, <2>1 DEF SavedLast
<1>14. CASE c # 1
  <2>1. c - 1 \in 1..c /\ c - 1 # c /\ c \in 1..c
    BY <1>2, <1>14
  <2>2. getBlock(c - 1) \in Hash /\ height[getBlock(c - 1)] = c - 1
    BY <1>4, <2>1
  <2>3. height[item] = c
    BY <1>3, <1>4, <2>1
  <2>4. getBlock(c - 1) # item
    BY <2>1, <2>2, <2>3
  <2>5. getBlock(c - 1) \in DOMAIN blocks
    <3>1. c - 1 \in 0..countBlocks
      BY <1>2, <2>1
    <3> QED
      BY <1>0, <3>1 DEF BcInv, NumbersAgree
  <2>6. PICK i \in 1..k : s[i] = getBlock(c - 1)
    BY <1>9, <1>10, <2>2, <2>4, <2>5 DEF BlocksOf
  <2>7. i = c - 1
    BY <1>11, <2>2, <2>6
  <2>8. i = k /\ k # 0
    BY <1>12, <2>7
  <2> QED
    BY <1>5, <1>6, <1>7, <2>6, <2>8 DEF SavedLast
<1> QED
  BY <1>13, <1>14

LEMMA StoreSaved ==
    ASSUME SyncInv, SavedInv, Store
    PROVE  /\ SavedInv'
           /\ item \notin Hash => SavedBlocks' = SavedBlocks
           /\ item \in Hash =>
                /\ SavedBlocks \in Seq(Hash) /\ Len(SavedBlocks) = SavedLength
                /\ SavedBlocks' = Append(SavedBlocks, item)
<1>0. /\ BcInv /\ DiskTypeOK /\ ThreadTypeOK /\ TimelineOK /\ StepOK /\ DbOK
  BY Given
<1>1. /\ pc = "store" /\ pc' = "confirm" /\ faults' = faults
      /\ timelineDb' = [k \in DOMAIN timelineDb \cup {TimelineKey} |->
                            IF k = TimelineKey THEN item ELSE timelineDb[k]]
      /\ UNCHANGED <<bcVars, timeline>>
  BY DEF Store, envVars
<1>2. \/ /\ item \in Hash /\ metadata' = NewMetadata(item)
         /\ headers' = [h \in DOMAIN headers \cup {item} |->
                            IF h = item THEN itemPos ELSE headers[h]]
      \/ item \notin Hash /\ headers' = headers /\ metadata' = metadata
  BY DEF Store
<1>3. Unsaved /\ pc \in Running /\ ~Unsaved' /\ pc' \in Running
  BY <1>1 DEF Unsaved, Running
<1>4. PICK q \in Nat : DOMAIN timelineDb = 0..(q - 1) /\ Len(timeline) = q + 1
  BY <1>3 DEF SavedInv, KeysSaved
<1>5. TimelineKey = q
  BY <1>4 DEF TimelineKey
<1>6. DOMAIN timelineDb' = 0..q /\ timelineDb'[q] = item
      /\ \A k \in DOMAIN timelineDb : timelineDb'[k] = timelineDb[k] /\ k < q
  <2>1. DOMAIN timelineDb' = (0..(q - 1)) \cup {q}
    BY <1>1, <1>4, <1>5
  <2>2. (0..(q - 1)) \cup {q} = 0..q
    OBVIOUS
  <2>3. \A k \in 0..(q - 1) : k # q /\ k < q
    OBVIOUS
  <2> QED
    BY <1>1, <1>4, <1>5, <2>1, <2>2, <2>3
<1>7. KeysSaved'
  <2>1. (q + 1) - 1 = q /\ q + 1 \in Nat
    OBVIOUS
  <2>2. Len(timeline') = (q + 1) + (IF Unsaved' THEN 1 ELSE 0)
    BY <1>1, <1>3, <1>4
  <2>3. DOMAIN timelineDb' = 0..((q + 1) - 1)
    BY <1>6, <2>1
  <2> QED
    BY <2>1, <2>2, <2>3 DEF KeysSaved
<1>8. item \in Hash => item \in DOMAIN blocks
  BY <1>0, <1>1 DEF StepOK, getLastBlock, BcInv, NumbersAgree, countBlocks
<1>9. DOMAIN headers' = DOMAIN headers \cup ({item} \cap Hash)
  BY <1>2
<1>10. BlocksSaved'
  <2>1. DOMAIN blocks' = DOMAIN blocks
    BY <1>0, <1>1, KeepsChain
  <2>2. DOMAIN headers = (DOMAIN blocks \cap Hash) \ {item}
    BY <1>3 DEF SavedInv, BlocksSaved
  <2> QED
    BY <1>3, <1>8, <1>9, <2>1, <2>2 DEF BlocksSaved
<1>11. PICK S : S = BlockKeys
  OBVIOUS
<1>12. /\ S \in SUBSET Nat /\ IsFiniteSet(S) /\ Ranked(S)
       /\ SavedBlocks = Listed(timelineDb, S)
       /\ \A k \in S : timelineDb[k] \in Hash
       /\ SavedLength \in Nat
       /\ S \subseteq DOMAIN timelineDb
  BY <1>11, SavedFacts DEF SavedInv, SavedLinked, BlockKeys
<1>13. BlockKeys' = S \cup (IF item \in Hash THEN {q} ELSE {})
  <2>1. \A k : k \in BlockKeys' <=> k \in 0..q /\ timelineDb'[k] \in Hash
    BY <1>6 DEF BlockKeys
  <2>2. \A k : k \in S <=> k \in DOMAIN timelineDb /\ timelineDb[k] \in Hash
    BY <1>11 DEF BlockKeys
  <2>3. \A k : k \in 0..q <=> k \in DOMAIN timelineDb \/ k = q
    BY <1>4
  <2> QED
    BY <1>6, <2>1, <2>2, <2>3
<1>14. \A k \in S : timelineDb'[k] = timelineDb[k] /\ k < q
  BY <1>6, <1>12
<1>15. CASE item \notin Hash
  <2>1. BlockKeys' = S
    BY <1>13, <1>15
  <2>2. SavedBlocks' = SavedBlocks
    <3>1. Listed(timelineDb', S) = Listed(timelineDb, S)
      BY <1>12, <1>14, ListSame
    <3> QED
      BY <1>12, <2>1, <3>1 DEF SavedBlocks, Listed
  <2>3. SavedLength' = SavedLength /\ headers' = headers /\ metadata' = metadata
    BY <1>2, <1>11, <1>15, <2>1 DEF SavedLength
  <2>4. SavedLinked'
    BY <1>11, <2>1, <2>2, <2>3 DEF SavedInv, SavedLinked
  <2> QED
    BY <1>1, <1>7, <1>10, <1>15, <2>2, <2>4 DEF SavedInv
<1>16. CASE item \in Hash
  <2>1. BlockKeys' = S \cup {q}
    BY <1>13, <1>16
  <2>2. /\ Ranked(S \cup {q})
        /\ Listed(timelineDb, S) \in Seq(Hash)
        /\ Len(Listed(timelineDb, S)) = Cardinality(S)
        /\ Listed(timelineDb', S \cup {q}) = Append(Listed(timelineDb, S), timelineDb'[q])
    <3>1. \A j \in S : j < q
      BY <1>14
    <3>2. \A k \in S : timelineDb'[k] = timelineDb[k] /\ timelineDb[k] \in Hash
      BY <1>12, <1>14
    <3>3. timelineDb'[q] \in Hash
      BY <1>6, <1>16
    <3>4. PICK f, g : f = timelineDb /\ g = timelineDb'
      BY Zenon
    <3>5. OneMore(f, g, S, q, Hash)
      BY <3>2, <3>3, <3>4 DEF OneMore
    <3>6. /\ Ranked(S \cup {q})
          /\ Listed(f, S) \in Seq(Hash) /\ Len(Listed(f, S)) = Cardinality(S)
          /\ Listed(g, S \cup {q}) = Append(Listed(f, S), g[q])
      <4>1. S \in SUBSET Nat /\ IsFiniteSet(S) /\ q \in Nat /\ Ranked(S)
        BY <1>12
      <4>2. Ranked(S \cup {q})
        BY <3>1, <3>5, <4>1, ListAdd
      <4>3. Listed(f, S) \in Seq(Hash) /\ Len(Listed(f, S)) = Cardinality(S)
        BY <3>1, <3>5, <4>1, ListAdd
      <4>4. Listed(g, S \cup {q}) = Append(Listed(f, S), g[q])
        BY <3>1, <3>5, <4>1, ListAdd
      <4> QED
        BY <4>2, <4>3, <4>4
    <3> QED
      BY <3>4, <3>6
  <2>3. PICK k \in Nat : k = SavedLength
    BY <1>12
  <2>4. PICK s : s = SavedBlocks
    OBVIOUS
  <2>5. s \in Seq(Hash) /\ Len(s) = k /\ SavedBlocks' = Append(s, item)
    <3>1. SavedBlocks' = Listed(timelineDb', S \cup {q})
      BY <2>1 DEF SavedBlocks, Listed
    <3>2. timelineDb'[q] = item
      BY <1>6
    <3>3. Len(s) = Cardinality(S) /\ s \in Seq(Hash) /\ s = Listed(timelineDb, S)
      BY <1>12, <2>2, <2>4
    <3>4. k = Cardinality(S)
      BY <1>11, <2>3 DEF SavedLength
    <3> QED
      BY <2>2, <3>1, <3>2, <3>3, <3>4
  <2>6. SavedLength' = k + 1
    <3>1. Cardinality(S \cup {q}) = Cardinality(S) + 1
      BY <1>12, <1>14, RankAdd
    <3> QED
      BY <1>11, <2>1, <2>3, <3>1 DEF SavedLength
  <2>7. PICK t : t = SavedBlocks'
    OBVIOUS
  <2>8. /\ t \in [1..(k + 1) -> Hash] /\ t[k + 1] = item
        /\ \A i \in 1..k : t[i] = s[i]
    <3>1. t = Append(s, item)
      BY <2>5, <2>7
    <3>2. t \in Seq(Hash) /\ Len(t) = k + 1
      BY <1>16, <2>5, <3>1
    <3>3. DOMAIN t = 1..(k + 1) /\ t \in [1..(k + 1) -> Hash]
      BY <3>2
    <3>4. t[k + 1] = item /\ \A i \in 1..k : t[i] = s[i]
      BY <1>16, <2>5, <3>1
    <3> QED
      BY <3>3, <3>4
  <2>9. prevHash[item] = IF k = 0 THEN Genesis ELSE s[k]
    BY <1>1, <1>16, <2>3, <2>4, NextSaved DEF SavedLast
  <2>10. k # 0 => IsChain(s, k)
    BY <2>3, <2>4 DEF SavedInv, SavedLinked
  <2>11. IsChain(t, k + 1)
    <3>1. CASE k = 0
      <4>1. t[1] = item /\ 2..(k + 1) = {}
        BY <2>8, <3>1
      <4> QED
        BY <2>8, <2>9, <3>1, <4>1 DEF IsChain
    <3>2. CASE k # 0
      <4>1. prevHash[s[1]] = Genesis /\ \A i \in 2..k : prevHash[s[i]] = s[i - 1]
        BY <2>10, <3>2 DEF IsChain
      <4>2. t[1] = s[1]
        BY <2>8, <3>2
      <4>3. ASSUME NEW i \in 2..(k + 1) PROVE prevHash[t[i]] = t[i - 1]
        <5>1. i - 1 \in 1..k
          OBVIOUS
        <5>2. t[i - 1] = s[i - 1]
          BY <2>8, <5>1
        <5>3. CASE i = k + 1
          BY <2>8, <2>9, <3>2, <5>2, <5>3
        <5>4. CASE i # k + 1
          <6>1. i \in 1..k /\ i \in 2..k
            BY <5>4
          <6> QED
            BY <2>8, <4>1, <5>2, <6>1
        <5> QED
          BY <5>3, <5>4
      <4> QED
        BY <2>8, <4>1, <4>2, <4>3 DEF IsChain
    <3> QED
      BY <3>1, <3>2
  <2>12. DOMAIN headers' = BlocksOf(t, k + 1)
    <3>1. DOMAIN headers = BlocksOf(s, k)
      BY <2>3, <2>4 DEF SavedInv, SavedLinked
    <3>2. \A i \in 1..(k + 1) : i = k + 1 \/ i \in 1..k
      OBVIOUS
    <3>3. k + 1 \in 1..(k + 1) /\ \A i \in 1..k : i \in 1..(k + 1)
      OBVIOUS
    <3>4. \A x : x \in BlocksOf(t, k + 1) <=> x \in BlocksOf(s, k) \/ x = item
      <4>1. ASSUME NEW x, x \in BlocksOf(t, k + 1) PROVE x \in BlocksOf(s, k) \/ x = item
        <5>1. PICK i \in 1..(k + 1) : x = t[i]
          BY <4>1 DEF BlocksOf
        <5> QED
          BY <2>8, <3>2, <5>1 DEF BlocksOf
      <4>2. ASSUME NEW x, x \in BlocksOf(s, k) \/ x = item PROVE x \in BlocksOf(t, k + 1)
        BY <2>8, <3>3, <4>2 DEF BlocksOf
      <4> QED
        BY <4>1, <4>2
    <3> QED
      BY <1>9, <1>16, <3>1, <3>4
  <2>13. metadata' = item
    <3> SUFFICES ASSUME metadata # NoHash, prevHash[metadata] = prevHash[item]
                 PROVE  metadata = item
      BY <1>2, <1>16 DEF NewMetadata
    <3>1. k # 0 /\ metadata = s[k]
      BY <2>3, <2>4 DEF SavedInv, SavedLinked
    <3>2. prevHash[metadata] = metadata
      BY <2>9, <3>1
    <3>3. metadata \in Hash
      BY <1>0 DEF DiskTypeOK
    <3>4. height[metadata] = height[metadata] + 1 \/ metadata = Genesis
      BY <3>2, <3>3, HeightAssumption
    <3> QED
      BY <3>3, <3>4, HeightAssumption, HashAssumption
  <2>14. SavedLinked'
    <3>1. k + 1 # 0 /\ Ranked(BlockKeys')
      BY <2>1, <2>2
    <3> QED
      BY <2>6, <2>7, <2>8, <2>11, <2>12, <2>13, <3>1 DEF SavedLinked
  <2> QED
    BY <1>1, <1>7, <1>10, <1>16, <2>3, <2>4, <2>5, <2>14 DEF SavedInv
<1> QED
  BY <1>15, <1>16

LEMMA DropSaved ==
    ASSUME SavedInv, DropDb
    PROVE  SavedInv' /\ SavedBlocks' = <<>>
<1>1. /\ headers' = [h \in {} |-> 0] /\ metadata' = NoHash /\ pc' = "rewrite"
      /\ timelineDb' = [k \in {} |-> NoHash] /\ faults' = faults
  BY DEF DropDb, envVars
<1>2. BlockKeys' = {} /\ DOMAIN headers' = {} /\ DOMAIN timelineDb' = {}
  BY <1>1 DEF BlockKeys
<1>3. SavedLength' = 0
  BY <1>2, FS_EmptySet DEF SavedLength
<1>4. Ranked(BlockKeys')
  BY <1>3 DEF Ranked, SavedLength
<1>5. DOMAIN headers' = BlocksOf(SavedBlocks, SavedLength)'
  BY <1>2, <1>3 DEF BlocksOf
<1>6. SavedBlocks' = <<>>
  BY <1>3 DEF SavedBlocks, SavedLength, Listed
<1>7. SavedLinked'
  BY <1>1, <1>3, <1>4, <1>5 DEF SavedLinked
<1>8. KeysSaved' /\ BlocksSaved'
  <2>1. pc' \notin Running
    BY <1>1 DEF Running
  <2>2. DOMAIN timelineDb' = 0..(0 - 1) /\ 0 \in Nat
    BY <1>2
  <2> QED
    BY <2>1, <2>2 DEF KeysSaved, BlocksSaved
<1> QED
  BY <1>1, <1>6, <1>7, <1>8 DEF SavedInv

\* The steps that write nothing to the database and take nothing into the
\* chain or the timeline.
LEMMA StartQuiet ==
    ASSUME SyncInv, SavedInv, StartFails \/ ReplayBlock \/ ReplayFails \/ ReplayDone
    PROVE  SavedInv' /\ SavedBlocks' = SavedBlocks
<1>0. BcInv
  BY Given
<1>1. /\ UNCHANGED <<headers, metadata, timelineDb, faults, timeline, bcVars>>
      /\ pc \in {"off", "replay"} /\ pc' \in {"failed", "replay", "idle"}
      /\ pc = "off" => pc' = "failed"
  BY DEF StartFails, ReplayBlock, ReplayFails, ReplayDone, diskVars, envVars
<1>2. DOMAIN blocks' = DOMAIN blocks
  BY <1>0, <1>1, KeepsChain
<1> QED
  BY <1>1, <1>2, QuietSaved DEF Running, Unsaved

LEMMA BlockQuiet ==
    ASSUME SyncInv, SavedInv,
           \/ Fetch \/ TakeFetched \/ TakeFromFile \/ FileSpins \/ FileDone \/ Save
           \/ SaveFails \/ AddKnown \/ AddFork \/ Push \/ Confirm
    PROVE  SavedInv' /\ SavedBlocks' = SavedBlocks
<1>0. BcInv
  BY Given
<1>1. CASE AddFork
  <2>1. /\ UNCHANGED <<headers, metadata, timelineDb, faults, timeline>>
        /\ pc = "add" /\ pc' = "ancestor" /\ item \in Hash /\ AddRefused(item)
    BY <1>1 DEF AddFork, diskVars, envVars
  <2>2. BcInv' /\ hashes' = hashes
    BY <1>0, <2>1, RefusedInv
  <2>3. DOMAIN blocks' = DOMAIN blocks
    BY <1>0, <2>2, SameChain
  <2> QED
    BY <2>1, <2>3, QuietSaved DEF Running, Unsaved
<1>2. CASE Push
  <2>1. /\ UNCHANGED <<headers, metadata, timelineDb, faults, timeline, item, bcVars>>
        /\ pc = "push" /\ pc' = "store"
    BY <1>2 DEF Push, diskVars, envVars
  <2>2. DOMAIN blocks' = DOMAIN blocks
    BY <1>0, <2>1, KeepsChain
  <2> QED
    BY <2>1, <2>2, QuietSaved DEF Running, Unsaved
<1>3. CASE FileSpins
  <2>1. /\ UNCHANGED <<headers, metadata, timelineDb, faults, timeline, item, bcVars, pc>>
    BY <1>3 DEF FileSpins, vars, diskVars, envVars
  <2>2. DOMAIN blocks' = DOMAIN blocks
    BY <1>0, <2>1, KeepsChain
  <2> QED
    BY <2>1, <2>2, QuietSaved DEF Unsaved
<1>4. CASE Fetch \/ TakeFetched \/ TakeFromFile \/ FileDone \/ Save \/ SaveFails
           \/ AddKnown \/ Confirm
  <2>1. /\ UNCHANGED <<headers, metadata, timelineDb, faults, timeline, bcVars>>
        /\ pc \in {"idle", "save", "add", "confirm"} /\ pc' \in {"idle", "save", "add"}
    BY <1>4 DEF Fetch, TakeFetched, TakeFromFile, FileDone, Save, SaveFails,
       AddKnown, AddExisting, Confirm, Retry, NextRound, diskVars, envVars
  <2>2. DOMAIN blocks' = DOMAIN blocks
    BY <1>0, <2>1, KeepsChain
  <2> QED
    BY <2>1, <2>2, QuietSaved DEF Running, Unsaved
<1> QED
  BY <1>1, <1>2, <1>3, <1>4

LEMMA ForkQuiet ==
    ASSUME SyncInv, SavedInv,
           \/ AncestorFails \/ AncestorSpins \/ AncestorDown \/ FalseAlarm \/ Conflict
           \/ Truncate \/ Rewrite \/ AppendServerBlock
    PROVE  SavedInv' /\ SavedBlocks' = SavedBlocks
<1>0. BcInv
  BY Given
<1>1. CASE AncestorFails \/ AncestorSpins \/ AncestorDown \/ FalseAlarm
  <2>1. /\ UNCHANGED <<headers, metadata, timelineDb, faults, timeline, bcVars>>
        /\ pc = "ancestor" /\ pc' \in {"idle", "ancestor"}
    BY <1>1 DEF AncestorFails, AncestorSpins, AncestorDown, FalseAlarm, ServerForks,
       Retry, NextRound, vars, diskVars, envVars
  <2>2. DOMAIN blocks' = DOMAIN blocks
    BY <1>0, <2>1, KeepsChain
  <2> QED
    BY <2>1, <2>2, QuietSaved DEF Running, Unsaved
<1>2. CASE Conflict \/ Truncate \/ Rewrite \/ AppendServerBlock
  <2>1. /\ UNCHANGED <<headers, metadata, timelineDb, faults>>
        /\ pc' \in {"truncate", "dropDb", "append", "off"}
    BY <1>2 DEF Conflict, Truncate, Rewrite, AppendServerBlock, Exit, diskVars, envVars
  <2> QED
    BY <2>1, QuietSaved DEF Running
<1> QED
  BY <1>1, <1>2

LEMMA OtherQuiet ==
    ASSUME SyncInv, SavedInv, MaxFaults = 0,
           OnlyServe \/ WorkerThread \/ Environment \/ UNCHANGED vars
    PROVE  SavedInv' /\ SavedBlocks' = SavedBlocks
<1>0. BcInv /\ faults = 0
  BY Given DEF SavedInv
<1>1. ~StoreFails /\ ~WorkFails
  BY <1>0 DEF StoreFails, WorkFails
<1>2. CASE Crash
  <2>1. UNCHANGED <<headers, metadata, timelineDb, faults>> /\ pc' = "off"
    BY <1>2 DEF Crash, Exit, diskVars
  <2> QED
    BY <2>1, QuietSaved DEF Running
<1>3. CASE OnlyServe \/ WorkerThread \/ ServerExtends \/ ServerReorgs \/ UNCHANGED vars
  <2>1. /\ UNCHANGED <<headers, metadata, timelineDb, faults, timeline, item, bcVars, pc>>
    BY <1>3 DEF OnlyServe, WorkerThread, Pop, WorkSaved, WorkDropped, WorkDone,
       ServerExtends, ServerReorgs, vars, diskVars, envVars
  <2>2. DOMAIN blocks' = DOMAIN blocks
    BY <1>0, <2>1, KeepsChain
  <2> QED
    BY <2>1, <2>2, QuietSaved DEF Unsaved
<1> QED
  BY <1>1, <1>2, <1>3 DEF Environment

\* A step extends the saved chain, removes it, or leaves it alone.
LEMMA SavedNext ==
    ASSUME SyncInv, SavedInv, MaxFaults = 0, [SyncNext]_vars
    PROVE  /\ SavedInv'
           /\ \/ SavedBlocks' = SavedBlocks
              \/ SavedBlocks' = <<>>
              \/ /\ item \in Hash /\ prevHash[item] = SavedLast
                 /\ SavedBlocks \in Seq(Hash) /\ Len(SavedBlocks) = SavedLength
                 /\ SavedBlocks' = Append(SavedBlocks, item)
<1>1. CASE StartSteps
  BY <1>1, StartSaved, StartQuiet DEF StartSteps
<1>2. CASE BlockSteps
  <2>1. CASE Store
    <3>1. pc = "store"
      BY <2>1 DEF Store
    <3> QED
      BY <2>1, <3>1, StoreSaved, NextSaved
  <2>2. CASE ~Store
    BY <1>2, <2>2, AddSaved, BlockQuiet DEF BlockSteps
  <2> QED
    BY <2>1, <2>2
<1>3. CASE ForkSteps
  BY <1>3, DropSaved, ForkQuiet DEF ForkSteps
<1>4. CASE OnlyServe \/ WorkerThread \/ Environment \/ UNCHANGED vars
  BY <1>4, OtherQuiet
<1> QED
  BY <1>1, <1>2, <1>3, <1>4 DEF SyncNext, SyncThread

LEMMA SavedStart ==
    ASSUME SyncInit
    PROVE  SavedInv /\ SavedBlocks = <<>>
<1>1. /\ headers = [h \in {} |-> 0] /\ metadata = NoHash /\ pc = "off"
      /\ timelineDb = [k \in {} |-> NoHash] /\ faults = 0
  BY DEF SyncInit
<1>2. BlockKeys = {} /\ DOMAIN headers = {} /\ DOMAIN timelineDb = {}
  BY <1>1 DEF BlockKeys
<1>3. SavedLength = 0
  BY <1>2, FS_EmptySet DEF SavedLength
<1>4. Ranked(BlockKeys)
  BY <1>3 DEF Ranked, SavedLength
<1>5. DOMAIN headers = BlocksOf(SavedBlocks, SavedLength)
  BY <1>2, <1>3 DEF BlocksOf
<1>6. SavedBlocks = <<>>
  BY <1>3 DEF SavedBlocks, SavedLength, Listed
<1>7. SavedLinked
  BY <1>1, <1>3, <1>4, <1>5 DEF SavedLinked
<1>8. KeysSaved /\ BlocksSaved
  <2>1. pc \notin Running
    BY <1>1 DEF Running
  <2>2. DOMAIN timelineDb = 0..(0 - 1) /\ 0 \in Nat
    BY <1>2
  <2> QED
    BY <2>1, <2>2 DEF KeysSaved, BlocksSaved
<1> QED
  BY <1>1, <1>6, <1>7, <1>8 DEF SavedInv

\* A linked list of blocks, all of which have headers, can be loaded.
LEMMA SavedLoads ==
    ASSUME SyncInv, SavedInv
    PROVE  DbRecoverable
<1>1. TimelineSequence
  <2>1. PICK q \in Nat : DOMAIN timelineDb = 0..(q - 1)
    BY DEF SavedInv, KeysSaved
  <2>2. Cardinality(0..(q - 1)) = q
    BY FS_Interval
  <2> QED
    BY <2>1, <2>2 DEF TimelineSequence
<1>2. metadata = NoHash => DOMAIN headers = {}
  BY Given DEF DbOK
<1>3. ASSUME metadata # NoHash
      PROVE  \E p \in Paths :
                /\ IsWalk(HeaderMap(DOMAIN headers), metadata, p)
                /\ WalkFits(HeaderMap(DOMAIN headers), <<Genesis>>, p)
                /\ SavedBlocks = [i \in 1..Len(p) |-> p[Len(p) - i + 1]]
                /\ RangeOf(p) = DOMAIN headers
  <2>1. PICK k \in Nat \ {0} : k = SavedLength
    BY <1>3, SavedFacts DEF SavedInv, SavedLinked
  <2>2. PICK s : s = SavedBlocks
    OBVIOUS
  <2>3. IsChain(s, k) /\ metadata = s[k] /\ DOMAIN headers = BlocksOf(s, k)
    BY <2>1, <2>2 DEF SavedInv, SavedLinked
  <2>4. PICK p \in Paths :
          /\ Len(p) = k /\ \A i \in 1..k : p[i] = s[(k - i) + 1]
          /\ IsWalk(HeaderMap(BlocksOf(s, k)), s[k], p)
          /\ WalkFits(HeaderMap(BlocksOf(s, k)), <<Genesis>>, p)
    BY <2>3, ChainWalk
  <2>5. DOMAIN p = 1..k
    <3>1. p \in AncestorLists
      BY <2>4 DEF Paths
    <3>2. PICK n \in Nat, h \in Hash : p = [i \in 1..n |-> Ancestor[i - 1][h]]
      <4>1. Cardinality(Hash) \in Nat
        BY HashAssumption, FS_CardinalityType
      <4>2. PICK n \in 1..Cardinality(Hash), h \in Hash :
                p = [i \in 1..n |-> Ancestor[i - 1][h]]
        BY <3>1 DEF AncestorLists
      <4> QED
        BY <4>1, <4>2
    <3>3. DOMAIN p = 1..n /\ Len(p) = n
      BY <3>2
    <3> QED
      BY <2>4, <3>3
  <2>6. \A i \in 1..k : (k - i) + 1 \in 1..k /\ (k - ((k - i) + 1)) + 1 = i
    OBVIOUS
  <2>7. \A i \in 1..k : p[(k - i) + 1] = s[i]
    BY <2>4, <2>6
  <2>8. DOMAIN s = 1..k /\ s = [i \in 1..k |-> s[i]]
    BY <2>3 DEF IsChain
  <2>9. s = [i \in 1..Len(p) |-> p[Len(p) - i + 1]]
    BY <2>4, <2>7, <2>8
  <2>10. RangeOf(p) = BlocksOf(s, k)
    <3>1. \A x \in RangeOf(p) : x \in BlocksOf(s, k)
      BY <2>4, <2>5, <2>6 DEF RangeOf, BlocksOf
    <3>2. \A x \in BlocksOf(s, k) : x \in RangeOf(p)
      BY <2>5, <2>6, <2>7 DEF RangeOf, BlocksOf
    <3> QED
      BY <3>1, <3>2
  <2> QED
    BY <2>2, <2>3, <2>4, <2>9, <2>10
<1> QED
  BY <1>1, <1>2, <1>3 DEF DbRecoverable

\* The saved timeline is the chain in memory but for the element at hand, and
\* its blocks are linked.
THEOREM SavedInvariant ==
    ASSUME "dropDb" \notin CrashPoints, MaxFaults = 0
    PROVE  SyncSpec => [](SyncInv /\ SavedInv)
<1>1. SyncInit => SyncInv /\ SavedInv
  BY InvInit, SavedStart
<1>2. SyncInv /\ SavedInv /\ [SyncNext]_vars => SyncInv' /\ SavedInv'
  BY InvNext, SavedNext
<1> QED
  BY <1>1, <1>2, PTL DEF SyncSpec

\* Whatever the moment of a crash, and after any number of crashes, forks and
\* recoveries, the database can be loaded, and the chain numbered from the
\* headers is the one that the timeline recorded.
THEOREM DbAlwaysRecoverable ==
    ASSUME "dropDb" \notin CrashPoints, MaxFaults = 0
    PROVE  SyncSpec => []DbRecoverable
<1>1. SyncInv /\ SavedInv => DbRecoverable
  BY SavedLoads
<1> QED
  BY <1>1, SavedInvariant, PTL

\* The saved chain behaves as DurableChain says: it grows by children of its
\* last block, and is only ever lost as a whole.
THEOREM DurableChainImplemented ==
    ASSUME "dropDb" \notin CrashPoints, MaxFaults = 0
    PROVE  SyncSpec => SavesDurableChain
<1>1. SyncInit => Durable!DcInit
  BY SavedStart DEF Durable!DcInit
<1>2. SyncInv /\ SavedInv /\ [SyncNext]_vars => [Durable!DcNext]_SavedBlocks
  <2> SUFFICES ASSUME SyncInv, SavedInv, [SyncNext]_vars
               PROVE  [Durable!DcNext]_SavedBlocks
    OBVIOUS
  <2>1. CASE SavedBlocks' = SavedBlocks
    BY <2>1
  <2>2. CASE SavedBlocks' = <<>>
    BY <2>2 DEF Durable!DcNext, Durable!StartOver
  <2>3. CASE /\ item \in Hash /\ prevHash[item] = SavedLast
             /\ SavedBlocks \in Seq(Hash) /\ Len(SavedBlocks) = SavedLength
             /\ SavedBlocks' = Append(SavedBlocks, item)
    <3>1. SavedLast = Durable!Last
      <4>1. SavedLength = 0 <=> SavedBlocks = <<>>
        BY <2>3
      <4> QED
        BY <2>3, <4>1 DEF SavedLast, Durable!Last
    <3>2. Durable!Extend
      BY <2>3, <3>1 DEF Durable!Extend
    <3> QED
      BY <3>2 DEF Durable!DcNext
  <2> QED
    BY <2>1, <2>2, <2>3, SavedNext
<1> QED
  BY <1>1, <1>2, SavedInvariant, PTL DEF SyncSpec, SavesDurableChain, Durable!DcSpec

(***************************************************************************)
(* The main worker: what it has saved, works at and waits for are blocks   *)
(* with their own numbers, whatever forks, failures and restarts there are.*)
(***************************************************************************)

Fits(e) == e.hash \in Hash /\ e.number = height[e.hash]

EntriesOK ==
    /\ mainBlock = NoEntry \/ Fits(mainBlock)
    /\ working = NoEntry \/ Fits(working)
    /\ \A i \in DOMAIN queue : Fits(queue[i])
    /\ pc = "replay" => position = headers /\ walkNum > 0
    /\ pc = "off" => queue = <<>> /\ working = NoEntry /\ initBlock = 0

\* The number of an entry that is pushed.
LEMMA PushFits ==
    ASSUME EntriesOK, NEW n, NEW h \in Hash, n = height[h], PushToWorker(n, h)
    PROVE  \A i \in DOMAIN queue' : Fits(queue'[i])
<1>1. CASE n > initBlock
  <2>1. queue' = <<Entry(n, h)>>
    BY <1>1 DEF PushToWorker
  <2>2. Entry(n, h).hash = h /\ Entry(n, h).number = n
    BY DEF Entry
  <2>3. Fits(Entry(n, h))
    BY <2>2 DEF Fits
  <2> HIDE DEF Entry
  <2> QED
    BY <2>1, <2>3
<1>2. CASE ~(n > initBlock)
  BY <1>2 DEF PushToWorker, EntriesOK
<1> QED
  BY <1>1, <1>2

\* A block that is replayed is the one of the chain.
LEMMA ReplayedBlock ==
    ASSUME SyncInv, EntriesOK, ReplayBlock
    PROVE  PushToWorker(walkNum, getBlock(walkNum)) /\ walkNum \in 1..countBlocks
<1>1. /\ pc = "replay" /\ walkNum \in Nat /\ countBlocks \in Nat /\ walkNum <= countBlocks
      /\ position = headers /\ walkNum > 0
  BY Given DEF ReplayBlock, EntriesOK, ThreadTypeOK
<1>2. walkNum \in 1..countBlocks
  BY <1>1
<1>3. getBlock(walkNum) \in DOMAIN headers /\ getBlock(walkNum) \in Hash
  BY <1>1, <1>2, Given, ListHeights DEF PlacesOK, Running
<1>4. PICK pos : pos = position[getBlock(walkNum)]
  OBVIOUS
<1>5. pos \in 1..Len(file) /\ file[pos] = getBlock(walkNum)
  BY <1>1, <1>3, <1>4, Given DEF PlacesOK
<1>6. BlockAt(pos)
  BY <1>3, <1>5 DEF BlockAt
<1>7. PushToWorker(walkNum, file[pos])
  BY <1>4, <1>6 DEF ReplayBlock
<1> QED
  BY <1>2, <1>5, <1>7

LEMMA PushedBlock ==
    ASSUME SyncInv, Push
    PROVE  /\ item \in Hash /\ item = getBlock(countBlocks)
           /\ countBlocks \in Nat \ {0} /\ height[item] = countBlocks
           /\ PushToWorker(countBlocks, item)
<1>1. item \in Hash /\ item = getBlock(countBlocks) /\ PushToWorker(countBlocks, item)
  BY Given DEF StepOK, Push, NumberInChain, getLastBlock
<1>2. countBlocks \in Nat /\ countBlocks # 0
  BY <1>1, Given, HashAssumption
<1>3. countBlocks \in 1..countBlocks
  BY <1>2
<1>4. height[item] = countBlocks
  BY <1>1, <1>3, Given, ListHeights
<1> QED
  BY <1>1, <1>2, <1>4

\* The steps that leave the worker and its queue alone.
SameWorker == UNCHANGED <<queue, working, mainBlock, initBlock>>

LEMMA EntriesSame ==
    ASSUME EntriesOK, SameWorker, pc' \notin {"replay", "off"}
    PROVE  EntriesOK'
BY DEF EntriesOK, SameWorker, Fits

LEMMA WorkerSame ==
    /\ StartFails \/ ReplayFails \/ ReplayDone =>
        SameWorker /\ pc' \in {"failed", "idle"}
    /\ BlockSteps /\ ~Push => SameWorker /\ (pc' \notin {"replay", "off"} \/ UNCHANGED vars)
    /\ ForkSteps /\ ~DropDb /\ ~AppendServerBlock =>
        SameWorker /\ (pc' \notin {"replay", "off"} \/ UNCHANGED vars)
    /\ OnlyServe => UNCHANGED vars
    /\ ServerExtends \/ ServerReorgs => SameWorker /\ UNCHANGED <<pc, position, headers, walkNum>>
    /\ StoreFails => SameWorker /\ pc' = "idle"
    /\ UNCHANGED vars => SameWorker /\ UNCHANGED <<pc, position, headers, walkNum>>
<1> USE DEF SameWorker, workerVars
<1>1. StartFails \/ ReplayFails \/ ReplayDone => SameWorker /\ pc' \in {"failed", "idle"}
  BY DEF StartFails, ReplayFails, ReplayDone
<1>2. BlockSteps /\ ~Push => SameWorker /\ (pc' \notin {"replay", "off"} \/ UNCHANGED vars)
  <2>1. Fetch \/ TakeFetched \/ TakeFromFile \/ FileDone \/ Save \/ SaveFails =>
            SameWorker /\ pc' \notin {"replay", "off"}
    BY DEF Fetch, TakeFetched, TakeFromFile, FileDone, Save, SaveFails, Retry, NextRound
  <2>2. AddToChain \/ AddKnown \/ AddFork \/ AddSign =>
            SameWorker /\ pc' \notin {"replay", "off"}
    BY DEF AddToChain, AddKnown, AddFork, AddSign, Retry, NextRound
  <2>3. Store \/ Confirm => SameWorker /\ pc' \notin {"replay", "off"}
    BY DEF Store, Confirm, NextRound
  <2>4. FileSpins => SameWorker /\ UNCHANGED vars
    BY DEF FileSpins, vars
  <2> QED
    BY <2>1, <2>2, <2>3, <2>4 DEF BlockSteps
<1>3. ForkSteps /\ ~DropDb /\ ~AppendServerBlock =>
            SameWorker /\ (pc' \notin {"replay", "off"} \/ UNCHANGED vars)
  <2>1. AncestorFails \/ AncestorDown \/ FalseAlarm \/ Conflict \/ Truncate \/ Rewrite =>
            SameWorker /\ pc' \notin {"replay", "off"}
    BY DEF AncestorFails, AncestorDown, FalseAlarm, ServerForks, Conflict, Truncate, Rewrite,
       Retry, NextRound
  <2>2. AncestorSpins => SameWorker /\ UNCHANGED vars
    BY DEF AncestorSpins, vars
  <2> QED
    BY <2>1, <2>2 DEF ForkSteps
<1>4. OnlyServe => UNCHANGED vars
  BY DEF OnlyServe
<1>5. ServerExtends \/ ServerReorgs => SameWorker /\ UNCHANGED <<pc, position, headers, walkNum>>
  BY DEF ServerExtends, ServerReorgs, diskVars
<1>6. StoreFails => SameWorker /\ pc' = "idle"
  BY DEF StoreFails, Retry, NextRound
<1>7. UNCHANGED vars => SameWorker /\ UNCHANGED <<pc, position, headers, walkNum>>
  BY DEF vars, diskVars
<1> QED
  BY <1>1, <1>2, <1>3, <1>4, <1>5, <1>6, <1>7, Zenon

LEMMA EntriesNext ==
    ASSUME SyncInv, EntriesOK, [SyncNext]_vars
    PROVE  EntriesOK'
<1>1. CASE Start
  <2>1. mainBlock.number \in Nat
    BY Given DEF WorkerTypeOK, Entries
  <2>2. /\ position' = headers /\ headers' = headers /\ pc' = "replay"
        /\ walkNum' = mainBlock.number + 1 /\ UNCHANGED <<queue, working, mainBlock>>
    BY <1>1 DEF Start, diskVars, ReplayFrom
  <2> QED
    BY <2>1, <2>2 DEF EntriesOK, Fits
<1>2. CASE ReplayBlock
  <2>1. PushToWorker(walkNum, getBlock(walkNum)) /\ walkNum \in 1..countBlocks
    BY <1>2, ReplayedBlock
  <2>2. getBlock(walkNum) \in Hash /\ height[getBlock(walkNum)] = walkNum
    BY <2>1, Given, ListHeights
  <2>3. \A i \in DOMAIN queue' : Fits(queue'[i])
    BY <2>1, <2>2, PushFits
  <2>4. /\ UNCHANGED <<pc, position, headers, working, mainBlock>>
        /\ pc' = "replay" /\ walkNum' = walkNum + 1
    BY <1>2 DEF ReplayBlock, diskVars
  <2> QED
    BY <2>1, <2>3, <2>4 DEF EntriesOK, Fits
<1>3. CASE Push
  <2>1. \A i \in DOMAIN queue' : Fits(queue'[i])
    BY <1>3, PushedBlock, PushFits
  <2>2. UNCHANGED <<working, mainBlock>> /\ pc' = "store"
    BY <1>3 DEF Push
  <2> QED
    BY <2>1, <2>2 DEF EntriesOK, Fits
<1>4. CASE DropDb
  <2>1. UNCHANGED <<queue, working>> /\ mainBlock' = NoEntry /\ pc' = "rewrite"
    BY <1>4 DEF DropDb
  <2> QED
    BY <2>1 DEF EntriesOK, Fits
<1>5. CASE Crash \/ AppendServerBlock
  <2>1. /\ mainBlock' = mainBlock /\ queue' = <<>> /\ working' = NoEntry
        /\ initBlock' = 0 /\ pc' = "off"
    BY <1>5 DEF Crash, AppendServerBlock, Exit, NoProcess
  <2> QED
    BY <2>1 DEF EntriesOK, Fits
<1>6. CASE Pop
  <2>1. /\ working' = Head(queue) /\ queue' = Tail(queue) /\ queue # <<>>
        /\ UNCHANGED <<mainBlock, initBlock, pc, position, headers, walkNum>>
    BY <1>6 DEF Pop, diskVars
  <2>2. queue \in Seq(Entries)
    BY Given DEF WorkerTypeOK
  <2>3. 1 \in DOMAIN queue /\ Head(queue) = queue[1]
    BY <2>1, <2>2
  <2>4. \A i \in DOMAIN Tail(queue) : i + 1 \in DOMAIN queue /\ Tail(queue)[i] = queue[i + 1]
    BY <2>1, <2>2
  <2>5. Fits(working') /\ \A i \in DOMAIN queue' : Fits(queue'[i])
    BY <2>1, <2>3, <2>4 DEF EntriesOK
  <2>6. pc' # "off"
    BY <2>1 DEF EntriesOK
  <2> QED
    BY <2>1, <2>5, <2>6 DEF EntriesOK, Fits
<1>7. CASE WorkSaved \/ WorkDropped \/ WorkFails
  <2>1. /\ working # NoEntry /\ working' = NoEntry /\ mainBlock' \in {mainBlock, working}
        /\ UNCHANGED <<queue, initBlock, pc, position, headers, walkNum>>
    BY <1>7 DEF WorkSaved, WorkDropped, WorkFails, WorkDone, diskVars
  <2> QED
    BY <2>1 DEF EntriesOK, Fits
<1>8. CASE ServerExtends \/ ServerReorgs \/ UNCHANGED vars
  <2>1. SameWorker /\ UNCHANGED <<pc, position, headers, walkNum>>
    BY <1>8, WorkerSame, Zenon
  <2> QED
    BY <2>1 DEF EntriesOK, Fits, SameWorker
<1>9. CASE StartFails \/ ReplayFails \/ ReplayDone \/ StoreFails
  <2>1. SameWorker /\ pc' \in {"failed", "idle"}
    BY <1>9, WorkerSame, Zenon
  <2> QED
    BY <2>1, EntriesSame
<1>10. CASE (BlockSteps /\ ~Push) \/ (ForkSteps /\ ~DropDb /\ ~AppendServerBlock)
  BY <1>8, <1>10, WorkerSame, EntriesSame, Zenon
<1> QED
  BY <1>1, <1>2, <1>3, <1>4, <1>5, <1>6, <1>7, <1>8, <1>9, <1>10, WorkerSame, Zenon
     DEF SyncNext, SyncThread, StartSteps, WorkerThread, Environment

(***************************************************************************)
(* Without failures: a worker that has saved nothing gets the first block  *)
(* first.  It takes no block that does not follow the one it has saved.    *)
(***************************************************************************)

\* The number of the block that the synchronising thread pushes next.
NextPushed ==
    IF pc = "replay" THEN walkNum
    ELSE IF pc = "push" THEN countBlocks ELSE countBlocks + 1

FirstOK ==
    mainBlock = NoEntry /\ pc \notin {"off", "rewrite", "append"} =>
        /\ initBlock = 0
        /\ working # NoEntry => working.number = 1
        /\ working = NoEntry /\ queue # <<>> => queue[1].number = 1
        /\ working = NoEntry /\ queue = <<>> /\ pc \in Running => NextPushed = 1

LEMMA FirstSame ==
    ASSUME FirstOK, SameWorker, pc \notin {"off", "rewrite", "append"},
           pc' \in Running => pc \in Running /\ NextPushed' = NextPushed
    PROVE  FirstOK'
BY DEF FirstOK, SameWorker

\* A block that is pushed to a worker without blocks comes behind the first.
LEMMA FirstPushed ==
    ASSUME FirstOK, NEW h, pc \in Running, NextPushed \in Nat \ {0}, pc' \in Running,
           PushToWorker(NextPushed, h), UNCHANGED <<working, mainBlock, initBlock>>
    PROVE  FirstOK'
<1> SUFFICES ASSUME mainBlock = NoEntry
             PROVE  /\ initBlock = 0
                    /\ working # NoEntry => working.number = 1
                    /\ working = NoEntry => queue' # <<>> /\ queue'[1].number = 1
  BY DEF FirstOK
<1>1. pc \notin {"off", "rewrite", "append"}
  BY DEF Running
<1>2. /\ initBlock = 0 /\ (working # NoEntry => working.number = 1)
      /\ (working = NoEntry /\ queue = <<>> => NextPushed = 1)
  BY <1>1 DEF FirstOK
<1>3. PICK n : n = NextPushed
  OBVIOUS
<1>4. n > initBlock
  BY <1>2, <1>3
<1>5. queue = <<>> /\ queue' = <<Entry(n, h)>>
  BY <1>3, <1>4 DEF PushToWorker
<1>6. queue' # <<>> /\ queue'[1].number = n
  BY <1>5 DEF Entry
<1> QED
  BY <1>2, <1>3, <1>5, <1>6

\* The chain and the place of the thread in the steps that push nothing.
LEMMA NextSame ==
    ASSUME SyncInv, (BlockSteps /\ ~Push) \/ ForkSteps \/ StoreFails, pc' \in Running
    PROVE  pc \in Running /\ NextPushed' = NextPushed
<1>0. BcInv /\ countBlocks \in Nat
  BY Given
<1>1. CASE \/ Fetch \/ TakeFetched \/ TakeFromFile \/ FileDone \/ Save \/ SaveFails
           \/ AddKnown \/ AddSign \/ Store \/ Confirm \/ StoreFails
  <2>1. /\ UNCHANGED bcVars /\ pc \in Running \ {"replay", "push"}
        /\ pc' \notin {"replay", "push"}
    BY <1>1 DEF Fetch, TakeFetched, TakeFromFile, FileDone, Save, SaveFails, AddKnown,
       AddExisting, AddSign, Store, Confirm, StoreFails, Retry, NextRound, Running
  <2>2. countBlocks' = countBlocks
    BY <1>0, <2>1, KeepsChain
  <2> QED
    BY <2>1, <2>2 DEF NextPushed
<1>2. CASE FileSpins \/ AncestorSpins
  BY <1>2 DEF FileSpins, AncestorSpins, vars, bcVars, NextPushed, countBlocks
<1>3. CASE AddToChain
  <2>1. pc = "add" /\ item \in Hash /\ AddAccepted(item)
    BY <1>3 DEF AddToChain
  <2>2. hashes' = Append(hashes, item)
    BY <1>0, <2>1, AcceptedInv
  <2>3. countBlocks' = countBlocks + 1
    BY <1>0, <2>2 DEF countBlocks, BcInv, BcTypeOK
  <2>4. item \notin RangeOf(timeline)
    <3>1. item \notin DOMAIN blocks
      BY <2>1 DEF AddAccepted
    <3> QED
      BY <2>1, <3>1, Given DEF TimelineOK, RangeOf, Running
  <2>5. pc' = "push"
    BY <1>3, <2>4 DEF AddToChain
  <2> QED
    BY <2>1, <2>3, <2>5 DEF NextPushed, Running
<1>4. CASE AddFork
  <2>1. pc = "add" /\ pc' = "ancestor" /\ item \in Hash /\ AddRefused(item)
    BY <1>4 DEF AddFork
  <2>2. hashes' = hashes
    BY <1>0, <2>1, RefusedInv
  <2> QED
    BY <2>1, <2>2 DEF NextPushed, countBlocks, Running
<1>5. CASE AncestorFails \/ AncestorDown \/ FalseAlarm
  <2>1. UNCHANGED bcVars /\ pc = "ancestor" /\ pc' \in {"ancestor", "idle"}
    BY <1>5 DEF AncestorFails, AncestorDown, FalseAlarm, ServerForks, Retry, NextRound
  <2>2. countBlocks' = countBlocks
    BY <1>0, <2>1, KeepsChain
  <2> QED
    BY <2>1, <2>2 DEF NextPushed, Running
<1>6. CASE Conflict \/ Truncate \/ DropDb \/ Rewrite \/ AppendServerBlock
  BY <1>6 DEF Conflict, Truncate, DropDb, Rewrite, AppendServerBlock, Exit, Running
<1> QED
  BY <1>1, <1>2, <1>3, <1>4, <1>5, <1>6 DEF BlockSteps, ForkSteps

LEMMA FirstNext ==
    ASSUME SyncInv, EntriesOK, FirstOK, faults = 0, MaxFaults = 0, [SyncNext]_vars
    PROVE  FirstOK' /\ faults' = 0
<1>0. /\ ~StoreFails /\ ~WorkFails
  BY DEF StoreFails, WorkFails
<1>1. CASE Start
  <2>1. /\ queue' = <<>> /\ working' = NoEntry /\ mainBlock' = mainBlock
        /\ initBlock' = mainBlock.number /\ walkNum' = mainBlock.number + 1
        /\ pc' = "replay" /\ faults' = faults
    BY <1>1 DEF Start, EntriesOK, ReplayFrom, envVars
  <2>2. NextPushed' = mainBlock.number + 1
    BY <2>1 DEF NextPushed
  <2>3. mainBlock = NoEntry => mainBlock.number = 0
    BY DEF NoEntry, Entry
  <2> QED
    BY <2>1, <2>2, <2>3 DEF FirstOK
<1>2. CASE StartFails
  <2>1. /\ queue' = <<>> /\ working' = NoEntry /\ initBlock' = 0 /\ pc' = "failed"
        /\ faults' = faults
    BY <1>2 DEF StartFails, EntriesOK, workerVars, envVars
  <2> QED
    BY <2>1 DEF FirstOK, Running, Recovering
<1>3. CASE ReplayBlock
  <2>1. PushToWorker(walkNum, getBlock(walkNum)) /\ walkNum \in 1..countBlocks
    BY <1>3, ReplayedBlock
  <2>2. /\ pc = "replay" /\ pc' = "replay" /\ faults' = faults
        /\ UNCHANGED <<working, mainBlock, initBlock>>
    BY <1>3 DEF ReplayBlock, envVars
  <2>3. NextPushed = walkNum
    BY <2>2 DEF NextPushed
  <2> QED
    BY <2>1, <2>2, <2>3, FirstPushed, Given DEF Running
<1>4. CASE ReplayFails
  <2>1. SameWorker /\ pc = "replay" /\ pc' = "failed" /\ faults' = faults
    BY <1>4 DEF ReplayFails, SameWorker, workerVars, envVars
  <2> QED
    BY <2>1, FirstSame DEF Running, Recovering
<1>5. CASE ReplayDone
  <2>1. /\ SameWorker /\ pc = "replay" /\ pc' = "idle" /\ faults' = faults
        /\ walkNum > countBlocks /\ UNCHANGED bcVars
    BY <1>5 DEF ReplayDone, SameWorker, workerVars, envVars
  <2>2. countBlocks' = countBlocks /\ countBlocks \in Nat
    BY <2>1, Given, KeepsChain
  <2>3. NextPushed = walkNum /\ NextPushed' = countBlocks + 1
    BY <2>1, <2>2 DEF NextPushed
  <2>4. NextPushed = 1 => NextPushed' = 1
    BY <2>1, <2>2, <2>3
  <2> QED
    BY <2>1, <2>4 DEF FirstOK, SameWorker, Running
<1>6. CASE Push
  <2>1. countBlocks \in Nat \ {0} /\ PushToWorker(countBlocks, item)
    BY <1>6, PushedBlock
  <2>2. /\ pc = "push" /\ pc' = "store" /\ faults' = faults
        /\ UNCHANGED <<working, mainBlock, initBlock>>
    BY <1>6 DEF Push, envVars
  <2>3. NextPushed = countBlocks
    BY <2>2 DEF NextPushed
  <2> QED
    BY <2>1, <2>2, <2>3, FirstPushed DEF Running
<1>7. CASE (BlockSteps /\ ~Push) \/ (ForkSteps /\ ~DropDb /\ ~Rewrite /\ ~AppendServerBlock)
  <2>1. SameWorker
    <3>1. UNCHANGED vars => SameWorker
      BY DEF vars, workerVars, SameWorker
    <3> QED
      BY <1>7, <3>1, WorkerSame, Zenon
  <2>2. pc \notin {"off", "rewrite", "append"} /\ faults' = faults
    <3>1. CASE BlockSteps
      BY <3>1 DEF BlockSteps, Fetch, TakeFetched, TakeFromFile, FileDone, FileSpins, Save,
         SaveFails, AddToChain, AddKnown, AddFork, AddSign, Push, Store, Confirm, envVars, vars
    <3>2. CASE ForkSteps /\ ~DropDb /\ ~Rewrite /\ ~AppendServerBlock
      BY <3>2 DEF ForkSteps, AncestorFails, AncestorSpins, AncestorDown, FalseAlarm, Conflict,
         Truncate, ServerForks, envVars, vars
    <3> QED
      BY <1>7, <3>1, <3>2
  <2>3. pc' \in Running => pc \in Running /\ NextPushed' = NextPushed
    BY <1>7, NextSame
  <2> QED
    BY <2>1, <2>2, <2>3, FirstSame
<1>8. CASE DropDb \/ Rewrite \/ AppendServerBlock \/ Crash
  <2>1. pc' \in {"off", "rewrite", "append"} /\ faults' = faults
    BY <1>8 DEF DropDb, Rewrite, AppendServerBlock, Crash, Exit, envVars
  <2> QED
    BY <2>1 DEF FirstOK
<1>9. CASE Pop
  <2>1. /\ working = NoEntry /\ queue # <<>> /\ working' = Head(queue)
        /\ UNCHANGED <<mainBlock, initBlock, pc, walkNum, hashes>> /\ faults' = faults
    BY <1>9 DEF Pop, bcVars, envVars
  <2>2. queue \in Seq(Entries) /\ Head(queue) = queue[1]
    BY <2>1, Given DEF WorkerTypeOK
  <2>3. working' # NoEntry
    <3>1. Fits(queue[1])
      BY <2>1, <2>2 DEF EntriesOK
    <3> QED
      BY <2>1, <2>2, <3>1, SyncAssumption DEF Fits, NoEntry, Entry, Block
  <2> QED
    BY <2>1, <2>2, <2>3 DEF FirstOK
<1>10. CASE WorkSaved \/ WorkDropped
  <2>1. /\ working # NoEntry /\ faults' = faults
        /\ UNCHANGED <<queue, initBlock, pc, walkNum, hashes>>
    BY <1>10 DEF WorkSaved, WorkDropped, WorkDone, bcVars
  <2>2. mainBlock = NoEntry /\ pc \notin {"off", "rewrite", "append"} => mainBlock' # NoEntry
    <3> SUFFICES ASSUME mainBlock = NoEntry, pc \notin {"off", "rewrite", "append"}
                 PROVE  mainBlock' # NoEntry
      OBVIOUS
    <3>1. mainBlock.number = 0 /\ mainBlock.hash = NoHash
      BY DEF NoEntry, Entry
    <3>2. working.number = 1
      BY <2>1 DEF FirstOK
    <3>3. working.number > mainBlock.number /\ PrevHashFits
      BY <3>1, <3>2 DEF PrevHashFits
    <3>4. mainBlock' = working
      BY <1>10, <3>3 DEF WorkSaved, WorkDropped
    <3> QED
      BY <2>1, <3>4
  <2>3. mainBlock' = NoEntry => mainBlock = NoEntry
    BY <1>10, <2>1 DEF WorkSaved, WorkDropped
  <2> QED
    BY <2>1, <2>2, <2>3 DEF FirstOK
<1>11. CASE ServerExtends \/ ServerReorgs \/ OnlyServe \/ UNCHANGED vars
  <2>1. UNCHANGED <<mainBlock, initBlock, queue, working, pc, walkNum, hashes, faults>>
    BY <1>11 DEF ServerExtends, ServerReorgs, OnlyServe, vars, workerVars, bcVars, envVars
  <2> QED
    BY <2>1 DEF FirstOK, NextPushed, countBlocks
<1> QED
  BY <1>0, <1>1, <1>2, <1>3, <1>4, <1>5, <1>6, <1>7, <1>8, <1>9, <1>10, <1>11, Zenon
     DEF SyncNext, SyncThread, StartSteps, ForkSteps, WorkerThread, Environment

LEMMA ContiguousNext ==
    ASSUME SyncInv, EntriesOK, FirstOK, [SyncNext]_vars
    PROVE  mainBlock'.number \in {0, mainBlock.number, mainBlock.number + 1}
<1>1. NoEntry.number = 0 /\ NoEntry.hash = NoHash
  BY DEF NoEntry, Entry
<1>2. CASE mainBlock' \in {mainBlock, NoEntry}
  BY <1>1, <1>2
<1>3. CASE mainBlock' \notin {mainBlock, NoEntry}
  <2>1. WorkSaved
    <3>1. StartSteps \/ Push => mainBlock' = mainBlock
      BY DEF StartSteps, Start, StartFails, ReplayBlock, ReplayFails, ReplayDone, Push,
         workerVars
    <3>2. DropDb => mainBlock' = NoEntry
      BY DEF DropDb
    <3>3. AppendServerBlock \/ Crash \/ Pop \/ WorkDropped \/ WorkFails => mainBlock' = mainBlock
      BY DEF AppendServerBlock, Crash, Pop, WorkDropped, WorkFails
    <3>4. UNCHANGED vars \/ SameWorker => mainBlock' = mainBlock
      BY DEF vars, workerVars, SameWorker
    <3> QED
      BY <1>3, <3>1, <3>2, <3>3, <3>4, WorkerSame
         DEF SyncNext, SyncThread, WorkerThread, Environment
  <2>2. /\ mainBlock' = working /\ pc \notin {"rewrite", "append"} /\ working # NoEntry
        /\ PrevHashFits /\ Fits(working)
    BY <1>3, <2>1 DEF WorkSaved, EntriesOK
  <2>3. pc # "off"
    BY <2>2 DEF EntriesOK
  <2>4. CASE mainBlock = NoEntry
    BY <1>1, <2>2, <2>3, <2>4 DEF FirstOK
  <2>5. CASE mainBlock # NoEntry
    <3>1. Fits(mainBlock)
      BY <2>5 DEF EntriesOK
    <3>2. mainBlock.hash = prevHash[working.hash]
      BY <2>2, <3>1, SyncAssumption DEF PrevHashFits, Fits, Block
    <3>3. height[working.hash] = height[mainBlock.hash] + 1
      BY <2>2, <3>1, <3>2, HeightAssumption, HashAssumption DEF Fits
    <3> QED
      BY <2>2, <3>1, <3>3 DEF Fits
  <2> QED
    BY <2>4, <2>5
<1> QED
  BY <1>2, <1>3

LEMMA WorkerStart ==
    ASSUME SyncInit
    PROVE  EntriesOK /\ FirstOK /\ faults = 0
BY DEF SyncInit, EntriesOK, FirstOK

(***************************************************************************)
(* When the servers never change to another chain: all blocks there are    *)
(* come from it, and are added in its order.                               *)
(***************************************************************************)

OnServer(x) == \E n \in 1..LastNumber : x = ServerBlock(n)

\* All blocks that are on disk, in memory or on their way.
Present ==
    RangeOf(file) \cup RangeOf(loadedFile) \cup RangeOf(batch) \cup {item}
    \cup DOMAIN blocks \cup DOMAIN headers
    \cup {mainBlock.hash, working.hash} \cup {queue[i].hash : i \in DOMAIN queue}

ServedOK == \A x \in Present : x \in Hash => OnServer(x)

\* The parent of every block is among S or before it.
Linked(f, S) ==
    \A i \in DOMAIN f : f[i] \in Hash =>
        prevHash[f[i]] \in S \/ \E j \in 1..(i - 1) : f[j] = prevHash[f[i]]

\* What the thread knows once it has added the item at hand.
KnownThen == DOMAIN blocks \cup IF pc \in {"save", "add"} THEN {item} ELSE {}

NoForkOK ==
    /\ pc \notin {"ancestor"} \cup Recovering
    /\ Linked(file, {Genesis})
    /\ pc \in Running =>
        /\ \A x \in DOMAIN blocks : x \in Hash => x \in RangeOf(file)
        /\ pc \in {"save", "add"} /\ item \in Hash => prevHash[item] \in DOMAIN blocks
        /\ Linked(batch, KnownThen)
        /\ pc = "save" => gba = "network"
        /\ pc # "replay" /\ gba = "file" =>
            \A i \in DOMAIN file : i < cursor /\ file[i] \in Hash => file[i] \in KnownThen

\* The servers' chain is linked, and has one block of each height.
LEMMA ServerChain ==
    ASSUME tip \in Block
    PROVE  /\ \A n \in 1..LastNumber : ServerBlock(n) \in Hash /\ height[ServerBlock(n)] = n
           /\ \A n \in 2..LastNumber : prevHash[ServerBlock(n)] = ServerBlock(n - 1)
           /\ \A x, y \in Hash : OnServer(x) /\ OnServer(y) /\ height[x] = height[y] => x = y
           /\ \A x \in Hash : OnServer(x) =>
                height[x] \in 1..LastNumber /\ x = ServerBlock(height[x])
<1>1. /\ LastNumber \in Nat
      /\ \A n \in 1..LastNumber : ServerBlock(n) \in Hash /\ height[ServerBlock(n)] = n
  BY ServerFacts
<1>2. ASSUME NEW n \in 2..LastNumber PROVE prevHash[ServerBlock(n)] = ServerBlock(n - 1)
  <2>1. PICK k : k = LastNumber - n
    OBVIOUS
  <2>2. k \in Nat /\ LastNumber - (n - 1) = k + 1
    BY <1>1, <2>1
  <2>3. ServerBlock(n) = Ancestor[k][tip] /\ ServerBlock(n - 1) = Ancestor[k + 1][tip]
    BY <2>1, <2>2 DEF ServerBlock
  <2>4. Ancestor[k][tip] \in Hash
    <3>1. n \in 1..LastNumber
      BY <1>1
    <3> QED
      BY <1>1, <2>3, <3>1
  <2> QED
    BY <2>2, <2>3, <2>4, AncestorFacts
<1> QED
  BY <1>1, <1>2 DEF OnServer

\* The block above an ancestor of h is that ancestor of the parent of h.
LEMMA AncestorShift ==
    ASSUME NEW h \in Hash
    PROVE  \A n \in Nat : Ancestor[n + 1][h] = Ancestor[n][prevHash[h]]
<1> DEFINE Bad == {n \in Nat : Ancestor[n + 1][h] # Ancestor[n][prevHash[h]]}
<1>1. h \in Block /\ prevHash[h] \in Block
  BY HashAssumption DEF Block
<1>2. Bad = {}
  <2> SUFFICES ASSUME Bad # {} PROVE FALSE
    OBVIOUS
  <2>1. PICK n \in Bad : \A j \in Bad : n <= j
    <3>1. Bad \subseteq Nat
      OBVIOUS
    <3> QED
      BY <3>1, NatMin, Zenon
  <2>2. n \in Nat /\ Ancestor[n + 1][h] # Ancestor[n][prevHash[h]]
    OBVIOUS
  <2>3. n # 0
    <3>1. Ancestor[0][h] = h /\ Ancestor[0][prevHash[h]] = prevHash[h]
      BY <1>1, AncestorFacts
    <3>2. Ancestor[0 + 1][h] = prevHash[h]
      BY <1>1, <3>1, AncestorFacts
    <3> QED
      BY <2>2, <3>1, <3>2
  <2>4. PICK m \in Nat : n = m + 1
    <3>1. n - 1 \in Nat /\ n = (n - 1) + 1
      BY <2>2, <2>3
    <3> QED
      BY <3>1
  <2>5. Ancestor[m + 1][h] = Ancestor[m][prevHash[h]]
    BY <2>1, <2>4
  <2>6. m + 1 \in Nat
    OBVIOUS
  <2> QED
    BY <1>1, <2>2, <2>4, <2>5, <2>6, AncestorFacts
<1> QED
  BY <1>2

\* A new block of the servers leaves the others what they are.
LEMMA ServerGrows ==
    ASSUME tip \in Block, ServerExtends, NEW x, OnServer(x)
    PROVE  OnServer(x)'
<1>1. tip' \in Hash /\ prevHash[tip'] = tip
  BY DEF ServerExtends
<1>2. PICK t \in Hash : t = tip'
  BY <1>1
<1>3. LastNumber \in Nat /\ height[t] = LastNumber + 1
  <2>1. LastNumber \in Nat
    BY ServerFacts
  <2>2. tip # Genesis => tip \in Hash /\ LastNumber = height[tip]
    BY DEF LastNumber, Block
  <2>3. tip = Genesis => LastNumber = 0
    BY DEF LastNumber
  <2> QED
    BY <1>1, <1>2, <2>1, <2>2, <2>3, HeightAssumption
<1>4. LastNumber' = LastNumber + 1
  <2>1. t # Genesis
    BY <1>2, HashAssumption
  <2> QED
    BY <1>2, <1>3, <2>1 DEF LastNumber
<1>5. PICK n \in 1..LastNumber : x = ServerBlock(n)
  BY DEF OnServer
<1>6. PICK k : k = LastNumber - n
  OBVIOUS
<1>7. k \in Nat /\ (LastNumber + 1) - n = k + 1
  BY <1>3, <1>6
<1>8. Ancestor[k + 1][t] = Ancestor[k][tip]
  BY <1>1, <1>2, <1>7, AncestorShift
<1>9. ServerBlock(n)' = Ancestor[k + 1][t]
  BY <1>2, <1>4, <1>7 DEF ServerBlock
<1>10. ServerBlock(n)' = x
  BY <1>5, <1>6, <1>8, <1>9 DEF ServerBlock
<1>11. n \in 1..LastNumber'
  BY <1>3, <1>4
<1> QED
  BY <1>10, <1>11 DEF OnServer

\* A batch is the servers' blocks in their order, with sign blocks in between.
LEMMA ItemsLinked ==
    ASSUME countBlocks \in Nat, tip \in Block,
           NEW known \in SUBSET Sign, NEW n \in Nat, countBlocks + n <= LastNumber,
           NEW x, x = Items(n, known), NEW j \in DOMAIN x, x[j] \in Hash
    PROVE  \E m \in 1..n :
             /\ x[j] = ServerBlock(countBlocks + m)
             /\ m = 1 \/ \E k \in 1..(j - 1) : x[k] = ServerBlock(countBlocks + (m - 1))
<1>1. PICK g :
        /\ Items(n, known) = g[n]
        /\ g[0] = IF n = 0 THEN SignsAfter(getLastBlock, known) ELSE <<>>
        /\ \A i \in 0..n : g[i] \in Seq(Item)
        /\ \A i \in 1..n :
             g[i] = g[i - 1] \o <<ServerBlock(countBlocks + i)>>
                      \o SignsAfter(ServerBlock(countBlocks + i), known)
  BY ItemsRun
<1> DEFINE From(i, k) == \E m \in 1..i :
             /\ g[i][k] = ServerBlock(countBlocks + m)
             /\ m = 1 \/ \E l \in 1..(k - 1) : g[i][l] = ServerBlock(countBlocks + (m - 1))
           Good(i) ==
             /\ \A k \in DOMAIN g[i] : g[i][k] \in Hash => From(i, k)
             /\ i > 0 => \E k \in DOMAIN g[i] : g[i][k] = ServerBlock(countBlocks + i)
           Bad == {i \in 0..n : ~Good(i)}
<1>2. Bad = {}
  <2> SUFFICES ASSUME Bad # {} PROVE FALSE
    OBVIOUS
  <2>1. PICK i \in Bad : \A k \in Bad : i <= k
    <3>1. Bad \subseteq Nat
      OBVIOUS
    <3> HIDE DEF Bad
    <3> QED
      BY <3>1, NatMin, Zenon
  <2>2. i \in 0..n /\ ~Good(i)
    OBVIOUS
  <2>3. i # 0
    <3>1. SignsAfter(getLastBlock, known) \in Seq(Sign)
      BY SignsFacts
    <3>2. g[0] \in Seq(Sign)
      BY <1>1, <3>1
    <3>3. \A k \in DOMAIN g[0] : g[0][k] \notin Hash
      BY <3>2, SyncAssumption DEF Block
    <3> QED
      BY <2>2, <3>3
  <2>4. i \in 1..n /\ i - 1 \in 0..n /\ i - 1 < i
    BY <2>2, <2>3
  <2>5. Good(i - 1)
    BY <2>1, <2>4
  <2>6. PICK q, h, s : /\ q = g[i - 1] /\ h = ServerBlock(countBlocks + i)
                       /\ s = SignsAfter(h, known)
    BY Zenon
  <2>7. g[i] = q \o <<h>> \o s
    BY <1>1, <2>4, <2>6
  <2>8. q \in Seq(Item) /\ s \in Seq(Sign) /\ s \in Seq(Item) /\ h \in Item
    <3>1. countBlocks + i \in 1..LastNumber
      BY <2>4, ServerFacts
    <3>2. h \in Item
      BY <2>6, <3>1, ServerFacts DEF Item
    <3> QED
      BY <1>1, <2>4, <2>6, <3>2, SignsFacts
  <2>9. /\ Len(q) \in Nat /\ DOMAIN q = 1..Len(q)
        /\ DOMAIN g[i] = 1..(Len(q) + 1 + Len(s))
        /\ \A k \in 1..Len(q) : g[i][k] = q[k]
        /\ g[i][Len(q) + 1] = h
        /\ \A k \in 1..Len(s) : g[i][Len(q) + 1 + k] = s[k]
    BY <2>7, <2>8
  <2>10. ASSUME NEW k \in DOMAIN g[i], g[i][k] \in Hash PROVE From(i, k)
    <3>1. CASE k \in 1..Len(q)
      <4>1. k \in DOMAIN g[i - 1] /\ g[i - 1][k] \in Hash
        BY <2>6, <2>9, <2>10, <3>1
      <4>2. PICK m \in 1..(i - 1) :
              /\ q[k] = ServerBlock(countBlocks + m)
              /\ m = 1 \/ \E l \in 1..(k - 1) : q[l] = ServerBlock(countBlocks + (m - 1))
        BY <2>5, <2>6, <4>1
      <4>3. m \in 1..i /\ \A l \in 1..(k - 1) : l \in 1..Len(q)
        BY <2>4, <2>9, <3>1
      <4> QED
        BY <2>9, <3>1, <4>2, <4>3
    <3>2. CASE k = Len(q) + 1
      <4>1. g[i][k] = ServerBlock(countBlocks + i)
        BY <2>6, <2>9, <3>2
      <4>2. i # 1 => \E l \in 1..(k - 1) : g[i][l] = ServerBlock(countBlocks + (i - 1))
        <5> SUFFICES ASSUME i # 1
                     PROVE  \E l \in 1..(k - 1) : g[i][l] = ServerBlock(countBlocks + (i - 1))
          OBVIOUS
        <5>1. i - 1 > 0
          BY <2>4
        <5>2. PICK l \in DOMAIN q : q[l] = ServerBlock(countBlocks + (i - 1))
          BY <2>5, <2>6, <5>1
        <5>3. l \in 1..(k - 1) /\ g[i][l] = q[l]
          BY <2>9, <3>2
        <5> QED
          BY <5>2, <5>3
      <4>3. i \in 1..i
        BY <2>4
      <4> QED
        BY <4>1, <4>2, <4>3
    <3>3. CASE k > Len(q) + 1
      <4>1. k - (Len(q) + 1) \in 1..Len(s) /\ Len(q) + 1 + (k - (Len(q) + 1)) = k
        BY <2>8, <2>9, <3>3
      <4>2. g[i][k] = s[k - (Len(q) + 1)]
        BY <2>9, <4>1
      <4>3. g[i][k] \in Sign
        BY <2>8, <4>1, <4>2
      <4> QED
        BY <2>10, <4>3, SyncAssumption DEF Block
    <3> QED
      BY <2>9, <3>1, <3>2, <3>3
  <2>11. \E k \in DOMAIN g[i] : g[i][k] = ServerBlock(countBlocks + i)
    <3>1. Len(q) + 1 \in DOMAIN g[i]
      BY <2>8, <2>9
    <3> QED
      BY <2>6, <2>9, <3>1
  <2> HIDE DEF From
  <2> QED
    BY <2>2, <2>10, <2>11
<1>3. Good(n)
  BY <1>2
<1>4. x = g[n] /\ j \in DOMAIN g[n] /\ g[n][j] \in Hash
  BY <1>1
<1>5. From(n, j)
  <2> HIDE DEF From
  <2> QED
    BY <1>3, <1>4
<1> QED
  BY <1>4, <1>5

\* The next batch that the thread fetches.
LEMMA FetchedBlocks ==
    ASSUME SyncInv, ServedOK, Fetch, NEW j \in DOMAIN batch', batch'[j] \in Hash
    PROVE  /\ OnServer(batch'[j])
           /\ \/ prevHash[batch'[j]] \in DOMAIN blocks
              \/ \E k \in 1..(j - 1) : batch'[k] = prevHash[batch'[j]]
<1>0. countBlocks \in Nat /\ tip \in Block /\ BcInv /\ OrphansNotNumbered
  BY Given DEF ThreadTypeOK
<1>1. LastNumber \in Nat /\ BatchSize \in Nat \ {0}
  BY <1>0, ServerFacts, SyncAssumption
<1>2. PICK known \in SUBSET Sign :
        batch' = IF LastNumber < countBlocks THEN <<>>
                 ELSE Items(Least(BatchSize, LastNumber - countBlocks), known)
  BY DEF Fetch
<1>3. ~(LastNumber < countBlocks)
  BY <1>2
<1>4. PICK n : n = Least(BatchSize, LastNumber - countBlocks)
  OBVIOUS
<1>5. n \in Nat /\ countBlocks + n <= LastNumber /\ batch' = Items(n, known)
  BY <1>0, <1>1, <1>2, <1>3, <1>4 DEF Least
<1>6. PICK x : x = batch'
  OBVIOUS
<1>7. PICK m \in 1..n :
        /\ x[j] = ServerBlock(countBlocks + m)
        /\ m = 1 \/ \E k \in 1..(j - 1) : x[k] = ServerBlock(countBlocks + (m - 1))
  BY <1>0, <1>5, <1>6, ItemsLinked
<1>8. countBlocks + m \in 1..LastNumber
  BY <1>0, <1>1, <1>5
<1>9. OnServer(x[j])
  BY <1>7, <1>8 DEF OnServer
<1>10. CASE countBlocks + m = 1
  <2>1. height[x[j]] = 1
    BY <1>0, <1>7, <1>8, <1>10, ServerChain
  <2>2. prevHash[x[j]] = Genesis
    BY <1>6, <2>1, HeightOne DEF IsRoot
  <2>3. Genesis \in DOMAIN blocks
    BY <1>0 DEF BcInv, BcTypeOK
  <2> QED
    BY <1>6, <1>9, <2>2, <2>3
<1>11. CASE countBlocks + m # 1
  <2>1. countBlocks + m \in 2..LastNumber
    BY <1>0, <1>8, <1>11
  <2>2. prevHash[x[j]] = ServerBlock(countBlocks + m - 1)
    BY <1>0, <1>7, <2>1, ServerChain
  <2>3. countBlocks + m - 1 = countBlocks + (m - 1)
    BY <1>0
  <2>4. CASE m = 1
    <3>1. countBlocks \in 1..countBlocks /\ countBlocks + m - 1 = countBlocks
      BY <1>0, <1>11, <2>4
    <3>2. getBlock(countBlocks) \in Hash /\ height[getBlock(countBlocks)] = countBlocks
      BY <1>0, <3>1, ListHeights
    <3>3. getBlock(countBlocks) \in DOMAIN blocks
      BY <1>0, <3>1, InvFacts
    <3>4. getBlock(countBlocks) = ServerBlock(countBlocks)
      <4>1. OnServer(getBlock(countBlocks))
        BY <3>2, <3>3 DEF ServedOK, Present
      <4> QED
        BY <1>0, <3>2, <4>1, ServerChain
    <3> QED
      BY <1>6, <1>9, <2>2, <3>1, <3>3, <3>4
  <2>5. CASE m # 1
    <3>1. PICK k \in 1..(j - 1) : x[k] = ServerBlock(countBlocks + (m - 1))
      BY <1>7, <2>5
    <3> QED
      BY <1>6, <1>9, <2>2, <2>3, <3>1
  <2> QED
    BY <2>4, <2>5
<1> QED
  BY <1>10, <1>11

\* What a step adds to the blocks that are present.
Brings(S) == \A x \in Present' : x \in Hash => x \in Present \/ x \in S

LEMMA BringsNothing ==
    ASSUME UNCHANGED <<file, loadedFile, mainBlock, working, queue>>,
           item' \in {item, NoHash}, batch' \in {batch, <<>>},
           DOMAIN blocks' = DOMAIN blocks, DOMAIN headers' = DOMAIN headers
    PROVE  Brings({})
<1>1. NoHash \notin Hash
  BY SyncAssumption DEF Block
<1>2. RangeOf(file)' = RangeOf(file) /\ RangeOf(loadedFile)' = RangeOf(loadedFile)
  BY DEF RangeOf
<1>3. RangeOf(batch)' \subseteq RangeOf(batch)
  BY DEF RangeOf
<1> QED
  BY <1>1, <1>2, <1>3 DEF Brings, Present

\* A step of the worker, or one that pushes a block to it.
LEMMA EntriesBring ==
    ASSUME SyncInv,
           UNCHANGED <<file, loadedFile, item, batch, headers, bcVars>>,
           NEW h,
           \/ /\ UNCHANGED <<mainBlock, working>>
              /\ queue' = queue \/ \E n : queue' = <<Entry(n, h)>>
           \/ Pop
           \/ /\ queue' = queue /\ working' \in {working, NoEntry}
              /\ mainBlock' \in {mainBlock, working, NoEntry}
    PROVE  Brings({h})
<1>1. NoEntry.hash = NoHash /\ NoHash \notin Hash
  BY SyncAssumption DEF NoEntry, Entry, Block
<1>2. DOMAIN blocks' = DOMAIN blocks
  BY DEF bcVars
<1>3. /\ RangeOf(file)' = RangeOf(file) /\ RangeOf(loadedFile)' = RangeOf(loadedFile)
      /\ RangeOf(batch)' = RangeOf(batch) /\ item' = item /\ DOMAIN headers' = DOMAIN headers
  BY DEF RangeOf
<1>4. PICK E : E = {mainBlock.hash, working.hash} \cup {queue[i].hash : i \in DOMAIN queue}
  OBVIOUS
<1>5. \A x \in {mainBlock'.hash, working'.hash} \cup {queue'[i].hash : i \in DOMAIN queue'} :
        x \in Hash => x \in E \/ x = h
  <2>1. CASE /\ UNCHANGED <<mainBlock, working>>
             /\ queue' = queue \/ \E n : queue' = <<Entry(n, h)>>
    <3>1. CASE queue' = queue
      BY <1>4, <2>1, <3>1
    <3>2. ASSUME NEW n, queue' = <<Entry(n, h)>> PROVE {queue'[i].hash : i \in DOMAIN queue'} = {h}
      <4>1. Entry(n, h).hash = h
        BY DEF Entry
      <4> HIDE DEF Entry
      <4>2. DOMAIN queue' = {1} /\ queue'[1] = Entry(n, h)
        BY <3>2
      <4> QED
        BY <4>1, <4>2
    <3> QED
      BY <1>4, <2>1, <3>1, <3>2
  <2>2. CASE Pop
    <3>1. queue # <<>> /\ queue \in Seq(Entries)
      BY <2>2, Given DEF Pop, WorkerTypeOK
    <3>2. /\ working' = queue[1] /\ 1 \in DOMAIN queue /\ mainBlock' = mainBlock
          /\ \A i \in DOMAIN queue' : i + 1 \in DOMAIN queue /\ queue'[i] = queue[i + 1]
      BY <2>2, <3>1 DEF Pop
    <3>3. \A i \in DOMAIN queue : queue[i].hash \in E
      BY <1>4
    <3> QED
      BY <1>4, <3>2, <3>3
  <2>3. CASE /\ queue' = queue /\ working' \in {working, NoEntry}
             /\ mainBlock' \in {mainBlock, working, NoEntry}
    BY <1>1, <1>4, <2>3
  <2> QED
    BY <2>1, <2>2, <2>3
<1> QED
  BY <1>2, <1>3, <1>4, <1>5 DEF Brings, Present

LEMMA StartBrings ==
    ASSUME SyncInv, EntriesOK, StartSteps
    PROVE  \E h : Brings({h}) /\ (h \in Hash => h \in Present)
<1>1. CASE Start
  <2>1. DOMAIN blocks' \subseteq {Genesis} \cup DOMAIN headers
    <3>1. CASE metadata = NoHash
      BY <1>1, <3>1 DEF Start, LoadDb, LoadEmpty
    <3>2. CASE metadata # NoHash
      <4>1. PICK p \in Paths : CalcAccepts(HeaderMap(DOMAIN headers), <<Genesis>>, 0, p)
        BY <1>1, <3>2 DEF Start, LoadDb, Load
      <4>2. DOMAIN blocks' = DOMAIN HeaderMap(DOMAIN headers)
        BY <4>1 DEF CalcAccepts
      <4> QED
        BY <4>2 DEF HeaderMap, WithHeaders
    <3> QED
      BY <3>1, <3>2
  <2>2. UNCHANGED <<file, loadedFile, item, batch, headers, queue, working, mainBlock>>
    BY <1>1 DEF Start, diskVars
  <2>3. RangeOf(file)' = RangeOf(file) /\ RangeOf(loadedFile)' = RangeOf(loadedFile)
        /\ RangeOf(batch)' = RangeOf(batch)
    BY <2>2 DEF RangeOf
  <2>4. Genesis \notin Hash
    BY HashAssumption
  <2>5. Brings({Genesis})
    BY <2>1, <2>2, <2>3, <2>4 DEF Brings, Present
  <2> QED
    BY <2>4, <2>5
<1>2. CASE StartFails \/ ReplayFails \/ ReplayDone
  <2>1. UNCHANGED <<bcVars, file, loadedFile, item, batch, headers, queue, working, mainBlock>>
    BY <1>2 DEF StartFails, ReplayFails, ReplayDone, diskVars, workerVars, sourceVars
  <2>2. DOMAIN blocks' = DOMAIN blocks
    BY <2>1 DEF bcVars
  <2>3. Brings({})
    BY <2>1, <2>2, BringsNothing
  <2>4. Brings({Genesis}) /\ Genesis \notin Hash
    BY <2>3, HashAssumption DEF Brings
  <2> QED
    BY <2>4
<1>3. CASE ReplayBlock
  <2>1. PushToWorker(walkNum, getBlock(walkNum)) /\ walkNum \in 1..countBlocks
    BY <1>3, ReplayedBlock
  <2>2. getBlock(walkNum) \in Present
    BY <2>1, Given, InvFacts DEF Present
  <2>3. UNCHANGED <<bcVars, file, loadedFile, item, batch, headers, working, mainBlock>>
    BY <1>3 DEF ReplayBlock, diskVars, sourceVars
  <2>4. queue' = queue \/ \E n : queue' = <<Entry(n, getBlock(walkNum))>>
    BY <2>1 DEF PushToWorker
  <2>5. Brings({getBlock(walkNum)})
    BY <2>3, <2>4, EntriesBring
  <2> QED
    BY <2>2, <2>5
<1> QED
  BY <1>1, <1>2, <1>3 DEF StartSteps

LEMMA BlocksBring ==
    ASSUME SyncInv, BlockSteps \/ StoreFails, ~Fetch
    PROVE  Brings({})
<1>0. BcInv /\ ThreadTypeOK /\ DiskTypeOK
  BY Given
<1>1. CASE \/ FileDone \/ SaveFails \/ AddKnown \/ AddSign \/ Confirm \/ StoreFails
  <2>1. /\ UNCHANGED <<bcVars, file, loadedFile, mainBlock, working, queue, headers>>
        /\ item' \in {item, NoHash} /\ batch' \in {batch, <<>>}
    BY <1>1 DEF FileDone, SaveFails, AddKnown, AddExisting, AddSign, Confirm, StoreFails,
       Retry, NextRound, diskVars, sourceVars, workerVars
  <2>2. DOMAIN blocks' = DOMAIN blocks
    BY <2>1 DEF bcVars
  <2> QED
    BY <2>1, <2>2, BringsNothing
<1>2. CASE FileSpins
  BY <1>2, BringsNothing DEF FileSpins, vars, bcVars, diskVars, sourceVars, workerVars
<1>3. CASE TakeFetched
  <2>1. /\ item' = Head(batch) /\ batch' = Tail(batch) /\ batch # <<>>
        /\ UNCHANGED <<bcVars, file, loadedFile, mainBlock, working, queue, headers>>
    BY <1>3 DEF TakeFetched, diskVars, workerVars
  <2>2. batch \in Seq(Item)
    BY <1>0 DEF ThreadTypeOK
  <2>3. item' \in RangeOf(batch) /\ RangeOf(batch)' \subseteq RangeOf(batch)
    BY <2>1, <2>2 DEF RangeOf
  <2>4. /\ RangeOf(file)' = RangeOf(file) /\ RangeOf(loadedFile)' = RangeOf(loadedFile)
        /\ DOMAIN blocks' = DOMAIN blocks
    BY <2>1 DEF RangeOf, bcVars
  <2> QED
    BY <2>1, <2>3, <2>4 DEF Brings, Present
<1>4. CASE TakeFromFile
  <2>1. /\ item' = file[cursor] /\ cursor <= Len(file)
        /\ UNCHANGED <<bcVars, file, loadedFile, batch, mainBlock, working, queue, headers>>
    BY <1>4 DEF TakeFromFile, diskVars, workerVars
  <2>2. item' \in RangeOf(file)
    <3>1. cursor \in DOMAIN file
      BY <1>0, <2>1 DEF ThreadTypeOK, DiskTypeOK
    <3> QED
      BY <2>1, <3>1 DEF RangeOf
  <2>3. /\ RangeOf(file)' = RangeOf(file) /\ RangeOf(loadedFile)' = RangeOf(loadedFile)
        /\ RangeOf(batch)' = RangeOf(batch) /\ DOMAIN blocks' = DOMAIN blocks
    BY <2>1 DEF RangeOf, bcVars
  <2> QED
    BY <2>1, <2>2, <2>3 DEF Brings, Present
<1>5. CASE Save
  <2>1. /\ file' = Append(file, item)
        /\ UNCHANGED <<bcVars, item, loadedFile, batch, mainBlock, working, queue, headers>>
    BY <1>5 DEF Save, diskVars, sourceVars, workerVars
  <2>2. RangeOf(file)' \subseteq RangeOf(file) \cup {item}
    <3>1. file \in Seq(FileRecord)
      BY <1>0 DEF DiskTypeOK
    <3> QED
      BY <2>1, <3>1 DEF RangeOf
  <2>3. /\ RangeOf(loadedFile)' = RangeOf(loadedFile)
        /\ RangeOf(batch)' = RangeOf(batch) /\ DOMAIN blocks' = DOMAIN blocks
    BY <2>1 DEF RangeOf, bcVars
  <2> QED
    BY <2>1, <2>2, <2>3 DEF Brings, Present
<1>6. CASE AddToChain
  <2>1. /\ item \in Hash /\ AddAccepted(item)
        /\ UNCHANGED <<file, loadedFile, mainBlock, working, queue, headers>>
        /\ item' \in {item, NoHash} /\ batch' \in {batch, <<>>}
    BY <1>6 DEF AddToChain, Retry, NextRound, diskVars, sourceVars, workerVars
  <2>2. DOMAIN blocks' = DOMAIN blocks \cup {item}
    BY <2>1 DEF AddAccepted, CalcAccepts, WithHeaders
  <2>3. /\ RangeOf(file)' = RangeOf(file) /\ RangeOf(loadedFile)' = RangeOf(loadedFile)
        /\ RangeOf(batch)' \subseteq RangeOf(batch)
    BY <2>1 DEF RangeOf
  <2>4. NoHash \notin Hash
    BY SyncAssumption DEF Block
  <2> QED
    BY <2>1, <2>2, <2>3, <2>4 DEF Brings, Present
<1>7. CASE AddFork
  <2>1. /\ item \in Hash /\ AddRefused(item)
        /\ UNCHANGED <<file, loadedFile, mainBlock, working, queue, headers, item, batch>>
    BY <1>7 DEF AddFork, diskVars, sourceVars, workerVars
  <2>2. BcInv' /\ hashes' = hashes
    BY <1>0, <2>1, RefusedInv
  <2>3. DOMAIN blocks' = DOMAIN blocks
    BY <1>0, <2>2, SameChain
  <2> QED
    BY <2>1, <2>3, BringsNothing
<1>8. CASE Push
  <2>1. UNCHANGED <<bcVars, file, loadedFile, item, batch, headers, working, mainBlock>>
    BY <1>8 DEF Push, diskVars, sourceVars
  <2>2. queue' = queue \/ \E n : queue' = <<Entry(n, item)>>
    BY <1>8 DEF Push, PushToWorker
  <2>3. Brings({item})
    BY <2>1, <2>2, EntriesBring
  <2>4. item \in Present
    BY DEF Present
  <2> QED
    BY <2>3, <2>4 DEF Brings
<1>9. CASE Store
  <2>1. /\ DOMAIN headers' \subseteq DOMAIN headers \cup {item}
        /\ UNCHANGED <<bcVars, file, loadedFile, item, batch, mainBlock, working, queue>>
    BY <1>9 DEF Store, sourceVars, workerVars
  <2>2. /\ RangeOf(file)' = RangeOf(file) /\ RangeOf(loadedFile)' = RangeOf(loadedFile)
        /\ RangeOf(batch)' = RangeOf(batch) /\ DOMAIN blocks' = DOMAIN blocks
    BY <2>1 DEF RangeOf, bcVars
  <2> QED
    BY <2>1, <2>2 DEF Brings, Present
<1> QED
  BY <1>1, <1>2, <1>3, <1>4, <1>5, <1>6, <1>7, <1>8, <1>9 DEF BlockSteps

\* Without forks the recovery from them is never entered.
LEMMA NoForkSteps ==
    ASSUME NoForkOK
    PROVE  ~ForkSteps /\ pc # "dropDb"
BY DEF NoForkOK, Recovering, ForkSteps, AncestorFails, AncestorSpins, AncestorDown, FalseAlarm,
   Conflict, ServerForks, Truncate, DropDb, Rewrite, AppendServerBlock

LEMMA ServedNext ==
    ASSUME SyncInv, EntriesOK, ServedOK, NoForkOK, reorgs = 0, MaxReorgs = 0, [SyncNext]_vars
    PROVE  ServedOK' /\ reorgs' = 0
<1>0. tip \in Block /\ ~ServerReorgs /\ ~ForkSteps
  BY Given, NoForkSteps DEF ThreadTypeOK, ServerReorgs
<1>1. CASE ServerExtends
  <2>1. UNCHANGED <<bcVars, file, headers, item, batch, loadedFile, workerVars>> /\ reorgs' = 0
    BY <1>1 DEF ServerExtends, diskVars, sourceVars
  <2>2. DOMAIN blocks' = DOMAIN blocks
    BY <2>1 DEF bcVars
  <2>3. Brings({})
    BY <2>1, <2>2, BringsNothing DEF workerVars
  <2>4. ASSUME NEW x \in Present', x \in Hash PROVE OnServer(x)'
    <3>1. OnServer(x)
      BY <2>3, <2>4 DEF Brings, ServedOK
    <3> QED
      BY <1>0, <1>1, <3>1, ServerGrows
  <2> QED
    BY <2>1, <2>4 DEF ServedOK
<1>2. CASE ~ServerExtends
  <2>1. tip' = tip /\ reorgs' = 0
    <3>1. StartSteps => tip' = tip /\ reorgs' = reorgs
      BY DEF StartSteps, Start, StartFails, ReplayBlock, ReplayFails, ReplayDone, envVars
    <3>2. BlockSteps => tip' = tip /\ reorgs' = reorgs
      BY DEF BlockSteps, Fetch, TakeFetched, TakeFromFile, FileSpins, FileDone, Save, SaveFails,
         AddToChain, AddKnown, AddFork, AddSign, Push, Store, Confirm, envVars, vars
    <3>3. OnlyServe \/ WorkerThread \/ StoreFails \/ WorkFails \/ Crash \/ UNCHANGED vars =>
            tip' = tip /\ reorgs' = reorgs
      BY DEF OnlyServe, WorkerThread, Pop, WorkSaved, WorkDropped, WorkDone, StoreFails,
         WorkFails, Crash, envVars, vars
    <3> QED
      BY <1>0, <1>2, <3>1, <3>2, <3>3 DEF SyncNext, SyncThread, Environment
  <2>2. \A x : OnServer(x)' <=> OnServer(x)
    BY <2>1 DEF OnServer, LastNumber, ServerBlock
  <2>3. \A x \in Present' : x \in Hash => x \in Present \/ OnServer(x)
    <3>1. CASE StartSteps
      BY <3>1, StartBrings DEF Brings
    <3>2. CASE (BlockSteps /\ ~Fetch) \/ StoreFails
      <4>1. ~Fetch
        BY <3>2 DEF StoreFails, Fetch
      <4> QED
        BY <3>2, <4>1, BlocksBring DEF Brings
    <3>3. CASE Fetch
      <4>1. UNCHANGED <<bcVars, file, loadedFile, item, headers, mainBlock, working, queue>>
        BY <3>3 DEF Fetch, diskVars, workerVars
      <4>2. /\ RangeOf(file)' = RangeOf(file) /\ RangeOf(loadedFile)' = RangeOf(loadedFile)
            /\ DOMAIN blocks' = DOMAIN blocks
        BY <4>1 DEF RangeOf, bcVars
      <4>3. \A x \in RangeOf(batch)' : x \in Hash => OnServer(x)
        BY <3>3, FetchedBlocks DEF RangeOf
      <4> QED
        BY <4>1, <4>2, <4>3 DEF Present
    <3>4. CASE Pop \/ WorkSaved \/ WorkDropped \/ WorkFails
      <4>1. UNCHANGED <<file, loadedFile, item, batch, headers, bcVars>>
        BY <3>4 DEF Pop, WorkSaved, WorkDropped, WorkFails, WorkDone, diskVars, sourceVars
      <4>2. \/ Pop
            \/ /\ queue' = queue /\ working' \in {working, NoEntry}
               /\ mainBlock' \in {mainBlock, working, NoEntry}
        BY <3>4 DEF WorkSaved, WorkDropped, WorkFails, WorkDone
      <4>3. Brings({Genesis})
        BY <4>1, <4>2, EntriesBring
      <4> QED
        BY <4>3, HashAssumption DEF Brings
    <3>5. CASE Crash
      <4>1. /\ UNCHANGED <<file, headers, mainBlock>>
            /\ item' = NoHash /\ batch' = <<>> /\ loadedFile' = <<>> /\ queue' = <<>>
            /\ working' = NoEntry /\ DOMAIN blocks' = {Genesis}
        BY <3>5 DEF Crash, Exit, NoProcess, LoadEmpty, diskVars
      <4>2. NoHash \notin Hash /\ Genesis \notin Hash /\ working'.hash = NoHash
        BY <4>1, SyncAssumption, HashAssumption DEF Block, NoEntry, Entry
      <4>3. /\ RangeOf(file)' = RangeOf(file) /\ RangeOf(loadedFile)' = {}
            /\ RangeOf(batch)' = {} /\ {queue'[i].hash : i \in DOMAIN queue'} = {}
        BY <4>1 DEF RangeOf
      <4> QED
        BY <4>1, <4>2, <4>3 DEF Present
    <3>6. CASE OnlyServe \/ UNCHANGED vars
      <4>1. UNCHANGED vars
        BY <3>6 DEF OnlyServe
      <4>2. UNCHANGED <<bcVars, file, headers, item, batch, loadedFile, workerVars>>
        BY <4>1 DEF vars, diskVars, sourceVars
      <4>3. DOMAIN blocks' = DOMAIN blocks
        BY <4>2 DEF bcVars
      <4>4. Brings({})
        BY <4>2, <4>3, BringsNothing DEF workerVars
      <4> QED
        BY <4>4 DEF Brings
    <3> QED
      BY <1>0, <1>2, <3>1, <3>2, <3>3, <3>4, <3>5, <3>6
         DEF SyncNext, SyncThread, WorkerThread, Environment
  <2> QED
    BY <2>1, <2>2, <2>3 DEF ServedOK
<1> QED
  BY <1>1, <1>2

\* The item at hand follows the last block, or is in the chain.
LEMMA NoneRefused ==
    ASSUME SyncInv, ServedOK, item \in Hash, prevHash[item] \in DOMAIN blocks
    PROVE  ~AddRefused(item)
<1> SUFFICES ASSUME AddRefused(item) PROVE FALSE
  OBVIOUS
<1> DEFINE bl == WithHeaders(blocks, {item})
<1>0. BcInv /\ OrphansNotNumbered /\ tip \in Block
  BY Given DEF ThreadTypeOK
<1>1. PICK c \in Nat : c = countBlocks /\ Len(hashes) = c + 1
  BY <1>0, InvFacts
<1>2. PICK p \in Paths : IsWalk(bl, item, p) /\ CalcRefuses(bl, hashes, lastStateBlock, p)
  BY DEF AddRefused
<1>3. item \notin DOMAIN blocks
  BY DEF AddRefused
<1>4. Len(p) = 1 /\ BaseNumber(bl, p) = blocks[prevHash[item]]
  BY <1>0, <1>2, <1>3, AddWalk
<1> HIDE DEF bl
<1>5. PICK k \in 0..c : prevHash[item] = getBlock(k) /\ blocks[prevHash[item]] = k
  BY <1>0, <1>1, InvFacts
<1>6. k = c
  <2> SUFFICES ASSUME k # c PROVE FALSE
    OBVIOUS
  <2>1. k + 1 \in 1..c
    BY <1>1, <1>5
  <2>2. getBlock(k + 1) \in Hash /\ height[getBlock(k + 1)] = k + 1
    BY <1>0, <1>1, <2>1, ListHeights
  <2>3. height[item] = k + 1
    <3>1. CASE k = 0
      BY <1>0, <1>5, <3>1, InvFacts, HeightAssumption
    <3>2. CASE k # 0
      <4>1. k \in 1..c
        BY <1>5, <3>2
      <4>2. prevHash[item] \in Hash /\ height[prevHash[item]] = k
        BY <1>0, <1>1, <1>5, <4>1, ListHeights
      <4> QED
        BY <4>2, HeightAssumption, HashAssumption
    <3> QED
      BY <3>1, <3>2
  <2>4. getBlock(k + 1) \in DOMAIN blocks
    <3>1. k + 1 \in 0..c
      BY <2>1
    <3> QED
      BY <1>0, <1>1, <3>1, InvFacts
  <2>5. OnServer(item) /\ OnServer(getBlock(k + 1))
    BY <2>2, <2>4 DEF ServedOK, Present
  <2>6. item = getBlock(k + 1)
    BY <1>0, <2>2, <2>3, <2>5, ServerChain
  <2> QED
    BY <1>3, <2>4, <2>6
<1>7. WalkFits(bl, hashes, p)
  BY <1>1, <1>4, <1>5, <1>6 DEF WalkFits, WalkNumber
<1> QED
  BY <1>2, <1>7 DEF CalcRefuses

\* The steps after which the thread has no item to add.
LEMMA KnownKept ==
    ASSUME SyncInv, NoForkOK, pc \in Running \ {"replay"},
           pc' \in {"idle", "push", "store", "confirm"}, file' = file,
           \A x \in DOMAIN blocks' : x \in Hash => x \in RangeOf(file),
           \A x \in KnownThen : x \in Block => x \in DOMAIN blocks',
           batch' \in {batch, <<>>}, gba' = "network" \/ UNCHANGED <<gba, cursor>>
    PROVE  NoForkOK'
<1>1. KnownThen' = DOMAIN blocks'
  BY DEF KnownThen
<1>2. \A h \in Hash : h \in Block /\ prevHash[h] \in Block
  BY HashAssumption DEF Block
<1>3. Linked(batch', DOMAIN blocks')
  BY <1>2 DEF NoForkOK, Linked
<1>4. Linked(file', {Genesis}) /\ RangeOf(file)' = RangeOf(file)
  BY DEF NoForkOK, RangeOf
<1>5. gba' = "file" =>
        \A i \in DOMAIN file' : i < cursor' /\ file'[i] \in Hash => file'[i] \in DOMAIN blocks'
  BY <1>2 DEF NoForkOK
<1>6. pc' \notin {"ancestor", "save", "add"} \cup Recovering
  BY DEF Recovering
<1> QED
  BY <1>1, <1>3, <1>4, <1>5, <1>6 DEF NoForkOK

\* The steps that neither read nor write the files, the batch or the chain.
LEMMA NoForkSame ==
    ASSUME NoForkOK, UNCHANGED <<pc, item, file, batch, gba, cursor>>,
           DOMAIN blocks' = DOMAIN blocks
    PROVE  NoForkOK'
<1>1. KnownThen' = KnownThen /\ RangeOf(file)' = RangeOf(file)
  BY DEF KnownThen, RangeOf
<1> QED
  BY <1>1 DEF NoForkOK

LEMMA NoForkStopped ==
    ASSUME NoForkOK, file' = file, pc' \in {"off", "failed"}
    PROVE  NoForkOK'
BY DEF NoForkOK, Recovering, Running

LEMMA NoForkStart ==
    ASSUME SyncInv, NoForkOK, StartSteps
    PROVE  NoForkOK'
<1>0. /\ BcInv /\ PlacesOK /\ StepOK /\ EmptyOK /\ DiskTypeOK
      /\ pc # "dropDb"
  BY Given, NoForkSteps
<1>1. CASE Start
  <2>1. /\ pc = "off" /\ pc' = "replay" /\ file' = file /\ batch' = batch /\ batch = <<>>
    BY <1>0, <1>1 DEF Start, StepOK
  <2>2. DOMAIN blocks' \subseteq {Genesis} \cup DOMAIN headers
    <3>1. CASE metadata = NoHash
      BY <1>1, <3>1 DEF Start, LoadDb, LoadEmpty
    <3>2. CASE metadata # NoHash
      <4>1. PICK p \in Paths : CalcAccepts(HeaderMap(DOMAIN headers), <<Genesis>>, 0, p)
        BY <1>1, <3>2 DEF Start, LoadDb, Load
      <4>2. DOMAIN blocks' = DOMAIN HeaderMap(DOMAIN headers)
        BY <4>1 DEF CalcAccepts
      <4> QED
        BY <4>2 DEF HeaderMap, WithHeaders
    <3> QED
      BY <3>1, <3>2
  <2>3. \A h \in DOMAIN headers : h \in RangeOf(file)
    <3>1. \A h \in DOMAIN headers : headers[h] \in DOMAIN file /\ file[headers[h]] = h
      BY <1>0 DEF PlacesOK, DiskTypeOK
    <3> QED
      BY <3>1 DEF RangeOf
  <2>4. \A x \in DOMAIN blocks' : x \in Hash => x \in RangeOf(file)'
    BY <2>1, <2>2, <2>3, HashAssumption DEF RangeOf
  <2>5. Linked(batch', KnownThen')
    BY <2>1 DEF Linked
  <2> QED
    BY <2>1, <2>4, <2>5 DEF NoForkOK, Recovering
<1>2. CASE StartFails \/ ReplayFails
  BY <1>2, NoForkStopped DEF StartFails, ReplayFails
<1>3. CASE ReplayBlock
  <2>1. UNCHANGED <<pc, item, file, batch, gba, cursor, bcVars>>
    BY <1>3 DEF ReplayBlock, sourceVars
  <2> QED
    BY <1>0, <2>1, KeepsChain, NoForkSame
<1>4. CASE ReplayDone
  <2>1. /\ pc = "replay" /\ pc' = "idle" /\ batch' = batch /\ batch = <<>> /\ file' = file
        /\ cursor' = cursor /\ gba' = IF countBlocks = 0 THEN "file" ELSE "network"
        /\ UNCHANGED bcVars
    BY <1>0, <1>4 DEF ReplayDone, StepOK
  <2>2. DOMAIN blocks' = DOMAIN blocks /\ RangeOf(file)' = RangeOf(file)
    BY <1>0, <2>1, KeepsChain DEF RangeOf
  <2>3. gba' = "file" => cursor' = 1
    BY <1>0, <2>1 DEF EmptyOK, Running
  <2>4. Linked(batch', KnownThen')
    BY <2>1 DEF Linked
  <2>5. gba' = "file" => \A i \in DOMAIN file' : ~(i < cursor')
    BY <1>0, <2>1, <2>3 DEF DiskTypeOK
  <2>6. \A x \in DOMAIN blocks' : x \in Hash => x \in RangeOf(file)'
    BY <2>1, <2>2 DEF NoForkOK, Running
  <2> QED
    BY <2>1, <2>4, <2>5, <2>6 DEF NoForkOK, Recovering
<1> QED
  BY <1>1, <1>2, <1>3, <1>4 DEF StartSteps

\* The thread takes the next item of its source.
LEMMA NoForkTake ==
    ASSUME SyncInv, ServedOK, NoForkOK, Fetch \/ TakeFetched \/ TakeFromFile
    PROVE  NoForkOK'
<1>0. BcInv /\ ThreadTypeOK /\ DiskTypeOK /\ Genesis \in DOMAIN blocks
  BY Given DEF BcInv, BcTypeOK
<1>1. /\ UNCHANGED bcVars /\ file' = file /\ pc = "idle" /\ pc' \in {"idle", "save", "add"}
      /\ gba' = gba
  BY DEF Fetch, TakeFetched, TakeFromFile
<1>2. /\ DOMAIN blocks' = DOMAIN blocks /\ RangeOf(file)' = RangeOf(file)
      /\ KnownThen = DOMAIN blocks
      /\ KnownThen' = DOMAIN blocks \cup IF pc' \in {"save", "add"} THEN {item'} ELSE {}
  BY <1>0, <1>1, KeepsChain DEF RangeOf, KnownThen
<1>3. /\ Linked(file, {Genesis}) /\ Linked(batch, DOMAIN blocks)
      /\ \A x \in DOMAIN blocks : x \in Hash => x \in RangeOf(file)
      /\ gba = "file" =>
            \A i \in DOMAIN file : i < cursor /\ file[i] \in Hash => file[i] \in DOMAIN blocks
  BY <1>1, <1>2 DEF NoForkOK, Running
<1>4. SUFFICES /\ pc' \in {"save", "add"} /\ item' \in Hash => prevHash[item'] \in DOMAIN blocks
               /\ Linked(batch', KnownThen')
               /\ pc' = "save" => gba' = "network"
               /\ gba' = "file" => \A i \in DOMAIN file :
                    i < cursor' /\ file[i] \in Hash => file[i] \in KnownThen'
  BY <1>1, <1>2, <1>3 DEF NoForkOK, Recovering
<1>5. CASE Fetch
  <2>1. pc' = "idle" /\ gba = "network"
    BY <1>5 DEF Fetch
  <2>2. ASSUME NEW j \in DOMAIN batch', batch'[j] \in Hash
        PROVE  prevHash[batch'[j]] \in DOMAIN blocks
                \/ \E k \in 1..(j - 1) : batch'[k] = prevHash[batch'[j]]
    BY <1>5, <2>2, FetchedBlocks
  <2>3. Linked(batch', KnownThen')
    BY <1>2, <2>1, <2>2 DEF Linked
  <2> QED
    BY <1>1, <2>1, <2>3
<1>6. CASE TakeFetched
  <2>1. /\ gba = "network" /\ batch # <<>> /\ item' = Head(batch) /\ batch' = Tail(batch)
        /\ pc' = "save"
    BY <1>6 DEF TakeFetched
  <2>2. /\ batch \in Seq(Item) /\ 1 \in DOMAIN batch /\ item' = batch[1]
        /\ \A i \in DOMAIN batch' :
             i \in Nat \ {0} /\ i + 1 \in DOMAIN batch /\ batch'[i] = batch[i + 1]
    BY <1>0, <2>1 DEF ThreadTypeOK
  <2>3. item' \in Hash => prevHash[item'] \in DOMAIN blocks
    <3>1. 1..(1 - 1) = {}
      OBVIOUS
    <3> QED
      BY <1>3, <2>2, <3>1 DEF Linked
  <2>4. ASSUME NEW i \in DOMAIN batch', batch'[i] \in Hash
        PROVE  prevHash[batch'[i]] \in KnownThen'
                \/ \E j \in 1..(i - 1) : batch'[j] = prevHash[batch'[i]]
    <3>1. PICK b : b = batch'[i]
      OBVIOUS
    <3>2. i \in Nat \ {0} /\ i + 1 \in DOMAIN batch /\ batch[i + 1] = b /\ b \in Hash
      BY <2>2, <2>4, <3>1
    <3>3. prevHash[b] \in DOMAIN blocks
            \/ \E j \in 1..((i + 1) - 1) : batch[j] = prevHash[b]
      BY <1>3, <3>2 DEF Linked
    <3>4. CASE prevHash[b] \in DOMAIN blocks
      BY <1>2, <3>1, <3>4
    <3>5. ASSUME NEW j \in 1..((i + 1) - 1), batch[j] = prevHash[b]
          PROVE  prevHash[b] \in KnownThen' \/ \E k \in 1..(i - 1) : batch'[k] = prevHash[b]
      <4>1. CASE j = 1
        BY <1>2, <2>1, <2>2, <3>5, <4>1
      <4>2. CASE j # 1
        <5>1. j - 1 \in 1..(i - 1) /\ (j - 1) + 1 = j
          BY <3>2, <4>2
        <5>2. j - 1 \in DOMAIN batch'
          <6>1. batch' \in Seq(Item) /\ DOMAIN batch' = 1..Len(batch')
            BY <2>1, <2>2
          <6> QED
            BY <3>2, <5>1, <6>1
        <5>3. batch'[j - 1] = batch[j]
          BY <2>2, <5>1, <5>2
        <5> QED
          BY <3>5, <5>1, <5>3
      <4> QED
        BY <4>1, <4>2
    <3> QED
      BY <3>1, <3>3, <3>4, <3>5
  <2>5. Linked(batch', KnownThen')
    BY <2>4 DEF Linked
  <2> QED
    BY <1>1, <2>1, <2>3, <2>5
<1>7. CASE TakeFromFile
  <2>1. /\ gba = "file" /\ cursor <= Len(file) /\ item' = file[cursor] /\ batch' = batch
        /\ pc' = "add" /\ cursor' = cursor + 1
    BY <1>7 DEF TakeFromFile
  <2>2. cursor \in Nat \ {0} /\ file \in Seq(FileRecord) /\ cursor \in DOMAIN file
    BY <1>0, <2>1 DEF ThreadTypeOK, DiskTypeOK
  <2>3. item' \in Hash => prevHash[item'] \in DOMAIN blocks
    <3> SUFFICES ASSUME item' \in Hash PROVE prevHash[item'] \in DOMAIN blocks
      OBVIOUS
    <3>1. PICK b \in Hash : b = item'
      OBVIOUS
    <3>2. prevHash[b] = Genesis \/ \E j \in 1..(cursor - 1) : file[j] = prevHash[b]
      BY <1>3, <2>1, <2>2, <3>1 DEF Linked
    <3>3. ASSUME NEW j \in 1..(cursor - 1), file[j] = prevHash[b], prevHash[b] # Genesis
          PROVE  prevHash[b] \in DOMAIN blocks
      <4>1. prevHash[b] \in Hash
        BY <3>3, HashAssumption
      <4>2. j \in DOMAIN file /\ j < cursor
        BY <2>2
      <4> QED
        BY <1>3, <2>1, <3>3, <4>1, <4>2
    <3> QED
      BY <1>0, <3>1, <3>2, <3>3
  <2>4. \A i \in DOMAIN file : i < cursor' => i < cursor \/ i = cursor
    BY <2>1, <2>2
  <2>5. Linked(batch', KnownThen')
    BY <1>2, <1>3, <2>1 DEF Linked
  <2>6. \A i \in DOMAIN file : i < cursor' /\ file[i] \in Hash => file[i] \in KnownThen'
    BY <1>2, <1>3, <2>1, <2>4
  <2> QED
    BY <1>1, <2>1, <2>3, <2>5, <2>6
<1> QED
  BY <1>5, <1>6, <1>7

\* The item goes to the end of the files.
LEMMA NoForkSave ==
    ASSUME SyncInv, NoForkOK, Save
    PROVE  NoForkOK'
<1>0. /\ BcInv /\ DiskTypeOK /\ Genesis \in DOMAIN blocks /\ DOMAIN blocks \subseteq Block
      /\ pc = "save"
  BY Given DEF BcInv, BcTypeOK, Save
<1>1. /\ UNCHANGED bcVars /\ file' = Append(file, item) /\ pc' = "add"
      /\ batch' = batch /\ gba' = gba /\ item' = item
  BY DEF Save, sourceVars
<1>2. DOMAIN blocks' = DOMAIN blocks /\ KnownThen' = KnownThen
  BY <1>0, <1>1, KeepsChain DEF KnownThen
<1>3. /\ gba = "network" /\ Linked(file, {Genesis}) /\ Linked(batch, KnownThen)
      /\ \A x \in DOMAIN blocks : x \in Hash => x \in RangeOf(file)
      /\ item \in Hash => prevHash[item] \in DOMAIN blocks
  BY <1>0 DEF NoForkOK, Running
<1>4. PICK k \in Nat : k = Len(file)
  BY <1>0 DEF DiskTypeOK
<1>5. /\ DOMAIN file = 1..k /\ DOMAIN file' = 1..(k + 1) /\ file'[k + 1] = item
      /\ \A i \in 1..k : file'[i] = file[i]
  BY <1>0, <1>1, <1>4 DEF DiskTypeOK
<1>6. \A x \in RangeOf(file) : x \in RangeOf(file)'
  BY <1>5 DEF RangeOf
<1>7. ASSUME NEW i \in DOMAIN file', file'[i] \in Hash
      PROVE  prevHash[file'[i]] \in {Genesis}
              \/ \E j \in 1..(i - 1) : file'[j] = prevHash[file'[i]]
  <2>1. CASE i \in 1..k
    <3>1. prevHash[file[i]] \in {Genesis} \/ \E j \in 1..(i - 1) : file[j] = prevHash[file[i]]
      BY <1>3, <1>5, <1>7, <2>1 DEF Linked
    <3>2. \A j \in 1..(i - 1) : j \in 1..k
      BY <2>1
    <3> QED
      BY <1>5, <2>1, <3>1, <3>2
  <2>2. CASE i = k + 1
    <3>1. prevHash[item] = Genesis \/ prevHash[item] \in RangeOf(file)
      BY <1>0, <1>3, <1>5, <1>7, <2>2 DEF Block
    <3>2. prevHash[item] \in RangeOf(file) => \E j \in 1..k : file[j] = prevHash[item]
      BY <1>5 DEF RangeOf
    <3>3. (k + 1) - 1 = k
      OBVIOUS
    <3> QED
      BY <1>5, <2>2, <3>1, <3>2, <3>3
  <2> QED
    BY <1>5, <1>7, <2>1, <2>2
<1>8. Linked(file', {Genesis})
  BY <1>7 DEF Linked
<1> QED
  BY <1>1, <1>2, <1>3, <1>6, <1>8 DEF NoForkOK, Recovering

\* What is saved and known stays so until the process ends.
LEMMA NoForkBlocks ==
    ASSUME SyncInv, ServedOK, NoForkOK, BlockSteps \/ StoreFails
    PROVE  NoForkOK'
<1>0. /\ BcInv /\ DOMAIN blocks \subseteq Block /\ PlacesOK /\ DiskTypeOK
      /\ \A s \in Sign : s \notin Block
  BY Given, SyncAssumption DEF BcInv, BcTypeOK
<1>1. CASE Fetch \/ TakeFetched \/ TakeFromFile
  BY <1>1, NoForkTake
<1>2. CASE Save
  BY <1>2, NoForkSave
<1>3. CASE AddFork
  <2>1. pc = "add" /\ item \in Hash /\ AddRefused(item)
    BY <1>3 DEF AddFork
  <2>2. prevHash[item] \in DOMAIN blocks
    BY <2>1 DEF NoForkOK, Running
  <2> QED
    BY <2>1, <2>2, NoneRefused
<1>4. CASE FileSpins
  <2>1. UNCHANGED <<pc, item, file, batch, gba, cursor, bcVars>>
    BY <1>4 DEF FileSpins, vars, sourceVars
  <2> QED
    BY <1>0, <2>1, KeepsChain, NoForkSame
<1>5. CASE AddToChain
  <2>1. /\ pc = "add" /\ pc' \in {"idle", "push"} /\ item \in Hash /\ AddAccepted(item)
        /\ file' = file /\ batch' \in {batch, <<>>} /\ UNCHANGED <<gba, cursor>>
    BY <1>5 DEF AddToChain, Retry, NextRound, sourceVars
  <2>2. DOMAIN blocks' = DOMAIN blocks \cup {item}
    BY <2>1 DEF AddAccepted, CalcAccepts, WithHeaders
  <2>3. item \in RangeOf(file)
    <3>1. itemPos \in DOMAIN file /\ file[itemPos] = item
      BY <1>0, <2>1 DEF PlacesOK, DiskTypeOK
    <3> QED
      BY <3>1 DEF RangeOf
  <2>4. \A x \in DOMAIN blocks' : x \in Hash => x \in RangeOf(file)
    BY <2>1, <2>2, <2>3 DEF NoForkOK, Running
  <2>5. \A x \in KnownThen : x \in DOMAIN blocks'
    BY <2>1, <2>2 DEF KnownThen
  <2>6. pc \in Running \ {"replay"} /\ pc' \in {"idle", "push", "store", "confirm"}
    BY <2>1 DEF Running
  <2> QED
    BY <2>1, <2>4, <2>5, <2>6, KnownKept
<1>6. CASE FileDone \/ SaveFails \/ AddKnown \/ AddSign \/ Push \/ Store \/ Confirm \/ StoreFails
  <2>1. /\ pc \in {"idle", "save", "add", "push", "store", "confirm"}
        /\ pc' \in {"idle", "push", "store", "confirm"}
        /\ file' = file /\ batch' \in {batch, <<>>}
        /\ gba' = "network" \/ UNCHANGED <<gba, cursor>>
        /\ UNCHANGED bcVars
    BY <1>6 DEF FileDone, SaveFails, AddKnown, AddExisting, AddSign, Push, Store, Confirm,
       StoreFails, Retry, NextRound, sourceVars
  <2>2. DOMAIN blocks' = DOMAIN blocks
    BY <1>0, <2>1, KeepsChain
  <2>3. pc \in Running \ {"replay"}
    BY <2>1 DEF Running
  <2>4. \A x \in DOMAIN blocks' : x \in Hash => x \in RangeOf(file)
    BY <2>2, <2>3 DEF NoForkOK
  <2>5. pc \in {"save", "add"} => item \in Sign \/ item \in DOMAIN blocks
    BY <1>6 DEF FileDone, SaveFails, AddKnown, AddExisting, AddSign, Push, Store, Confirm,
       StoreFails
  <2>6. \A x \in KnownThen : x \in Block => x \in DOMAIN blocks'
    BY <1>0, <2>2, <2>5 DEF KnownThen
  <2> QED
    BY <2>1, <2>3, <2>4, <2>6, KnownKept
<1> QED
  BY <1>1, <1>2, <1>3, <1>4, <1>5, <1>6 DEF BlockSteps

LEMMA NoForkNext ==
    ASSUME SyncInv, ServedOK, NoForkOK, [SyncNext]_vars
    PROVE  NoForkOK'
<1>0. BcInv /\ ~ForkSteps
  BY Given, NoForkSteps
<1>1. CASE StartSteps
  BY <1>1, NoForkStart
<1>2. CASE BlockSteps \/ StoreFails
  BY <1>2, NoForkBlocks
<1>3. CASE Crash
  BY <1>3, NoForkStopped DEF Crash, Exit
<1>4. CASE WorkerThread \/ WorkFails \/ ServerExtends \/ ServerReorgs \/ OnlyServe \/ UNCHANGED vars
  <2>1. UNCHANGED <<pc, item, file, batch, gba, cursor, bcVars>>
    BY <1>4 DEF WorkerThread, Pop, WorkSaved, WorkDropped, WorkFails, WorkDone, ServerExtends,
       ServerReorgs, OnlyServe, vars, sourceVars
  <2> QED
    BY <1>0, <2>1, KeepsChain, NoForkSame
<1> QED
  BY <1>0, <1>1, <1>2, <1>3, <1>4 DEF SyncNext, SyncThread, Environment

LEMMA ServedStart ==
    ASSUME SyncInit
    PROVE  EntriesOK /\ ServedOK /\ NoForkOK /\ reorgs = 0
<1>1. /\ file = <<>> /\ loadedFile = <<>> /\ batch = <<>> /\ queue = <<>> /\ item = NoHash
      /\ mainBlock = NoEntry /\ working = NoEntry /\ pc = "off" /\ reorgs = 0
      /\ DOMAIN headers = {} /\ DOMAIN blocks = {Genesis}
  BY DEF SyncInit, Fresh
<1>2. /\ RangeOf(file) = {} /\ RangeOf(loadedFile) = {} /\ RangeOf(batch) = {}
      /\ {queue[i].hash : i \in DOMAIN queue} = {} /\ NoEntry.hash = NoHash
  BY <1>1 DEF RangeOf, NoEntry, Entry
<1>3. \A x \in Present : x \notin Hash
  BY <1>1, <1>2, SyncAssumption, HashAssumption DEF Present, Block
<1>4. NoForkOK
  BY <1>1 DEF NoForkOK, Linked, Running, Recovering
<1> QED
  BY <1>1, <1>3, <1>4, WorkerStart DEF ServedOK

\* When the servers never change to another chain, no block of theirs is ever
\* refused and the recovery from a fork is never entered, however often writes
\* fail and wherever the process is killed.
THEOREM NoForkInvariant ==
    ASSUME MaxReorgs = 0
    PROVE  SyncSpec => [](SyncInv /\ EntriesOK /\ ServedOK /\ NoForkOK)
<1> DEFINE Inv == SyncInv /\ EntriesOK /\ ServedOK /\ NoForkOK /\ reorgs = 0
<1>1. SyncInit => Inv
  BY InvInit, ServedStart
<1>2. Inv /\ [SyncNext]_vars => Inv'
  <2> SUFFICES ASSUME Inv, [SyncNext]_vars PROVE Inv'
    OBVIOUS
  <2>1. SyncInv'
    BY NoForkSteps, InvNext
  <2>2. EntriesOK' /\ ServedOK' /\ NoForkOK' /\ reorgs' = 0
    BY EntriesNext, ServedNext, NoForkNext
  <2> QED
    BY <2>1, <2>2
<1> QED
  BY <1>1, <1>2, PTL DEF SyncSpec

\* Two blocks of one height, both from the servers, are the same.
LEMMA SavedOnChain ==
    ASSUME SyncInv, EntriesOK, ServedOK
    PROVE  WorkerOnChain
<1> SUFFICES ASSUME NEW n \in 1..countBlocks, n = mainBlock.number
             PROVE  getBlock(n) = mainBlock.hash
  BY DEF WorkerOnChain
<1>1. BcInv /\ OrphansNotNumbered /\ countBlocks \in Nat /\ tip \in Block
  BY Given DEF ThreadTypeOK
<1>2. mainBlock # NoEntry
  <2>1. n # 0
    BY <1>1
  <2> QED
    BY <2>1 DEF NoEntry, Entry
<1>3. mainBlock.hash \in Hash /\ height[mainBlock.hash] = n
  BY <1>2 DEF EntriesOK, Fits
<1>4. getBlock(n) \in Hash /\ height[getBlock(n)] = n
  BY <1>1, ListHeights
<1>5. n \in 0..countBlocks
  BY <1>1
<1>6. getBlock(n) \in DOMAIN blocks
  BY <1>1, <1>5, InvFacts
<1>7. OnServer(mainBlock.hash) /\ OnServer(getBlock(n))
  BY <1>3, <1>4, <1>6 DEF ServedOK, Present
<1> QED
  BY <1>1, <1>3, <1>4, <1>7, ServerChain

\* When the servers never change to another chain, the balances that the main
\* worker has saved are those of a block of the chain, whatever fails and
\* wherever the process is killed.
THEOREM SavedBlockOnChain ==
    ASSUME MaxReorgs = 0
    PROVE  SyncSpec => []WorkerOnChain
<1>1. SyncInv /\ EntriesOK /\ ServedOK /\ NoForkOK => WorkerOnChain
  BY SavedOnChain
<1> QED
  BY <1>1, NoForkInvariant, PTL

\* A worker whose work never fails leaves out no block, whatever crashes and
\* restarts there are, and whatever forks, as long as the process is not
\* killed between the cut of the files and the removal of the databases.
THEOREM WorkerSavesInOrder ==
    ASSUME MaxFaults = 0, "dropDb" \notin CrashPoints \/ MaxReorgs = 0
    PROVE  SyncSpec => WorkerContiguous
<1> DEFINE Saves == FirstOK /\ faults = 0
<1>1. SyncSpec => [](SyncInv /\ EntriesOK)
  <2>1. CASE "dropDb" \notin CrashPoints
    <3>1. SyncInit => SyncInv /\ EntriesOK
      BY InvInit, WorkerStart
    <3>2. SyncInv /\ EntriesOK /\ [SyncNext]_vars => SyncInv' /\ EntriesOK'
      BY <2>1, InvNext, EntriesNext
    <3> QED
      BY <3>1, <3>2, PTL DEF SyncSpec
  <2>2. CASE MaxReorgs = 0
    <3>1. SyncSpec => [](SyncInv /\ EntriesOK /\ ServedOK /\ NoForkOK)
      BY <2>2, NoForkInvariant
    <3> QED
      BY <3>1, PTL
  <2> QED
    BY <2>1, <2>2
<1>2. SyncInit => Saves
  BY WorkerStart
<1>3. SyncInv /\ EntriesOK /\ Saves /\ [SyncNext]_vars => Saves'
  BY FirstNext
<1>4. SyncInv /\ EntriesOK /\ Saves /\ [SyncNext]_vars
        => [mainBlock'.number \in {0, mainBlock.number, mainBlock.number + 1}]_vars
  BY ContiguousNext
<1> QED
  BY <1>1, <1>2, <1>3, <1>4, PTL DEF SyncSpec, WorkerContiguous

=============================================================================
