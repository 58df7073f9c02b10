----------------------------- MODULE BlockChain -----------------------------
(***************************************************************************)
(* The in-memory block chain of a torrent node (src/src/BlockChain.cpp).   *)
(* It keeps a map from hash to header, where a header may or may not have  *)
(* received its number, and the list of numbered headers in order.         *)
(* Headers arrive one at a time in a running node (addBlock), or all at    *)
(* once when the node starts (addWithoutCalc for each header found in the  *)
(* database, then one calcBlockchain from the hash of the last block).     *)
(*                                                                         *)
(* The mutex of the class makes each public operation atomic; addBlock     *)
(* takes it three times, but a single thread calls the writing operations  *)
(* and no reader waits for a state between them.                           *)
(***************************************************************************)
EXTENDS Integers, Sequences, FiniteSets

CONSTANTS
    Hash,         \* the hashes of the blocks that may ever be offered
    Genesis,      \* the all-zero hash of the block number 0
    prevHash,     \* the parent named in each block
    height,       \* how many blocks lead from the genesis block to each
    StateBlocks   \* the blocks whose type says "state block"

ASSUME HashAssumption ==
    /\ IsFiniteSet(Hash) /\ Genesis \notin Hash
    /\ prevHash \in [Hash -> Hash \cup {Genesis}]
    /\ StateBlocks \subseteq Hash

\* A block is hashed with its parent's hash in it, so that the parents of a
\* block never lead back to it: they lead to the genesis block.
ASSUME HeightAssumption ==
    /\ height \in [Hash -> Nat]
    /\ \A h \in Hash :
        height[h] = IF prevHash[h] = Genesis THEN 1 ELSE height[prevHash[h]] + 1

VARIABLES
    blocks,         \* hash -> number, NoNumber for a header without one
    hashes,         \* the numbered blocks; number n is at index n + 1
    lastStateBlock  \* the number of the last state block, 0 for none

bcVars == <<blocks, hashes, lastStateBlock>>

NoNumber == -1      \* std::nullopt in BlockHeader::blockNumber

Block == Hash \cup {Genesis}

countBlocks == Len(hashes) - 1

\* BlockChain::getBlock(number) and getLastBlock, for a number in range.
getBlock(n) == hashes[n + 1]
getLastBlock == getBlock(countBlocks)

-----------------------------------------------------------------------------
(* calcBlockchain walks from a block towards its ancestors for as long as   *)
(* the block it stands on has no number.                                    *)

\* Ancestor[n][h] is the block n parents above h, Genesis above the first.
Ancestor[n \in Nat] ==
    [h \in Block |->
        IF n = 0 THEN h
        ELSE LET child == Ancestor[n - 1][h]
             IN  IF child \in Hash THEN prevHash[child] ELSE Genesis]

\* A block and some of the blocks above it.
AncestorLists ==
    {[i \in 1..n |-> Ancestor[i - 1][h]] : n \in 1..Cardinality(Hash), h \in Hash}

\* The parent-linked lists of blocks, youngest first.
Paths ==
    {p \in AncestorLists :
        /\ \A i \in 1..Len(p) : p[i] \in Hash
        /\ \A i \in 1..(Len(p) - 1) : p[i + 1] = prevHash[p[i]]}

Unnumbered(bl, h) == h \in DOMAIN bl /\ bl[h] = NoNumber

\* p is the processedBlocks that the loop collects when it starts at h.
IsWalk(bl, h, p) ==
    /\ p[1] = h
    /\ \A i \in 1..Len(p) : Unnumbered(bl, p[i])
    /\ ~Unnumbered(bl, prevHash[p[Len(p)]])

\* The number of the block the loop stops at.  When the parent of the oldest
\* walked block is unknown the loop leaves bh at that block, which the loop
\* has just numbered Len(p) - 1: the branch for "no number" is never taken.
BaseNumber(bl, p) ==
    LET top == prevHash[p[Len(p)]]
    IN  IF top \in DOMAIN bl THEN bl[top] ELSE Len(p) - 1

\* The number that the reverse loop gives to the i-th walked block.
WalkNumber(bl, p, i) == BaseNumber(bl, p) + Len(p) - i + 1

\* Mutant: the number is not compared with the size of the list.
WalkFits_Unchecked(bl, hs, p) == TRUE

\* The loop stops with nullopt at the first number that is not the next free
\* one, which can only be the number of the oldest walked block.
WalkFits(bl, hs, p) == WalkNumber(bl, p, Len(p)) = Len(hs)

\* The greater of m and the greatest number in S.
MaxFrom(m, S) ==
    CHOOSE n \in S \cup {m} : \A k \in S \cup {m} : k <= n

\* The numbers among is, indices into p, that belong to state blocks.
StateNumbers(bl, p, is) ==
    {WalkNumber(bl, p, i) : i \in {j \in is : p[j] \in StateBlocks}}

\* Mutant: the walked blocks are appended in the order of the walk.
InOrder_AsWalked(p) == p

\* The reverse iteration over processedBlocks.
InOrder(p) == [i \in 1..Len(p) |-> p[Len(p) - i + 1]]

\* calcBlockchain returns a number: every walked block is numbered and
\* appended, the oldest first.
CalcAccepts(bl, hs, ls, p) ==
    /\ WalkFits(bl, hs, p)
    /\ blocks' = [x \in DOMAIN bl |->
                    IF \E i \in 1..Len(p) : p[i] = x
                    THEN WalkNumber(bl, p, CHOOSE i \in 1..Len(p) : p[i] = x)
                    ELSE bl[x]]
    /\ hashes' = hs \o InOrder(p)
    /\ lastStateBlock' = MaxFrom(ls, StateNumbers(bl, p, 1..Len(p)))

\* Mutants: the block is not removed, or its parent is removed in its place.
Removed_Nothing(p) == {}
Removed_Parent(p) == {prevHash[p[1]]}

\* What addBlock removes when calcBlockchain returns nullopt.
Removed(p) == {p[1]}

\* calcBlockchain returns nullopt and its caller removes the block it started
\* from: the oldest walked block has its final number, and lastStateBlock has
\* already been raised to it, while the others keep the loop counter.
CalcRefuses(bl, hs, ls, p) ==
    /\ ~WalkFits(bl, hs, p)
    /\ blocks' = [x \in DOMAIN bl \ Removed(p) |->
                    IF x = p[Len(p)] THEN WalkNumber(bl, p, Len(p))
                    ELSE IF \E i \in 1..Len(p) : p[i] = x
                         THEN (CHOOSE i \in 1..Len(p) : p[i] = x) - 1
                         ELSE bl[x]]
    /\ hashes' = hs
    /\ lastStateBlock' = MaxFrom(ls, StateNumbers(bl, p, {Len(p)}))

-----------------------------------------------------------------------------
\* BlockChain::initialize, run by the constructor and by clear.
Fresh ==
    /\ blocks = [x \in {Genesis} |-> 0]
    /\ hashes = <<Genesis>>
    /\ lastStateBlock = 0

\* addWithoutCalc for every header in D.
WithHeaders(bl, D) ==
    [x \in DOMAIN bl \cup D |-> IF x \in DOMAIN bl THEN bl[x] ELSE NoNumber]

\* addBlock numbers the block and returns its number.
AddAccepted(h) ==
    /\ h \notin DOMAIN blocks
    /\ \E p \in Paths :
        /\ IsWalk(WithHeaders(blocks, {h}), h, p)
        /\ CalcAccepts(WithHeaders(blocks, {h}), hashes, lastStateBlock, p)

\* addBlock returns nullopt: the block does not extend the last block.
AddRefused(h) ==
    /\ h \notin DOMAIN blocks
    /\ \E p \in Paths :
        /\ IsWalk(WithHeaders(blocks, {h}), h, p)
        /\ CalcRefuses(WithHeaders(blocks, {h}), hashes, lastStateBlock, p)

\* addBlock throws "already exist".
AddExisting(h) ==
    /\ h \in DOMAIN blocks
    /\ UNCHANGED bcVars

\* Mutant: clear does not put the genesis block back.
HeaderMap_NoGenesis(D) == WithHeaders([x \in {} |-> 0], D)

\* The map of headers after clear and addWithoutCalc for every header in D.
HeaderMap(D) == WithHeaders([x \in {Genesis} |-> 0], D)

\* Mutant: the last state block is the one of the process before.
Load_StaleStateBlock(D, last) ==
    \E p \in Paths :
        /\ IsWalk(HeaderMap(D), last, p)
        /\ CalcAccepts(HeaderMap(D), <<Genesis>>, lastStateBlock, p)

\* The start of a process that finds the headers D in its database, last
\* being the one named in the metadata: SyncImpl::initialize.
Load(D, last) ==
    \E p \in Paths :
        /\ IsWalk(HeaderMap(D), last, p)
        /\ CalcAccepts(HeaderMap(D), <<Genesis>>, 0, p)

\* A process that finds no metadata keeps the state of the constructor.
LoadEmpty ==
    /\ blocks' = [x \in {Genesis} |-> 0]
    /\ hashes' = <<Genesis>>
    /\ lastStateBlock' = 0

\* The headers of the first k blocks, which is what a node that saves each
\* block after adding it finds in the database when it starts again.
StoredHeaders(k) == {getBlock(n) : n \in 1..k}

Restart ==
    \/ LoadEmpty
    \/ \E k \in 1..countBlocks : Load(StoredHeaders(k), getBlock(k))

AddBlock(h) == AddAccepted(h) \/ AddRefused(h) \/ AddExisting(h)

BcInit == Fresh

BcNext == (\E h \in Hash : AddBlock(h)) \/ Restart

BcSpec == BcInit /\ [][BcNext]_bcVars

-----------------------------------------------------------------------------
\* The map has a number or NoNumber for every known hash, the list holds
\* blocks, and the number of the last state block is not negative.
BcTypeOK ==
    /\ blocks \in [DOMAIN blocks -> Int]
    /\ Genesis \in DOMAIN blocks /\ DOMAIN blocks \subseteq Block
    /\ hashes \in Seq(Block)
    /\ lastStateBlock \in Nat

\* The map and the list agree: every known header is in the list under its
\* own number.  In particular a refused block leaves no header behind.
NumbersAgree ==
    /\ Len(hashes) > 0
    /\ \A n \in 0..countBlocks :
            getBlock(n) \in DOMAIN blocks /\ blocks[getBlock(n)] = n
    /\ \A x \in DOMAIN blocks :
            blocks[x] \in 0..countBlocks /\ getBlock(blocks[x]) = x

\* Every block but the first extends the block before it.  The first block of
\* an empty chain is taken whatever parent it names: calcBlockchain gives the
\* number 1 to a block whose parent is unknown.
ChainLinked ==
    /\ getBlock(0) = Genesis
    /\ \A n \in 2..countBlocks : prevHash[getBlock(n)] = getBlock(n - 1)

\* getLastStateBlock indexes the list with lastStateBlock unchecked.
LastStateBlockInRange == lastStateBlock <= countBlocks

\* Every prefix of a chain that starts at the genesis block can be loaded
\* back from its headers alone, whose numbers the database does not hold: the
\* walk from the last header reaches the genesis block with fitting numbers.
RestartSucceeds ==
    (countBlocks > 0 => prevHash[getBlock(1)] = Genesis) =>
    \A k \in 1..countBlocks :
        \E p \in Paths :
            /\ IsWalk(HeaderMap(StoredHeaders(k)), getBlock(k), p)
            /\ WalkFits(HeaderMap(StoredHeaders(k)), <<Genesis>>, p)

\* A number once given to a block is never given to another one: an added
\* block extends the list, and a restart numbers a prefix the same way.
NumbersStable ==
    [][\A n \in 0..countBlocks : n <= countBlocks' => getBlock(n)' = getBlock(n)]_bcVars

\* SyncImpl::process checks that a block it added did not get the number 0,
\* the answer of calcBlockchain for a block that leads to no numbered one:
\* so no block is numbered whose parent is not the block before it.
OrphansNotNumbered ==
    \A n \in 1..countBlocks : prevHash[getBlock(n)] = getBlock(n - 1)
=============================================================================
