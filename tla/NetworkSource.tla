--------------------------- MODULE NetworkSource ----------------------------
(***************************************************************************)
(* How a node copies blocks and sign blocks from other nodes:              *)
(* NetworkBlockSource, which hands them to SyncImpl one by one, the cache  *)
(* of headers and dumps in GetNewBlocksFromServer under it, and what the   *)
(* asked nodes answer out of their own BlocksTimeline (Server.cpp).        *)
(*                                                                         *)
(* All nodes have a prefix of one timeline (forks are the matter of Sync). *)
(* The transport is a request that is answered or fails as a whole (how    *)
(* it is spread over the nodes is in P2PQueue); an answer with a dump may  *)
(* be wrong.  The block written on the local disk is what SyncImpl does    *)
(* with a delivered block: see Accepts.                                    *)
(***************************************************************************)
EXTENDS Integers, SequencesExt, FiniteSetsExt

CONSTANTS
    Servers,             \* the other nodes
    Configs,             \* timelines and options a behaviour may start with
    CountAdvancedBlocks, \* COUNT_ADVANCED_BLOCKS, 8 in the code
    MaxAdvancedLoad,     \* the option max_advanced_blocks
    BlocksInBatch,       \* the option count_blocks_in_batch
    PreloadBlocks,       \* PRELOAD_BLOCKS, 5 in the code
    PreloadSlack,        \* MAX_PRELOAD_BLOCKS / 2 of Server.cpp
    MaxFaults,           \* how many requests fail or are answered wrongly
    MaxRestarts          \* how often the node is restarted

\* What the nodes agree on: it begins with the first block, no element is there
\* twice, and a block comes after the one before it.
IsTimeline(tl) ==
    /\ tl \in Seq({"block", "sign"} \X Nat) /\ IsInjective(tl)
    /\ \A i \in DOMAIN tl :
        /\ i = 1 => tl[i] = <<"block", 1>>
        /\ i # 1 /\ tl[i][1] = "block" =>
            \E j \in 1 .. i - 1 : tl[j] = <<"block", tl[i][2] - 1>>

ASSUME NetworkAssumption ==
    /\ \A c \in Configs : IsTimeline(c.timeline)
    /\ CountAdvancedBlocks \in Nat \ {0} /\ MaxAdvancedLoad \in Nat \ {0}
    /\ BlocksInBatch \in Nat \ {0} /\ PreloadBlocks \in Nat
    /\ PreloadSlack \in Nat /\ MaxFaults \in Nat /\ MaxRestarts \in Nat

VARIABLES
    conf,         \* the timeline of the network, the big blocks, the options
    have,         \* how much of the timeline each of the other nodes has
    local,        \* the timeline of this node
    pc,           \* where the synchronisation thread is
    nextBlockToRead, lastBlockInBlockchain, servers, lastFileName,
    afterBlocksAdditings,
    headers,      \* advancedLoadsBlocksHeaders
    dumps,        \* advancedLoadsBlocksDumps
    advancedBlocks, \* those from currentProcessedBlock on
    pending,      \* additingBlocks that are still to be fetched
    fetched,      \* the loop counter of process
    faults, restarts

sourceVars == <<nextBlockToRead, lastBlockInBlockchain, servers, lastFileName,
                afterBlocksAdditings, headers, dumps, advancedBlocks, pending,
                fetched>>
nsVars == <<conf, have, local, pc, sourceVars, faults, restarts>>

R == INSTANCE Replica WITH timeline <- conf.timeline, copy <- local

Block(n) == <<"block", n>>
NoHash == <<"none", 0>>
NoFile == "none"
Junk == <<"junk", 0>>
Nothing == [h \in {} |-> Junk]
NoAdditings == [cleared |-> TRUE, hashes |-> {}]

-----------------------------------------------------------------------------
(* The nodes that are asked.                                                *)

View(s) == SubSeq(conf.timeline, 1, have[s])

Count(s) == R!CountBlocks(View(s))

\* getSignaturesBetween(block n, nothing), and (nothing, block n + 1).
getSignaturesBetween(s, n) == R!SignsAfter(View(s), n)

\* A header for P2P; only the last of an answer names the sign blocks after it.
Header(s, n, isLast) ==
    [number |-> n, hash |-> Block(n),
     prev |-> IF n = 1 THEN {} ELSE Range(getSignaturesBetween(s, n - 1)),
     next |-> IF isLast THEN Range(getSignaturesBetween(s, n)) ELSE {}]

\* get-count-blocks fails on an empty node: block 0 is in no timeline.
AnswersCount(s) == Count(s) > 0

\* pre-load: the blocks after current up to a big one, if current is not far
\* behind, then their dumps, those of the sign blocks before them and those of
\* the sign blocks after the last one.
PreLoadLast(s, current) ==
    LET near == Count(s) <= current + PreloadBlocks + PreloadSlack
        end == Min({current + PreloadBlocks, Count(s)})
        fit == {n \in current + 1 .. end :
                    near /\ \A k \in current + 1 .. n : k \notin conf.big}
    IN current + Cardinality(fit)

PreLoadHeaders(s, current, end) ==
    [i \in 1 .. end - current |-> Header(s, current + i, current + i = end)]

SignsBetween(tl, n, m) ==
    SelectSeq(SubSeq(tl, R!Position(tl, n) + 1,
                     R!Position(tl, m) + Len(R!SignsAfter(tl, m))), R!IsSign)

PreLoadDumps(s, current, end) ==
    IF end = current /\ Count(s) # current
    THEN <<>>
    ELSE [i \in 1 .. end - current |-> Block(current + i)]
         \o SignsBetween(View(s), current, end)

\* Sent only when there is no header, and the asking node has all blocks.
PreLoadSigns(s, current) ==
    IF Count(s) = current THEN getSignaturesBetween(s, current) ELSE <<>>

AnswersPreLoad(s, current) == Count(s) > 0 \/ current > 0

-----------------------------------------------------------------------------
(* GetNewBlocksFromServer.                                                  *)

ByHash(S) == SetToSortSeq(S, LAMBDA a, b : a[2] < b[2])

\* Mutant: the dumps of the sign blocks are expected before that of their block.
PreLoadOrder_Interleaved(hs, additionalHashes) ==
    FlattenSeq([i \in DOMAIN hs |-> ByHash(hs[i].prev) \o <<hs[i].hash>>])
    \o additionalHashes

\* addPreLoadBlocks: the sign blocks of a header are a std::set of hashes, and
\* the dumps are given to them in that order.
PreLoadOrder(hs, additionalHashes) ==
    [i \in DOMAIN hs |-> hs[i].hash]
    \o FlattenSeq([i \in DOMAIN hs |-> ByHash(hs[i].prev)])
    \o additionalHashes

addPreLoadBlocks(hashes, blocksDumps) ==
    [h \in Range(hashes) |-> blocksDumps[CHOOSE i \in DOMAIN hashes : hashes[i] = h]]

\* The parts of an answer: all servers that are asked have these blocks, so
\* they can differ only in the sign blocks after the last one.
RequestHeaders(s, from, count) ==
    {Header(s, n, n = from + count - 1 \/ (n - from + 1) % BlocksInBatch = 0) :
        n \in from .. from + count - 1}

Cached(n) == \E h \in headers : h.number = n

\* getBlockHeader: what advancedLoadsBlocksHeaders may be after it.
getBlockHeader(n) ==
    IF Cached(n) THEN {headers}
    ELSE {RequestHeaders(s, from, count) :
            s \in servers, from \in {n},
            count \in {Min({lastBlockInBlockchain - n + 1, MaxAdvancedLoad})}}

\* The hashes that getBlockDump loads along with the one it needs: those of
\* the first header that mentions it and of the headers after that one.
LoadedWith(hash, hs) ==
    LET mentioning == {h \in hs : hash \in {h.hash} \cup h.prev \cup h.next}
    IN UNION {h.prev \cup h.next \cup IF h.number \in conf.big THEN {} ELSE {h.hash} :
                h \in {g \in hs : \E m \in mentioning : m.number <= g.number}}

\* getBlockDump: the cache and the dump after it, and what it cost in faults.
\* The dump of a hash is written as that hash; Junk is a wrong dump.
getBlockDump(hash, hs) ==
    IF hash \in DOMAIN dumps
    THEN {[cache |-> dumps, dump |-> dumps[hash], cost |-> 0]}
    ELSE {[cache |-> [h \in new \cup DOMAIN dumps |->
                        IF h \notin new THEN dumps[h] ELSE IF h \in bad THEN Junk ELSE h],
           dump |-> IF hash \in bad THEN Junk ELSE hash,
           cost |-> Cardinality(bad)] :
            new \in {LoadedWith(hash, hs)},
            bad \in {{}} \cup {{h} : h \in LoadedWith(hash, hs) \cup {hash}}}

-----------------------------------------------------------------------------
(* NetworkBlockSource::doProcess.                                           *)

NsInit ==
    /\ conf \in Configs
    /\ have = [s \in Servers |-> 0] /\ local = <<>>
    /\ pc = "idle"
    /\ nextBlockToRead = 0 /\ lastBlockInBlockchain = 0 /\ servers = {}
    /\ lastFileName = NoFile /\ afterBlocksAdditings = NoAdditings
    /\ headers = {} /\ dumps = Nothing /\ advancedBlocks = {}
    /\ pending = {} /\ fetched = 0
    /\ faults = 0 /\ restarts = 0

Fault(n) == faults + n <= MaxFaults /\ faults' = faults + n

\* Mutant: the cache outlives the round it was filled in.
ClearedCache_Kept == dumps

ClearedCache == Nothing

\* The nodes of those that answered that have the most blocks.
Highest(answered) == {s \in answered : \A t \in answered : Count(t) <= Count(s)}

Additings(hashes) ==
    IF lastBlockInBlockchain' = R!CountBlocks(local)
    THEN [cleared |-> FALSE, hashes |-> hashes]
    ELSE NoAdditings

\* The start of both forms of doProcess, and their end when nobody answered.
BeginRound(answered) ==
    /\ pc = "idle" /\ Fault(Cardinality(Servers \ answered))
    /\ nextBlockToRead' = R!CountBlocks(local) + 1
    /\ advancedBlocks' = {} /\ pending' = {} /\ fetched' = 0
    /\ UNCHANGED <<conf, have, local, lastFileName, restarts>>

NoAnswer(answered) ==
    /\ answered = {} /\ pc' = "idle"
    /\ headers' = {} /\ dumps' = ClearedCache
    /\ afterBlocksAdditings' = NoAdditings
    /\ UNCHANGED <<lastBlockInBlockchain, servers>>

Answered(answered) ==
    /\ answered # {} /\ pc' = "process"
    /\ servers' = Highest(answered)
    /\ lastBlockInBlockchain' = Max({Count(s) : s \in answered})

doProcess(answered) ==
    /\ ~conf.preLoad /\ BeginRound(answered)
    /\ LET known == {s \in answered : AnswersCount(s)} IN
       \/ NoAnswer(known)
       \/ /\ Answered(known)
          /\ headers' = {} /\ dumps' = ClearedCache
          /\ afterBlocksAdditings' = Additings(
                UNION {Range(getSignaturesBetween(s, Count(s))) : s \in Highest(known)})

doProcessPreLoad(answered) ==
    /\ conf.preLoad /\ BeginRound(answered)
    /\ \E current \in {R!CountBlocks(local)} :
       \E known \in {{s \in answered : AnswersPreLoad(s, current)}} :
       \/ NoAnswer(known)
       \/ /\ Answered(known)
          /\ \E s \in Highest(known) : \E end \in {PreLoadLast(s, current)} :
             \E hs \in {PreLoadHeaders(s, current, end)}, signs \in {PreLoadSigns(s, current)} :
             \E hashes \in {PreLoadOrder(hs, signs)} :
                /\ headers' = Range(hs)
                /\ dumps' = addPreLoadBlocks(hashes, PreLoadDumps(s, current, end))
                              @@ ClearedCache
                /\ afterBlocksAdditings' = Additings(Range(signs))

-----------------------------------------------------------------------------
(* NetworkBlockSource::process.                                             *)

\* The order of AdvancedBlock::Key: number, position, hash.
Before(a, b) ==
    \/ a.number < b.number
    \/ a.number = b.number /\ a.pos < b.pos
    \/ a.number = b.number /\ a.pos = b.pos /\ a.hash[2] <= b.hash[2]

First(S) == CHOOSE a \in S : \A b \in S : Before(a, b)

BeforeBlock == 0
ThisBlock == 1
AfterBlock == 2

Additing(pos, n, h) == [number |-> n, pos |-> pos, hash |-> h]

\* Mutant: a sign block that two headers mention is fetched twice.
WithoutRepetition_None(additings) == additings

WithoutRepetition(additings) ==
    {a \in additings : \A b \in additings : b.hash = a.hash => Before(a, b)}

\* The first half of processAdditingBlocks.
NewAdditings(additings) ==
    {a \in WithoutRepetition(additings) : a.hash \notin Range(local)}

CountAdvanced ==
    Min({CountAdvancedBlocks, lastBlockInBlockchain - nextBlockToRead + 1})

processBegins ==
    /\ pc = "process" /\ advancedBlocks = {}
    /\ \/ /\ ~afterBlocksAdditings.cleared
          /\ pending' = NewAdditings(
                {Additing(AfterBlock, lastBlockInBlockchain, h) :
                    h \in afterBlocksAdditings.hashes})
          /\ afterBlocksAdditings' = NoAdditings
          /\ pc' = "additing" /\ UNCHANGED fetched
       \/ /\ afterBlocksAdditings.cleared
          /\ lastBlockInBlockchain >= nextBlockToRead
          /\ pc' = "batch" /\ fetched' = 0
          /\ UNCHANGED <<pending, afterBlocksAdditings>>
       \/ /\ afterBlocksAdditings.cleared
          /\ lastBlockInBlockchain < nextBlockToRead
          /\ pc' = "idle" /\ UNCHANGED <<pending, fetched, afterBlocksAdditings>>
    /\ UNCHANGED <<conf, have, local, nextBlockToRead, lastBlockInBlockchain,
                   servers, lastFileName, headers, dumps, advancedBlocks,
                   faults, restarts>>

\* blockSize is the size of the dump that a server has without its signature,
\* but that of a sign block is the size of the dump that was received.
AdvancedBlock(h, dump, exception) ==
    [number |-> h.number, pos |-> ThisBlock, hash |-> h.hash, dump |-> dump,
     signedSize |-> FALSE, file |-> "blocks", exception |-> exception,
     prev |-> h.prev, next |-> h.next]

AdvancedSign(a, dump, file) ==
    [number |-> a.number, pos |-> a.pos, hash |-> a.hash, dump |-> dump,
     signedSize |-> conf.verify, file |-> file, exception |-> FALSE,
     prev |-> {}, next |-> {}]

NextInBatch == nextBlockToRead + fetched

InBatch ==
    /\ pc = "batch" /\ fetched < CountAdvanced
    /\ UNCHANGED <<conf, have, local, nextBlockToRead, lastBlockInBlockchain,
                   servers, lastFileName, afterBlocksAdditings, pending, restarts>>

fetchBlock ==
    /\ InBatch
    /\ \E hs \in getBlockHeader(NextInBatch) : \E h \in hs :
        /\ h.number = NextInBatch /\ headers' = hs
        /\ \/ \E d \in getBlockDump(h.hash, hs) :
                /\ dumps' = d.cache /\ Fault(d.cost)
                /\ advancedBlocks' = advancedBlocks \cup {AdvancedBlock(h, d.dump, FALSE)}
           \/ /\ h.hash \notin DOMAIN dumps /\ Fault(1)
              /\ advancedBlocks' = advancedBlocks \cup {AdvancedBlock(h, Junk, TRUE)}
              /\ UNCHANGED dumps
    /\ fetched' = fetched + 1 /\ UNCHANGED pc

\* Without a header the number that is compared with currBlock is not
\* initialised: the round ends there, or the exception is kept for later.
fetchHeaderFails ==
    /\ InBatch /\ ~Cached(NextInBatch) /\ Fault(1)
    /\ headers' = {} /\ UNCHANGED dumps
    /\ \/ pc' = "idle" /\ UNCHANGED <<advancedBlocks, fetched>>
       \/ /\ advancedBlocks' = advancedBlocks \cup
                {AdvancedBlock([number |-> NextInBatch, hash |-> NoHash,
                                prev |-> {}, next |-> {}], Junk, TRUE)}
          /\ fetched' = fetched + 1 /\ UNCHANGED pc

\* Mutant: only the sign blocks after a block are asked for.
AdditingsOf_OnlyNext(blocks) ==
    UNION {{Additing(AfterBlock, b.number, h) : h \in b.next} : b \in blocks}

AdditingsOf(blocks) ==
    UNION {{Additing(BeforeBlock, b.number, h) : h \in b.prev}
           \cup {Additing(AfterBlock, b.number, h) : h \in b.next} : b \in blocks}

batchFetched ==
    /\ pc = "batch" /\ fetched = CountAdvanced
    /\ pending' = NewAdditings(AdditingsOf(advancedBlocks))
    /\ pc' = "additing"
    /\ UNCHANGED <<conf, have, local, nextBlockToRead, lastBlockInBlockchain,
                   servers, lastFileName, afterBlocksAdditings, headers, dumps,
                   advancedBlocks, fetched, faults, restarts>>

\* The loop of processAdditingBlocks.  The file of a sign block is the one of
\* the block that mentions it, or of the last block that was delivered.
FileOf(a) == IF \E b \in advancedBlocks : b.number = a.number /\ b.pos = ThisBlock
             THEN "blocks" ELSE lastFileName

fetchAdditing ==
    /\ pc = "additing" /\ pending # {}
    /\ LET a == First(pending) IN
       \/ \E d \in getBlockDump(a.hash, headers) :
            /\ dumps' = d.cache /\ Fault(d.cost)
            /\ advancedBlocks' = advancedBlocks \cup {AdvancedSign(a, d.dump, FileOf(a))}
            /\ pending' = pending \ {a} /\ UNCHANGED pc
       \/ /\ a.hash \notin DOMAIN dumps /\ Fault(1) /\ pc' = "idle"
          /\ UNCHANGED <<dumps, advancedBlocks, pending>>
    /\ UNCHANGED <<conf, have, local, nextBlockToRead, lastBlockInBlockchain,
                   servers, lastFileName, afterBlocksAdditings, headers,
                   fetched, restarts>>

\* The checks on one block: the size, once the signature is cut off, and the
\* hash, that of the block that was asked for.
Parses(a) == ~a.signedSize /\ a.dump = a.hash

parseBlockInfo ==
    /\ pc = "additing" /\ pending = {}
    /\ advancedBlocks' = {[a EXCEPT !.exception = @ \/ ~Parses(a)] : a \in advancedBlocks}
    /\ pc' = "process"
    /\ UNCHANGED <<conf, have, local, nextBlockToRead, lastBlockInBlockchain,
                   servers, lastFileName, afterBlocksAdditings, headers, dumps,
                   pending, fetched, faults, restarts>>

\* What SyncImpl checks before it adds a block to its timeline: a sign block
\* needs a file, and is not there yet; a block follows the last one.
Accepts(a) ==
    IF a.pos = ThisBlock
    THEN a.dump = Block(R!CountBlocks(local) + 1)
    ELSE a.file # NoFile /\ a.dump \notin Range(local)

\* processAdvanced, and what SyncImpl does with the block.
processAdvanced ==
    /\ pc = "process" /\ advancedBlocks # {}
    /\ LET a == First(advancedBlocks) IN
       IF a.exception
       THEN pc' = "idle" /\ UNCHANGED <<advancedBlocks, lastFileName, nextBlockToRead, local>>
       ELSE /\ advancedBlocks' = advancedBlocks \ {a}
            /\ lastFileName' = a.file
            /\ nextBlockToRead' = nextBlockToRead + IF a.pos = ThisBlock THEN 1 ELSE 0
            /\ IF Accepts(a)
               THEN local' = Append(local, a.dump) /\ UNCHANGED pc
               ELSE pc' = "idle" /\ UNCHANGED local
    /\ UNCHANGED <<conf, have, lastBlockInBlockchain, servers, afterBlocksAdditings,
                   headers, dumps, pending, fetched, faults, restarts>>

-----------------------------------------------------------------------------
\* Another node gets the next block or sign block.
Grow(s) ==
    /\ have[s] < Len(conf.timeline)
    /\ have' = [have EXCEPT ![s] = @ + 1]
    /\ UNCHANGED <<conf, local, pc, sourceVars, faults, restarts>>

Restart ==
    /\ restarts < MaxRestarts /\ restarts' = restarts + 1
    /\ pc' = "idle"
    /\ nextBlockToRead' = 0 /\ lastBlockInBlockchain' = 0 /\ servers' = {}
    /\ lastFileName' = NoFile /\ afterBlocksAdditings' = NoAdditings
    /\ headers' = {} /\ dumps' = Nothing /\ advancedBlocks' = {}
    /\ pending' = {} /\ fetched' = 0
    /\ UNCHANGED <<conf, have, local, faults>>

SourceNext ==
    \/ \E answered \in SUBSET Servers : doProcess(answered) \/ doProcessPreLoad(answered)
    \/ processBegins \/ fetchBlock \/ fetchHeaderFails \/ batchFetched
    \/ fetchAdditing \/ parseBlockInfo \/ processAdvanced

NsNext == SourceNext \/ Restart \/ \E s \in Servers : Grow(s)

\* The synchronisation thread goes on; nothing makes other nodes get blocks.
NsSpec == NsInit /\ [][NsNext]_nsVars /\ WF_nsVars(SourceNext)

-----------------------------------------------------------------------------
(* Properties.                                                              *)

Hashes == Range(conf.timeline)

\* The variables have the types that the members of the classes have.
NsTypeOK ==
    /\ pc \in {"idle", "process", "batch", "additing"}
    /\ Range(local) \subseteq Hashes
    /\ have \in [Servers -> 0 .. Len(conf.timeline)]
    /\ nextBlockToRead \in Nat /\ lastBlockInBlockchain \in Nat
    /\ servers \subseteq Servers /\ fetched \in 0 .. CountAdvancedBlocks
    /\ DOMAIN dumps \subseteq Hashes /\ Range(dumps) \subseteq Hashes \cup {Junk}
    /\ \A h \in headers : h.hash = Block(h.number) /\ h.prev \cup h.next \subseteq Hashes
    /\ \A a \in advancedBlocks : a.hash \in Hashes \cup {NoHash} /\ a.exception \in BOOLEAN
    /\ \A a \in pending : a.hash \in Hashes

\* Whatever fails in between, the timeline of the node is a copy of that of the
\* network: the blocks in their order, and every sign block once, between the
\* same two blocks (NetworkBlockSource::process, SyncImpl::synchronize).
ImplementsReplica == R!RpSpec

\* SyncImpl never refuses a delivered block as one it has already or one that
\* does not follow ("Element ... already exist", BlocksTimeline.cpp).  Only a
\* sign block without a file name is refused.
NothingRefused ==
    pc = "process" /\ advancedBlocks # {} =>
        LET a == First(advancedBlocks)
        IN a.exception \/ Accepts(a) \/ a.file = NoFile

\* The checks of parseBlockInfo fail only on a dump that another node got
\* wrong, never because an honest answer was put in the wrong place.
HonestDumpsPass ==
    pc = "process" => \A a \in advancedBlocks : a.exception => a.dump = Junk

\* A sign block with no block after it that the node may not see for now: it
\* has no file to put it in, not having got a block since it was started, or
\* it pre-loads and takes the answer of a node that does not have it.
Stranded(k) ==
    /\ \A s \in Servers : \A i \in k .. have[s] : R!IsSign(conf.timeline[i])
    /\ \/ lastFileName = NoFile
       \/ conf.preLoad /\ \E s \in Highest(Servers) : have[s] < k

\* The node ends up with whatever the other nodes have, after any number of
\* failed and wrong answers, but for such sign blocks.
KeepsUp ==
    <>[] \A s \in Servers : \A k \in 1 .. have[s] :
            conf.timeline[k] \in Range(local) \/ Stranded(k)
=============================================================================
