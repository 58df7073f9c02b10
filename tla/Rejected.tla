------------------------------ MODULE Rejected ------------------------------
(***************************************************************************)
(* Rejected transactions: the worker thread that keeps their history       *)
(* (Workers/RejectedTxsWorker.cpp) and the two sources of rejected blocks  *)
(* it may have, FileRejectedBlockSource, which the synchronisation thread  *)
(* fills as it reads files, and NetworkRejectedBlockSource, which asks     *)
(* other nodes.                                                            *)
(*                                                                         *)
(* Rejected blocks are numbered by their place in the order by block       *)
(* number and time, in which they also come into the file; the holders     *)
(* that a source keeps are a set of such numbers.  Locks are as in the     *)
(* code: what happens between two of them is one step.                     *)
(***************************************************************************)
EXTENDS Integers, Sequences, FiniteSets, FiniteSetsExt

CONSTANTS
    Tx,          \* transactions
    txs,         \* txs[i] is the set of transactions of rejected block i
    Node,        \* the other nodes
    Kinds,       \* the sources to start with, of "file" and "network"
    Count,       \* how many of the last blocks are asked for, 100 in the code
    MaxBlocks,   \* MAXIMUM_BLOCKS and MAXIMUM_REJECTED_BLOCKS, 1000
    MaxLast,     \* maxCountElems, 500 in the code
    MaxHistory,  \* MAX_HISTORY_SIZE, 10 in the code
    MaxFaults    \* how many requests or reads fail

ASSUME RejectedAssumption ==
    /\ txs \in Seq(SUBSET Tx) /\ Kinds \subseteq {"file", "network"}
    /\ Count \in Nat \ {0} /\ MaxBlocks \in Nat /\ MaxLast \in Nat
    /\ Count <= MaxLast /\ MaxLast <= MaxBlocks
    /\ MaxHistory \in Nat \ {0} /\ MaxFaults \in Nat

RBlock == DOMAIN txs

VARIABLES
    kind,       \* which source this node has
    have,       \* how many rejected blocks each of the other nodes has
    read,       \* how many rejected blocks the file source was given
    source,     \* the holders of the source
    filled,     \* those of the file source whose block was read
    pc,         \* where the worker is, "dead" when its thread has ended
    holders,    \* the blocks calcLastBlocks is at, then those it returns
    missing,    \* the hashes whose dumps are asked for
    found,      \* what getBlocks returned
    currentRejectedBlocks, lastRejectedBlocks, history,
    counted,    \* history: how often a block was put in the history
    faults

sourceVars == <<source, filled>>
workerVars == <<currentRejectedBlocks, lastRejectedBlocks, history, counted>>
rjVars == <<kind, have, read, sourceVars, pc, holders, missing, found,
            workerVars, faults>>

\* The last k elements of a set.
Newest(S, k) == {i \in S : Cardinality({j \in S : j > i}) < k}

RjInit ==
    /\ kind \in Kinds
    /\ have = [n \in Node |-> 0] /\ read = 0
    /\ source = {} /\ filled = {}
    /\ pc = "start" /\ holders = {} /\ missing = {} /\ found = {}
    /\ currentRejectedBlocks = {} /\ lastRejectedBlocks = {}
    /\ history = [t \in Tx |-> <<>>]
    /\ counted = [i \in RBlock |-> 0]
    /\ faults = 0

Fault(n) == faults + n <= MaxFaults /\ faults' = faults + n

\* An exception that leaves worker(): its try is around the loop.
WorkerEnds == pc' = "dead" /\ UNCHANGED <<holders, missing, found, workerVars>>

-----------------------------------------------------------------------------
(* FileRejectedBlockSource.                                                 *)

\* addBlock, from the synchronisation thread.
addBlock ==
    /\ kind = "file" /\ read < Len(txs)
    /\ read' = read + 1
    /\ source' = Newest(source \cup {read + 1}, MaxBlocks)
    /\ filled' = filled \cap source'
    /\ UNCHANGED <<kind, have, pc, holders, missing, found, workerVars, faults>>

getLastHolders ==
    /\ kind = "file" /\ pc = "start"
    /\ holders' = Newest(source, Count) /\ pc' = "fill"
    /\ UNCHANGED <<kind, have, read, sourceVars, missing, found, workerVars, faults>>

\* A block that cannot be read, or whose parent is not in the blockchain.
fillHoldersFails ==
    /\ pc = "fill" /\ holders \ filled # {} /\ Fault(1)
    /\ WorkerEnds /\ UNCHANGED <<kind, have, read, sourceVars>>

\* Mutant: the blocks that were read are not put back.
Replaced_None == filled

\* The holders that are still there, found again by their index.
Replaced == filled \cup (holders \cap source)

replaceBlocks ==
    /\ pc = "fill" /\ filled' = Replaced /\ pc' = "calculated"
    /\ UNCHANGED <<kind, have, read, source, holders, missing, found, workerVars, faults>>

-----------------------------------------------------------------------------
(* NetworkRejectedBlockSource and GetNewRejectedBlocksFromServer.           *)

\* Mutant: the first blocks instead of the last ones.
LastOf_First(n) == {i \in 1 .. have[n] : i <= Count}

\* What another node names: calcLastBlocks of its worker.
LastOf(n) == Newest(1 .. have[n], Count)

\* getLastRejectedBlocks: the answer with the latest block, nothing when the
\* others have none; it throws when there is nothing and somebody failed.
getLastRejectedBlocks(answered) ==
    /\ kind = "network" /\ pc = "start"
    /\ Fault(Cardinality(Node \ answered))
    /\ IF \A n \in answered : have[n] = 0
       THEN IF answered = Node
            THEN /\ holders' = {} /\ missing' = {} /\ pc' = "dumps"
                 /\ UNCHANGED <<found, workerVars>>
            ELSE WorkerEnds
       ELSE \E n \in answered :
            /\ \A m \in answered : have[m] <= have[n]
            /\ holders' = LastOf(n)
            /\ missing' = LastOf(n) \ source
            /\ pc' = "dumps" /\ UNCHANGED <<found, workerVars>>
    /\ UNCHANGED <<kind, have, read, sourceVars>>

\* getDumps on another node: those of the hashes it knows.
DumpsOf(n) == missing \cap 1 .. have[n]

\* Mutant: the blocks with the lowest numbers are kept.
Kept_Lowest(blocks) ==
    {i \in blocks : Cardinality({j \in blocks : j < i}) < MaxBlocks}

\* addNewBlocks drops the blocks with the lowest numbers.
Kept(blocks) == Newest(blocks, MaxBlocks)

\* getRejectedBlocksDumps asks any node, not the one that named the blocks.
\* What it answers is accepted, an empty answer of a node that knows none of
\* them too (parseDumpBlockResponse): one that is too short throws afterwards.
getRejectedBlocksDumps ==
    /\ kind = "network" /\ pc = "dumps"
    /\ \/ /\ missing = {} \/ \E n \in Node : DumpsOf(n) = missing
          /\ source' = Kept(source \cup missing)
          /\ holders' = Newest(source', Count)
          /\ pc' = "calculated"
          /\ UNCHANGED <<filled, missing, found, workerVars, faults>>
       \/ /\ \E n \in Node : DumpsOf(n) # missing
          /\ WorkerEnds /\ UNCHANGED <<sourceVars, faults>>
       \/ /\ missing # {} /\ Fault(1)
          /\ WorkerEnds /\ UNCHANGED sourceVars
    /\ UNCHANGED <<kind, have, read>>

-----------------------------------------------------------------------------
(* RejectedTxsWorker.                                                       *)

New == holders \ currentRejectedBlocks

\* filterNewBlocks, getBlocks and addLastBlocks.
getBlocks ==
    /\ pc = "calculated"
    /\ found' = New \cap (IF kind = "file" THEN filled ELSE source)
    /\ lastRejectedBlocks' = Newest(lastRejectedBlocks \cup New, MaxLast)
    /\ pc' = "found"
    /\ UNCHANGED <<kind, have, read, sourceVars, holders, missing,
                   currentRejectedBlocks, history, counted, faults>>

\* The blocks of S that hold t, the latest first.
LatestFirst(S, t) ==
    LET mine == {i \in S : t \in txs[i]}
    IN [k \in 1 .. Cardinality(mine) |->
            CHOOSE i \in mine : Cardinality({j \in mine : j > i}) = k - 1]

\* addHistory for every block: what is over the limit is popped at the front.
addHistory(t) ==
    LET all == history[t] \o LatestFirst(found, t)
    IN IF Len(all) > MaxHistory
       THEN SubSeq(all, Len(all) - MaxHistory + 1, Len(all))
       ELSE all

\* processBlocks and clearOldHistory, which drops transactions whose last
\* rejection is older than a quarter of an hour.
processBlocks ==
    /\ pc = "found"
    /\ \E old \in SUBSET {t \in Tx : \A i \in found : t \notin txs[i]} :
        history' = [t \in Tx |-> IF t \in old THEN <<>> ELSE addHistory(t)]
    /\ counted' = [i \in RBlock |-> counted[i] + IF i \in found THEN 1 ELSE 0]
    /\ currentRejectedBlocks' = holders
    /\ pc' = "start"
    /\ UNCHANGED <<kind, have, read, sourceVars, holders, missing, found,
                   lastRejectedBlocks, faults>>

-----------------------------------------------------------------------------
\* Another node learns of the next rejected block.
Grow(n) ==
    /\ kind = "network" /\ have[n] < Len(txs)
    /\ have' = [have EXCEPT ![n] = @ + 1]
    /\ UNCHANGED <<kind, read, sourceVars, pc, holders, missing, found,
                   workerVars, faults>>

WorkerNext ==
    \/ getLastHolders \/ fillHoldersFails \/ replaceBlocks
    \/ \E answered \in SUBSET Node : getLastRejectedBlocks(answered)
    \/ getRejectedBlocksDumps \/ getBlocks \/ processBlocks

RjNext == WorkerNext \/ addBlock \/ \E n \in Node : Grow(n)

\* The worker thread goes on, once a second, until an exception ends it.
RjSpec == RjInit /\ [][RjNext]_rjVars /\ WF_rjVars(WorkerNext)

-----------------------------------------------------------------------------
(* Properties.                                                              *)

\* The variables have the types that the members of the classes have.
RjTypeOK ==
    /\ pc \in {"start", "fill", "dumps", "calculated", "found", "dead"}
    /\ source \subseteq RBlock /\ filled \subseteq source
    /\ Cardinality(source) <= MaxBlocks
    /\ holders \subseteq RBlock /\ Cardinality(holders) <= Count
    /\ missing \subseteq RBlock /\ found \subseteq RBlock
    /\ currentRejectedBlocks \subseteq RBlock
    /\ lastRejectedBlocks \subseteq RBlock
    /\ Cardinality(lastRejectedBlocks) <= MaxLast
    /\ history \in [Tx -> UNION {[1 .. k -> RBlock] : k \in 0 .. MaxHistory}]

\* A rejected block is put in the history once, however often it is named
\* again, and a block is taken for known only when that was done, unless it
\* was dropped from the source meanwhile (filterNewBlocks, processBlocks, and
\* addBlock between them).
CountedOnce ==
    /\ \A i \in RBlock : counted[i] <= 1
    /\ pc = "start" =>
        \A i \in currentRejectedBlocks : counted[i] = 1 \/ i \notin source

\* A node that has its rejected blocks from other nodes can give the dump of
\* every block it names: the others end their worker on a short answer
\* (calcLastBlocks and getDumps of the worker, addNewBlocks of the source).
NamedHaveDumps ==
    kind = "network" => Newest(lastRejectedBlocks, Count) \subseteq source

PassedOver(i) == i \notin Newest(source \cup {i}, Count)

\* A rejected block that the source can give gets into the history, unless
\* Count later ones came before the worker looked, or the worker has ended.
RejectedIsFound ==
    \A i \in RBlock :
        (i <= read \/ (Node # {} /\ \A n \in Node : i <= have[n]))
            ~> (counted[i] = 1 \/ PassedOver(i) \/ pc = "dead")

\* No node gives fewer dumps than it was asked for, none included: the check
\* "Incorrect answer" of getRejectedBlocksDumps.
DumpsComplete ==
    pc = "dumps" => \A n \in Node : DumpsOf(n) = missing
=============================================================================
