-------------------------------- MODULE Sync --------------------------------
(***************************************************************************)
(* The synchronisation of a node that takes its blocks from servers        *)
(* (get_blocks_from_file = false): SyncImpl::synchronize, the recovery     *)
(* from a fork in main.cpp, the thread of the main worker, and what of     *)
(* them survives a crash.                                                  *)
(*                                                                         *)
(* The steps of the synchronising thread are cut where another thread or a *)
(* crash can tell the difference: at each write to the block file or to    *)
(* the database, and at each push to the queue of the worker.  A database  *)
(* batch is atomic (leveldb).  A crash ends the process, not the machine:  *)
(* what was written stays written.                                         *)
(*                                                                         *)
(* The block files, written one after the other, are a single sequence of  *)
(* records; a position in it is an index.                                  *)
(***************************************************************************)
EXTENDS BlockChain, Ranks

CONSTANTS
    Sign,        \* the hashes of the sign blocks
    signParent,  \* the block that each sign block signs
    hashRank,    \* the order of the block hashes as byte strings
    NoHash,      \* an empty hash
    RawDump,     \* a record of the file without the size in front of it
    BatchSize,   \* COUNT_ADVANCED_BLOCKS, the blocks fetched at once
    CrashPoints, \* where the process may be killed
    MaxCrashes,  \* how often that may happen,
    MaxReorgs,   \* the servers may move to a fork,
    MaxFaults,   \* a write to the database or the work on a block may fail,
    MaxAlarms    \* and a vote of the servers may go our way

ASSUME SyncAssumption ==
    /\ Sign \cap Block = {}
    /\ signParent \in [Sign -> Hash]
    /\ hashRank \in [Hash -> Nat]
    /\ NoHash \notin Block \cup Sign
    /\ RawDump \notin Block \cup Sign \cup {NoHash}
    /\ BatchSize \in Nat \ {0}
    /\ {MaxCrashes, MaxReorgs, MaxFaults, MaxAlarms} \subseteq Nat

VARIABLES
    \* on disk
    file,        \* the records of the block files
    headers,     \* block hash -> the position in its header
    metadata,    \* the blockHash of BlocksMetadata
    timelineDb,  \* the keys of the saved timeline -> their elements
    mainBlock,   \* the last block the main worker saved: MainBlockInfo
    confirmed,   \* how far the file was indexed: FileInfo
    \* in the memory of the process
    pc,          \* where the synchronising thread is
    item,        \* the block or sign block it handles
    itemPos,     \* the position of the item in the file
    position,    \* block hash -> the position in its header in memory
    timeline,    \* the elements of BlocksTimeline
    gba,         \* the source of blocks: "file" or "network"
    cursor,      \* the next position that FileBlockSource reads
    batch,       \* the items that NetworkBlockSource holds
    fileNamed,   \* NetworkBlockSource::lastFileName is not empty
    walkNum,     \* the number findCommonAncestor or makeWorkers stands at
    loadedFile,  \* the content that main read before rewriting the file
    queue,       \* the blocks pushed to the main worker
    working,     \* the block it popped
    initBlock,   \* WorkerMain::lastSavedBlock, read when it was made
    \* around the process
    tip,         \* the last block of the servers
    crashes, reorgs, faults, alarms

diskVars == <<headers, metadata, timelineDb, confirmed>>
sourceVars == <<gba, cursor, batch, fileNamed>>
workerVars == <<queue, working, initBlock, mainBlock>>
envVars == <<tip, crashes, reorgs, faults, alarms>>
vars == <<bcVars, file, diskVars, pc, item, itemPos, position, timeline,
          sourceVars, walkNum, loadedFile, workerVars, envVars>>

-----------------------------------------------------------------------------
Item == Hash \cup Sign

Running == {"replay", "idle", "save", "add", "push", "store", "confirm",
            "ancestor"}
Recovering == {"truncate", "dropDb", "rewrite", "append"}

\* What the queue of the worker holds: a block and the number given to it.
Entry(n, h) == [number |-> n, hash |-> h]
NoEntry == Entry(0, NoHash)

RangeOf(s) == {s[i] : i \in DOMAIN s}

\* The chain of the servers, by number.
LastNumber == IF tip = Genesis THEN 0 ELSE height[tip]
ServerHas(n) == n \in 1..LastNumber
ServerBlock(n) == Ancestor[LastNumber - n][tip]

-----------------------------------------------------------------------------
(* The start of the process. *)

\* The memory of a process that is not running.
NoProcess ==
    /\ item' = NoHash
    /\ itemPos' = 0
    /\ position' = [h \in {} |-> 0]
    /\ timeline' = <<>>
    /\ gba' = "file"
    /\ cursor' = 1
    /\ batch' = <<>>
    /\ fileNamed' = FALSE
    /\ walkNum' = 0
    /\ loadedFile' = <<>>
    /\ queue' = <<>>
    /\ working' = NoEntry
    /\ initBlock' = 0

Exit ==
    /\ pc' = "off"
    /\ LoadEmpty
    /\ NoProcess

\* calcBlockchain on the headers of the database.
LoadDb ==
    IF metadata = NoHash THEN LoadEmpty ELSE Load(DOMAIN headers, metadata)

LoadDbFails ==
    /\ metadata # NoHash
    /\ \A p \in Paths :
        IsWalk(HeaderMap(DOMAIN headers), metadata, p) =>
            ~WalkFits(HeaderMap(DOMAIN headers), <<Genesis>>, p)

\* BlocksTimeline::deserialize checks "Incorrect sequence".
TimelineSequence ==
    DOMAIN timelineDb = 0..(Cardinality(DOMAIN timelineDb) - 1)

\* Mutant: the block after the last saved one is not replayed.
ReplayFrom_Late == mainBlock.number + 2

\* fromBlockNumber of makeWorkers.
ReplayFrom == mainBlock.number + 1

\* SyncImpl::initialize, and the construction of the main worker, which reads
\* the last block it saved; makeWorkers replays the blocks from there on.
Start ==
    /\ pc = "off"
    /\ LoadDb
    /\ TimelineSequence
    /\ timeline' = [i \in 1..Cardinality(DOMAIN timelineDb) |-> timelineDb[i - 1]]
    /\ position' = headers
    /\ cursor' = confirmed
    /\ initBlock' = mainBlock.number
    /\ walkNum' = ReplayFrom
    /\ pc' = "replay"
    /\ UNCHANGED <<file, diskVars, item, itemPos, gba, batch, fileNamed,
                   loadedFile, queue, working, mainBlock, envVars>>

\* initialize throws: synchronize returns, and the process only answers
\* requests from then on.
StartFails ==
    /\ pc = "off"
    /\ LoadDbFails \/ ~TimelineSequence
    /\ pc' = "failed"
    /\ UNCHANGED <<bcVars, file, diskVars, item, itemPos, position, timeline,
                   sourceVars, walkNum, loadedFile, workerVars, envVars>>

\* WorkerMain::process: a push waits for room in the queue of capacity one.
PushToWorker(n, h) ==
    IF n > initBlock
    THEN queue = <<>> /\ queue' = <<Entry(n, h)>>
    ELSE queue' = queue

\* The dump that FileBlockSource::getExistingBlockS finds at a position is a
\* simple block; it is not compared with the header.
BlockAt(i) == i \in 1..Len(file) /\ file[i] \in Hash

\* makeWorkers hands the worker the blocks after the last one it saved, read
\* at the position in the header or, failing that, by number from the server.
ReplayBlock ==
    /\ pc = "replay"
    /\ walkNum <= countBlocks
    /\ LET pos == position[getBlock(walkNum)]
       IN  \/ BlockAt(pos) /\ PushToWorker(walkNum, file[pos])
           \/ /\ ~BlockAt(pos)
              /\ ServerHas(walkNum)
              /\ PushToWorker(walkNum, ServerBlock(walkNum))
    /\ walkNum' = walkNum + 1
    /\ UNCHANGED <<bcVars, file, diskVars, pc, item, itemPos, position,
                   timeline, sourceVars, loadedFile, working, initBlock,
                   mainBlock, envVars>>

\* Neither the file nor the server has the block: makeWorkers throws.
ReplayFails ==
    /\ pc = "replay"
    /\ walkNum <= countBlocks
    /\ ~BlockAt(position[getBlock(walkNum)])
    /\ ~ServerHas(walkNum)
    /\ pc' = "failed"
    /\ UNCHANGED <<bcVars, file, diskVars, item, itemPos, position, timeline,
                   sourceVars, walkNum, loadedFile, workerVars, envVars>>

\* SyncImpl::process begins with selectGba: an empty chain is first filled
\* from the files that are there.
ReplayDone ==
    /\ pc = "replay"
    /\ walkNum > countBlocks
    /\ pc' = "idle"
    /\ gba' = IF countBlocks = 0 THEN "file" ELSE "network"
    /\ walkNum' = 0
    /\ UNCHANGED <<bcVars, file, diskVars, item, itemPos, position, timeline,
                   cursor, batch, fileNamed, loadedFile, workerVars, envVars>>

-----------------------------------------------------------------------------
(* SyncImpl::process: one block or sign block at a time. *)

\* The end of a round: done, or by an exception that process logs before it
\* begins the next round.  doProcess forgets what the source had fetched.
NextRound ==
    /\ pc' = "idle"
    /\ item' = NoHash
    /\ itemPos' = 0

Retry ==
    /\ NextRound
    /\ batch' = <<>>
    /\ UNCHANGED <<gba, cursor, fileNamed>>

\* The sign block of a block, if the servers know one the timeline has not.
SignsAfter(h, known) ==
    LET signs == {s \in known : signParent[s] = h /\ s \notin RangeOf(timeline)}
    IN  IF signs = {} THEN <<>> ELSE <<CHOOSE s \in signs : TRUE>>

\* The first n of the blocks after the last one, each followed by its sign
\* block.
Items(n, known) ==
    LET items[i \in 0..n] ==
            IF i = 0
            THEN IF n = 0 THEN SignsAfter(getLastBlock, known) ELSE <<>>
            ELSE LET h == ServerBlock(countBlocks + i)
                 IN  items[i - 1] \o <<h>> \o SignsAfter(h, known)
    IN  items[n]

Least(m, n) == IF m <= n THEN m ELSE n

\* NetworkBlockSource::doProcess and the fetching part of process: the blocks
\* after the last one or, when there are none, the sign blocks of the last.
Fetch ==
    /\ pc = "idle" /\ gba = "network" /\ batch = <<>>
    /\ \E known \in SUBSET Sign :
        batch' = IF LastNumber < countBlocks THEN <<>>
                 ELSE Items(Least(BatchSize, LastNumber - countBlocks), known)
    /\ UNCHANGED <<bcVars, file, diskVars, pc, item, itemPos, position,
                   timeline, gba, cursor, fileNamed, walkNum, loadedFile,
                   workerVars, envVars>>

\* NetworkBlockSource::process hands out the next fetched item.
TakeFetched ==
    /\ pc = "idle" /\ gba = "network" /\ batch # <<>>
    /\ item' = Head(batch)
    /\ batch' = Tail(batch)
    /\ fileNamed' = (fileNamed \/ item' \in Hash)
    /\ pc' = "save"
    /\ UNCHANGED <<bcVars, file, diskVars, itemPos, position, timeline, gba,
                   cursor, walkNum, loadedFile, workerVars, envVars>>

\* FileBlockSource::process reads the next dump of the file.
TakeFromFile ==
    /\ pc = "idle" /\ gba = "file"
    /\ cursor <= Len(file) /\ file[cursor] # RawDump
    /\ item' = file[cursor]
    /\ itemPos' = cursor
    /\ cursor' = cursor + 1
    /\ pc' = "add"
    /\ UNCHANGED <<bcVars, file, diskVars, position, timeline, gba, batch,
                   fileNamed, walkNum, loadedFile, workerVars, envVars>>

\* A dump that cannot be read ends the file, but getNextFile returns the same
\* file again for as long as the position is before its end.
FileSpins ==
    /\ pc = "idle" /\ gba = "file"
    /\ cursor <= Len(file) /\ file[cursor] = RawDump
    /\ UNCHANGED vars

\* Mutant: process breaks out of the inner loop without a change of the source.
FileDone_KeepsSource ==
    /\ pc = "idle" /\ gba = "file"
    /\ cursor > Len(file)
    /\ UNCHANGED vars

\* All files are read: the network is the source from now on.
FileDone ==
    /\ pc = "idle" /\ gba = "file"
    /\ cursor > Len(file)
    /\ gba' = "network"
    /\ UNCHANGED <<bcVars, file, diskVars, pc, item, itemPos, position,
                   timeline, cursor, batch, fileNamed, walkNum, loadedFile,
                   workerVars, envVars>>

\* Mutant: the position is taken for the record before the new one.
SavedPosition_Before == Len(file)

\* saveBlockToFileBinary returns the offset at which it appends the dump.
SavedPosition == Len(file) + 1

\* saveTransactions and saveTransactionsSignBlock append the dump to the file.
Save ==
    /\ pc = "save"
    /\ fileNamed \/ item \in Hash
    /\ file' = Append(file, item)
    /\ itemPos' = SavedPosition
    /\ pc' = "add"
    /\ UNCHANGED <<bcVars, diskVars, item, position, timeline, sourceVars,
                   walkNum, loadedFile, workerVars, envVars>>

\* A sign block of the last block, fetched before any block was, has no file
\* to go to: "File name not set".
SaveFails ==
    /\ pc = "save"
    /\ ~fileNamed /\ item \in Sign
    /\ Retry
    /\ UNCHANGED <<bcVars, file, diskVars, position, timeline, walkNum,
                   loadedFile, workerVars, envVars>>

\* addBlock numbers the block, and the timeline takes it.
AddToChain ==
    /\ pc = "add" /\ item \in Hash
    /\ AddAccepted(item)
    /\ position' = [h \in DOMAIN position \cup {item} |->
                        IF h = item THEN itemPos ELSE position[h]]
    /\ IF item \in RangeOf(timeline)
       THEN Retry /\ UNCHANGED timeline
       ELSE /\ timeline' = Append(timeline, item)
            /\ pc' = "push"
            /\ UNCHANGED <<item, itemPos, sourceVars>>
    /\ UNCHANGED <<file, diskVars, walkNum, loadedFile, workerVars, envVars>>

\* addBlock throws "already exist".
AddKnown ==
    /\ pc = "add" /\ item \in Hash
    /\ AddExisting(item)
    /\ Retry
    /\ UNCHANGED <<file, diskVars, position, timeline, walkNum, loadedFile,
                   workerVars, envVars>>

\* addBlock refuses the block: findCommonAncestor begins at our last block.
AddFork ==
    /\ pc = "add" /\ item \in Hash
    /\ AddRefused(item)
    /\ walkNum' = countBlocks
    /\ pc' = "ancestor"
    /\ UNCHANGED <<file, diskVars, item, itemPos, position, timeline,
                   sourceVars, loadedFile, workerVars, envVars>>

\* timeline.addSignBlock, which throws when the timeline has the sign block.
AddSign ==
    /\ pc = "add" /\ item \in Sign
    /\ IF item \in RangeOf(timeline)
       THEN Retry /\ UNCHANGED timeline
       ELSE /\ timeline' = Append(timeline, item)
            /\ pc' = "store"
            /\ UNCHANGED <<item, itemPos, sourceVars>>
    /\ UNCHANGED <<bcVars, file, diskVars, position, walkNum, loadedFile,
                   workerVars, envVars>>

\* Mutant: the block is numbered after the one that will follow it.
NumberInChain_Next == countBlocks + 1

\* The number that addBlock returned for the block at hand.
NumberInChain == countBlocks

\* The worker gets the block before the database does.
Push ==
    /\ pc = "push"
    /\ PushToWorker(NumberInChain, item)
    /\ pc' = "store"
    /\ UNCHANGED <<bcVars, file, diskVars, item, itemPos, position, timeline,
                   sourceVars, walkNum, loadedFile, working, initBlock,
                   mainBlock, envVars>>

\* Mutant: the smaller hash is kept whatever the parents are.
NewMetadata_AnyParent(h) ==
    IF metadata # NoHash /\ hashRank[metadata] < hashRank[h] THEN metadata ELSE h

\* Of two blocks with one parent the metadata keeps the smaller hash.
NewMetadata(h) ==
    IF /\ metadata # NoHash
       /\ prevHash[metadata] = prevHash[h]
       /\ hashRank[metadata] < hashRank[h]
    THEN metadata
    ELSE h

\* Mutants: the key is the number of blocks, or of the elements saved so far.
TimelineKey_ByNumber == countBlocks - 1
TimelineKey_FromDb == Cardinality(DOMAIN timelineDb)

\* The key that BlocksTimeline returned for the element it took last.
TimelineKey == Len(timeline) - 1

\* saveBlockToLeveldb and saveSignBlockToLeveldb, one batch each.
Store ==
    /\ pc = "store"
    /\ timelineDb' = [k \in DOMAIN timelineDb \cup {TimelineKey} |->
                        IF k = TimelineKey THEN item ELSE timelineDb[k]]
    /\ IF item \in Hash
       THEN /\ headers' = [h \in DOMAIN headers \cup {item} |->
                            IF h = item THEN itemPos ELSE headers[h]]
            /\ metadata' = NewMetadata(item)
       ELSE UNCHANGED <<headers, metadata>>
    /\ pc' = "confirm"
    /\ UNCHANGED <<bcVars, file, confirmed, item, itemPos, position, timeline,
                   sourceVars, walkNum, loadedFile, workerVars, envVars>>

\* leveldb refuses the batch; addBatch throws after the chain, the timeline
\* and the worker have taken the block.
StoreFails ==
    /\ pc = "store"
    /\ faults < MaxFaults
    /\ faults' = faults + 1
    /\ Retry
    /\ UNCHANGED <<bcVars, file, diskVars, position, timeline, walkNum,
                   loadedFile, workerVars, tip, crashes, reorgs, alarms>>

\* confirmBlock: FileBlockSource saves how far it read, the network nothing.
Confirm ==
    /\ pc = "confirm"
    /\ confirmed' = IF gba = "file" THEN cursor ELSE confirmed
    /\ NextRound
    /\ UNCHANGED <<bcVars, file, headers, metadata, timelineDb, position,
                   timeline, sourceVars, walkNum, loadedFile, workerVars,
                   envVars>>

-----------------------------------------------------------------------------
(* findCommonAncestor, and what main does with the fork it found. *)

\* The server has no block of this number: an exception ends the search.
AncestorFails ==
    /\ pc = "ancestor"
    /\ ~ServerHas(walkNum)
    /\ Retry
    /\ walkNum' = 0
    /\ UNCHANGED <<bcVars, file, diskVars, position, timeline, loadedFile,
                   workerVars, envVars>>

\* The server has our block: the loop continues with the same number.
AncestorSpins ==
    /\ pc = "ancestor"
    /\ ServerHas(walkNum) /\ ServerBlock(walkNum) \in DOMAIN blocks
    /\ UNCHANGED vars

ServerForks ==
    /\ pc = "ancestor"
    /\ ServerHas(walkNum) /\ ServerBlock(walkNum) \notin DOMAIN blocks

AncestorDown ==
    /\ ServerForks
    /\ prevHash[ServerBlock(walkNum)] \notin DOMAIN blocks
    /\ walkNum' = walkNum - 1
    /\ UNCHANGED <<bcVars, file, diskVars, pc, item, itemPos, position,
                   timeline, sourceVars, loadedFile, workerVars, envVars>>

\* The fork begins here.  Most of the servers that answer have our block, or
\* as many as have the other one: "False alarm".
FalseAlarm ==
    /\ ServerForks
    /\ prevHash[ServerBlock(walkNum)] \in DOMAIN blocks
    /\ alarms < MaxAlarms
    /\ alarms' = alarms + 1
    /\ Retry
    /\ walkNum' = 0
    /\ UNCHANGED <<bcVars, file, diskVars, position, timeline, loadedFile,
                   workerVars, tip, crashes, reorgs, faults>>

\* More servers have the other block: process returns the conflict.
Conflict ==
    /\ ServerForks
    /\ prevHash[ServerBlock(walkNum)] \in DOMAIN blocks
    /\ pc' = "truncate"
    /\ UNCHANGED <<bcVars, file, diskVars, item, itemPos, position, timeline,
                   sourceVars, walkNum, loadedFile, workerVars, envVars>>

\* removeFiles cuts the files at our block; a shorter file grows by zeros.
Truncate ==
    /\ pc = "truncate"
    /\ LET pos == position[getBlock(walkNum)]
       IN  file' = IF pos <= Len(file) THEN SubSeq(file, 1, pos - 1)
                   ELSE IF pos = Len(file) + 1 THEN file
                   ELSE Append(file, RawDump)
    /\ pc' = "dropDb"
    /\ UNCHANGED <<bcVars, diskVars, item, itemPos, position, timeline,
                   sourceVars, walkNum, loadedFile, workerVars, envVars>>

\* removeFiles removes the directory of the databases, all workers' included.
DropDb ==
    /\ pc = "dropDb"
    /\ headers' = [h \in {} |-> 0]
    /\ metadata' = NoHash
    /\ timelineDb' = [k \in {} |-> NoHash]
    /\ mainBlock' = NoEntry
    /\ confirmed' = 1
    /\ pc' = "rewrite"
    /\ UNCHANGED <<bcVars, file, item, itemPos, position, timeline, sourceVars,
                   walkNum, loadedFile, queue, working, initBlock, envVars>>

\* main reads the file and opens it for writing, which empties it.
Rewrite ==
    /\ pc = "rewrite"
    /\ loadedFile' = file
    /\ file' = <<>>
    /\ pc' = "append"
    /\ UNCHANGED <<bcVars, diskVars, item, itemPos, position, timeline,
                   sourceVars, walkNum, workerVars, envVars>>

\* It writes what it read and the server's block, without the size that
\* saveBlockToFileBinary puts before a dump, and stops the program.
AppendServerBlock ==
    /\ pc = "append"
    /\ file' = Append(loadedFile, RawDump)
    /\ Exit
    /\ UNCHANGED <<diskVars, mainBlock, envVars>>

-----------------------------------------------------------------------------
(* The thread of the main worker: WorkerMain::worker. *)

Pop ==
    /\ working = NoEntry /\ queue # <<>>
    /\ working' = Head(queue)
    /\ queue' = Tail(queue)
    /\ UNCHANGED <<bcVars, file, diskVars, pc, item, itemPos, position,
                   timeline, sourceVars, walkNum, loadedFile, initBlock,
                   mainBlock, envVars>>

\* The check "Incorrect prev hash".
PrevHashFits ==
    mainBlock.hash = NoHash \/ mainBlock.hash = prevHash[working.hash]

WorkDone ==
    /\ working' = NoEntry
    /\ UNCHANGED <<bcVars, file, diskVars, pc, item, itemPos, position,
                   timeline, sourceVars, walkNum, loadedFile, queue, initBlock,
                   tip, crashes, reorgs, alarms>>

\* One batch holds all that the block changes and the mark that it is saved.
\* What is written after the directory was removed is lost.
WorkSaved ==
    /\ working # NoEntry
    /\ working.number > mainBlock.number /\ PrevHashFits
    /\ mainBlock' = IF pc \in {"rewrite", "append"} THEN mainBlock ELSE working
    /\ UNCHANGED faults
    /\ WorkDone

\* A block that is saved already is skipped.  When the check fails, the worker
\* logs it and takes the next block.
WorkDropped ==
    /\ working # NoEntry
    /\ ~(working.number > mainBlock.number /\ PrevHashFits)
    /\ UNCHANGED <<mainBlock, faults>>
    /\ WorkDone

\* Any other exception has the same effect.
WorkFails ==
    /\ working # NoEntry
    /\ working.number > mainBlock.number /\ PrevHashFits
    /\ faults < MaxFaults
    /\ faults' = faults + 1
    /\ UNCHANGED mainBlock
    /\ WorkDone

-----------------------------------------------------------------------------
(* Around the process. *)

\* The servers get a new block.
ServerExtends ==
    /\ tip' \in {h \in Hash : prevHash[h] = tip}
    /\ UNCHANGED <<bcVars, file, diskVars, pc, item, itemPos, position,
                   timeline, sourceVars, walkNum, loadedFile, workerVars,
                   crashes, reorgs, faults, alarms>>

\* The server that answers has another chain.
ServerReorgs ==
    /\ reorgs < MaxReorgs
    /\ reorgs' = reorgs + 1
    /\ tip' \in {h \in Hash \ {tip} : prevHash[h] # tip}
    /\ UNCHANGED <<bcVars, file, diskVars, pc, item, itemPos, position,
                   timeline, sourceVars, walkNum, loadedFile, workerVars,
                   crashes, faults, alarms>>

\* The process is killed.
Crash ==
    /\ pc \in CrashPoints
    /\ crashes < MaxCrashes
    /\ crashes' = crashes + 1
    /\ Exit
    /\ UNCHANGED <<file, diskVars, mainBlock, tip, reorgs, faults, alarms>>

\* A process whose synchronisation ended stays up.
OnlyServe ==
    /\ pc = "failed"
    /\ UNCHANGED vars

-----------------------------------------------------------------------------
SyncInit ==
    /\ Fresh
    /\ file = <<>>
    /\ headers = [h \in {} |-> 0]
    /\ metadata = NoHash
    /\ timelineDb = [k \in {} |-> NoHash]
    /\ mainBlock = NoEntry
    /\ confirmed = 1
    /\ pc = "off"
    /\ item = NoHash
    /\ itemPos = 0
    /\ position = [h \in {} |-> 0]
    /\ timeline = <<>>
    /\ gba = "file" /\ cursor = 1 /\ batch = <<>> /\ fileNamed = FALSE
    /\ walkNum = 0
    /\ loadedFile = <<>>
    /\ queue = <<>> /\ working = NoEntry /\ initBlock = 0
    /\ tip = Genesis
    /\ crashes = 0 /\ reorgs = 0 /\ faults = 0 /\ alarms = 0

StartSteps == Start \/ StartFails \/ ReplayBlock \/ ReplayFails \/ ReplayDone

BlockSteps ==
    \/ Fetch \/ TakeFetched \/ TakeFromFile \/ FileSpins \/ FileDone
    \/ Save \/ SaveFails
    \/ AddToChain \/ AddKnown \/ AddFork \/ AddSign
    \/ Push \/ Store \/ Confirm

ForkSteps ==
    \/ AncestorFails \/ AncestorSpins \/ AncestorDown \/ FalseAlarm \/ Conflict
    \/ Truncate \/ DropDb \/ Rewrite \/ AppendServerBlock

SyncThread == StartSteps \/ BlockSteps \/ ForkSteps \/ OnlyServe

WorkerThread == Pop \/ WorkSaved \/ WorkDropped

Environment ==
    ServerExtends \/ ServerReorgs \/ Crash \/ StoreFails \/ WorkFails

SyncNext == SyncThread \/ WorkerThread \/ Environment

SyncSpec == SyncInit /\ [][SyncNext]_vars

\* Each thread that can take a step takes one: the operating system schedules
\* both, the node is started again when it stops, and the servers answer.
FairSyncSpec ==
    /\ SyncSpec
    /\ WF_vars(SyncThread)
    /\ WF_vars(WorkerThread)

-----------------------------------------------------------------------------
FileRecord == Item \cup {RawDump}

IsMap(f, D, R) == DOMAIN f \subseteq D /\ \A x \in DOMAIN f : f[x] \in R

DiskTypeOK ==
    /\ file \in Seq(FileRecord)
    /\ IsMap(headers, Hash, Nat)
    /\ metadata \in Hash \cup {NoHash}
    /\ IsMap(timelineDb, Nat, Item)
    /\ confirmed \in Nat \ {0}

ThreadTypeOK ==
    /\ pc \in Running \cup Recovering \cup {"off", "failed"}
    /\ item \in Item \cup {NoHash}
    /\ itemPos \in Nat
    /\ IsMap(position, Hash, Nat)
    /\ timeline \in Seq(Item)
    /\ gba \in {"file", "network"}
    /\ cursor \in Nat \ {0}
    /\ batch \in Seq(Item)
    /\ fileNamed \in BOOLEAN
    /\ walkNum \in Nat
    /\ loadedFile \in Seq(FileRecord)
    /\ tip \in Block

Entries == [number : Nat, hash : Hash \cup {NoHash}]

WorkerTypeOK ==
    /\ mainBlock \in Entries
    /\ working \in Entries
    /\ queue \in Seq(Entries) /\ Len(queue) <= 1
    /\ initBlock \in Nat

\* The state on disk, in the two threads and around the process has its type;
\* the queue of the worker holds one block at most.
SyncTypeOK ==
    /\ BcTypeOK
    /\ DiskTypeOK
    /\ ThreadTypeOK
    /\ WorkerTypeOK

\* The blocks of the saved timeline, in the order of their keys.
BlockKeys == {k \in DOMAIN timelineDb : timelineDb[k] \in Hash}
SavedBlocks == Listed(timelineDb, BlockKeys)

\* Whatever the moment of a crash, the database can be loaded, and the chain
\* numbered from the headers is the one that the timeline recorded.
DbRecoverable ==
    /\ TimelineSequence
    /\ metadata = NoHash => DOMAIN headers = {}
    /\ metadata # NoHash =>
        \E p \in Paths :
            /\ IsWalk(HeaderMap(DOMAIN headers), metadata, p)
            /\ WalkFits(HeaderMap(DOMAIN headers), <<Genesis>>, p)
            /\ SavedBlocks = [i \in 1..Len(p) |-> p[Len(p) - i + 1]]
            /\ RangeOf(p) = DOMAIN headers

Durable == INSTANCE DurableChain WITH chain <- SavedBlocks

\* The saved chain grows by children of its last block, and is only ever lost
\* as a whole, when removeFiles removes the databases: no crash and no fork
\* replaces a saved block or takes back the last ones.
SavesDurableChain == Durable!DcSpec

\* The first block in the files is one of those that follow the genesis block.
FilesBeginAtRoot ==
    file # <<>> /\ file[1] \in Hash => prevHash[file[1]] = Genesis

\* Even when writes to the database fail, a process that got through
\* initialize works on a chain that leads to the genesis block: a database
\* with a hole in it is refused, not renumbered.  Files whose first block has
\* another parent are excepted: they come from a crash after removeFiles cut
\* the files and before it removed the databases, because the next process
\* knows blocks that the files have lost and saves their successors.
LoadedChainIntact ==
    pc \in Running /\ FilesBeginAtRoot => NumbersAgree /\ OrphansNotNumbered

\* The module "block" saves the offset of each block in the block files: the
\* dump of the block is found there, so that it can be served and replayed.
HeadersInFile ==
    pc # "dropDb" =>
        \A h \in DOMAIN headers : BlockAt(headers[h]) /\ file[headers[h]] = h

\* The balances the worker has saved are those of a block of the chain.
WorkerOnChain ==
    pc \in Running /\ mainBlock.number \in 1..countBlocks =>
        getBlock(mainBlock.number) = mainBlock.hash

\* The worker applies the blocks one after the other, without a gap, until
\* the databases are removed.
WorkerContiguous ==
    [][mainBlock'.number \in {0, mainBlock.number, mainBlock.number + 1}]_vars

\* Every block of the servers is eventually stored and worked on.
CatchesUp ==
    <>[](tip # Genesis => metadata = tip /\ mainBlock.hash = tip)
=============================================================================
