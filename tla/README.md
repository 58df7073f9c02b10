# A TLA+ model of the torrent node

The repository is a torrent node of the #MetaHash network: a C++ daemon that
downloads the blocks of the network from servers (or reads them from files),
keeps them in block files, indexes them in leveldb and answers requests about
blocks, transactions, balances, rejected transactions and the tests of other
nodes. The modules in this directory model the part of it that must stay correct
over crashes, forks, failed writes, failed requests and threads that run at
different speeds.

Paths below are relative to the repository; the node's own code is in `src/`.
`3rdParty/` is vendored and `common_utils/` is a submodule that is not part of
the repository: its `BlockedQueue`, `parallelFor`, `Thread`, `CHECK` and
`stopProgram` are modelled from the way the code uses them.

## The system

| component | state | operations | interacts with |
|---|---|---|---|
| `BlockChain` | map hash -> header, list of numbered headers, number of the last state block | `addBlock`, `addWithoutCalc` + `calcBlockchain`, `clear`, getters | written by `SyncImpl`, read by workers and the server under a shared mutex |
| `BlocksTimeline` | blocks and sign blocks in the order they arrived | `addSimpleBlock`, `addSignBlock`, `deserialize`, queries for signatures | written by `SyncImpl`, read by the network source |
| `SyncImpl` | the source in use, the database, the workers | `initialize`, `makeWorkers`, `process`, `findCommonAncestor` | drives all the others |
| `main` | block files, database directory | `removeFiles` and the rewrite of the file after a fork | acts on the result of `SyncImpl::synchronize`, then stops the process |
| `FileBlockSource` | read position per file, saved per block | `process`, `confirmBlock`, `getExistingBlock` | block files, leveldb |
| `NetworkBlockSource` | the batch of advanced blocks, the sign blocks to add after it, the last number of the servers | `doProcess`, `process`, `getExistingBlock` | `GetNewBlocksFromServer`, P2P |
| `GetNewBlocksFromServer` | headers and dumps loaded ahead | the requests for numbers, headers, dumps and pre-loads, and their caches | P2P, answered by the `Server` of other nodes out of their timeline |
| `WorkerMain` | queue of one block; per block a batch, balances, a cache of delegations; in leveldb balances, histories, delegations, tokens, forging sums, the last saved block | `process` (push), `worker` (thread), `validateStateBlock` | gets blocks from `SyncImpl`, reads `BlockChain`, fills and evicts the status cache |
| `WorkerScript` | queue of three blocks; states of contracts in a database of its own, statuses in the shared one | `process`, `worker` | a remote service that executes scripts; the status cache |
| `WorkerNodeTest` | results per node and day, trust, registrations, the present day, in a database of its own | `process`, `worker`, ratings and last results for the server | the server reads while the worker writes |
| `WorkerCache`, `Cache` | dumps and statuses by hash and by the number of their block | add, get, remove by number | `WorkerMain`, `WorkerScript`, the server |
| `RejectedTxsWorker` | the known rejected blocks, a history per transaction | a loop once a second; `findTx`, `getDumps` for the server | one of the two sources of rejected blocks |
| `FileRejectedBlockSource`, `NetworkRejectedBlockSource` | a bounded list of rejected blocks | `addBlock`, `calcLastBlocks`, `getBlocks`, `getDumps` | the synchronising thread fills the one, requests to other nodes the other |
| P2P (`QueueP2P`, `P2PThread`, `P2P_Impl`, `P2P_Ips`, `P2P_Graph`) | list of segments with the servers that took or failed them, number of the task; per thread its task and server | `request`, `requests`, `broadcast`, `runOneRequest` | used by both network sources; calls functions of the caller from its threads |
| `LevelDb`, `Batch` | the databases | atomic batches, reads | all workers |
| `Server`, `generate_json*` | none | answers requests | reads everything |

What is hard in it:

* **Crash recovery.** One block goes to the file, the chain in memory, the queue
  of the worker, the database and (for the file source) the read position, in
  this order and with no transaction over them. The headers in the database have
  no numbers: a restart recovers them by walking from one hash. Each worker has
  its own last saved block and gets the blocks after it again.
* **Several writers.** `WorkerMain` saves a block in its own thread, before or
  after the synchronising thread saves the header. `WorkerMain` and
  `WorkerScript` write statuses to one cache and one database.
* **Forks.** A block that does not extend the last one starts a search for the
  common ancestor over a server that may change its mind, a vote, a cut of the
  file, the removal of all databases, a rewrite of the file and a restart that
  indexes the file from its beginning.
* **Failures in the middle.** `process` logs an exception and goes on; a failed
  request leaves an exception in the place of one block of a batch; a failed
  batch of a worker drops a block.
* **Pairing by place.** Dumps, hashes, headers and sign blocks come in different
  answers, from different nodes that are not equally far, and are put together
  by their place in them.
* **Late threads.** The threads of the P2P part outlive the request they work
  for, share its elements by weak references and call functions that refer to
  local variables of the caller.
* **Limits and widths.** Sums of money in `size_t` that restart before they
  overflow, counters that count down in keys, lists that drop their oldest
  elements at three different lengths, a cache whose entries are removed by block
  number while another thread is still behind.

## Modules

| module | what it is |
|---|---|
| `BlockChain` | the class `BlockChain`, and the load of a chain from saved headers |
| `DurableChain` | abstract specification: what a node promises about its saved chain |
| `Sync` | `SyncImpl`, `main`'s recovery, both block sources, the main worker, crashes; extends `BlockChain`, implements `DurableChain` |
| `Replica` | abstract specification: what copying the timeline of the network promises |
| `NetworkSource` | `NetworkBlockSource` and `GetNewBlocksFromServer` in detail, with the answers of other nodes; implements `Replica` |
| `P2PQueue` | a request to the servers: `P2P_Impl::process`, `QueueP2P`, the threads `P2PThread`, cut by `P2P_Ips` or `P2P_Graph` |
| `Accounts` | abstract specification: a ledger without batches, keys and counters |
| `Ledger` | what `WorkerMain` does with the transactions of a block; implements `Accounts` |
| `Rejected` | `RejectedTxsWorker` and the two sources of rejected blocks |
| `NodeTests` | `WorkerNodeTest` and two of its queries |
| `TxStatus` | statuses: `WorkerMain`, `WorkerScript`, the cache between them and the thread that feeds them |
| `MC...` | for each of the above, the constants of its runs |
| `Ranks` | the values of a map in the order of its keys, for `Sync` and `NodeTests` |
| `Lemmas` | facts about natural numbers, ranks, sequences and functions that the proofs share |
| `Sync_proofs`, `P2PQueue_proofs`, `NetworkSource_proofs`, `TxStatus_proofs`, `Rejected_proofs`, `NodeTests_proofs`, `Ledger_proofs` | the theorems about those modules; the first part of `Sync_proofs` is about `BlockChain`, the last about what holds when no write fails |

`Sync` is the composition of chain, sources, files and worker; the modules
besides it refine one of its parts. `NetworkSource` is what `Sync` does in
`Fetch`/`TakeFetched`; `P2PQueue` is one request of `NetworkSource` or
`Rejected`; `Ledger` is what `Sync` does in `WorkSaved`. Forks are only in
`Sync` and `BlockChain`: the others have one chain, and a hash stands for its
number.

### BlockChain

`blocks`, `hashes` and `lastStateBlock` are the fields of the class. `prevHash`
is a constant: a block names its parent. `height` stands for the fact that a
block contains the hash of its parent, so that parents never form a cycle.

`calcBlockchain` is split by idea: `IsWalk` is the loop that collects
`processedBlocks`, `BaseNumber`/`WalkNumber` the numbers given on the way back,
`WalkFits` the comparison with `hashes.size()`. The comparison is made for every
walked block, but as the numbers increase by one like the list, only the oldest
one can fail it. `CalcAccepts` and `CalcRefuses` are the two results. The
refusal keeps what the code leaves behind: the oldest block's number, the loop
counters of the others, and a raised `lastStateBlock`. `AddAccepted`,
`AddRefused` and `AddExisting` are the outcomes of `addBlock`; `Load` is
`clear`, `addWithoutCalc` for a set of headers and one `calcBlockchain`.

An unknown parent makes the loop stop *on* the oldest walked block, which has
just been given the loop counter. The branch for "no number" is therefore dead,
and `BaseNumber` is `Len(p) - 1` in that case.

### Sync

State on disk: `file` (the records of the block files, one sequence), `headers`
(hash to position), `metadata`, `timelineDb`, `mainBlock` (the worker's last
saved block) and `confirmed` (the read position of the file source). Everything
else is memory and is lost by `Crash` and by `Exit`.

`pc` is the place of the synchronising thread. A step ends at each write to the
file or to the database and at each push to the worker; what lies between is
seen by no other thread and cannot be separated by a crash. The worker has its
own steps (`Pop`, `WorkSaved`, `WorkDropped`, `WorkFails`).

| actions | code |
|---|---|
| `Start`, `StartFails`, `ReplayBlock`, `ReplayFails`, `ReplayDone` | `SyncImpl::initialize`, `makeWorkers`, `selectGba` |
| `Fetch`, `TakeFetched` | `NetworkBlockSource::doProcess`, `process` |
| `TakeFromFile`, `FileSpins`, `FileDone`, `Confirm` | `FileBlockSource::process`, `getNextFile`, `confirmBlock` |
| `Save`, `SaveFails` | `saveTransactions`, `saveTransactionsSignBlock` |
| `AddToChain`, `AddKnown`, `AddFork`, `AddSign` | `addBlock` and the timeline |
| `Push`, `Store`, `StoreFails` | `worker->process`, `saveBlockToLeveldb`, `saveSignBlockToLeveldb` |
| `AncestorFails`, `AncestorSpins`, `AncestorDown`, `FalseAlarm`, `Conflict` | `findCommonAncestor` |
| `Truncate`, `DropDb`, `Rewrite`, `AppendServerBlock` | `removeFiles` and the end of `main` |
| `ServerExtends`, `ServerReorgs`, `Crash` | the environment |

Abstractions: a record of the file is the block it holds, or `RawDump` for bytes
that are not framed by a size; positions are indices; the block files are one
sequence; a batch is fetched in one step from the chain the servers have then
(the code asks block by block, and a fork in between shows up as a block that
does not fit, which the model reaches with a batch of one); the vote is a choice; the contents of blocks are left out,
so the work on a block either succeeds, is refused by the check of the previous
hash, or fails. The configuration is the one of `pre_compiled/config.conf`
(`get_blocks_from_file = false`, modules `block` and `block_raw`). A crash kills
the process, not the machine: completed writes stay.

### P2PQueue

A caller's step is one call of `process` (`Process` is the cut into segments and
`start`; then `NewTask`, `AddElement`, `WaitEmpty`, `ReadError`, `Destroy`,
`Stop`); a thread's step is what `work` does under one mutex. `elements` are the
elements in memory: those in the list and those that a thread inside
`getSegment` (between `PeekLock` and `PeekDone`) holds a strong reference to.
`destroyed` stands for `isDestroyed` of the wrappers of all tasks so far; a
function of the caller runs between `MakeBegin` and `MakeEnd` or `RespondBegin`
and `RespondEnd`, and `Destroy` waits for it as the shared lock makes it wait.

`IsGraph` chooses between `P2P_Graph` (all threads talk to the server named in
the call) and `P2P_Ips` (each server has its threads). A response is the server
it came from and is not empty: only whether a segment was answered matters. The
waits (`conditionWait`, from `common_utils`) end when their predicate holds.
Left out: the stop of the program, which ends the threads and the waits, and the
release of the curl handle of a thread that idles.

### NetworkSource and Replica

`Replica` is a copy of a timeline that grows by the next block, once all sign
blocks before it are there, or by a sign block that belongs after its last block.

`NetworkSource` has the members of the two classes as variables. `View(s)` is
the part of the timeline a server has; `Header`, `getSignaturesBetween` and the
answers to a pre-load are computed from it as `Server.cpp` does.

| actions | code |
|---|---|
| `doProcess`, `doProcessPreLoad` | the round that asks all servers, `getLastBlock`, `preLoadBlocks` |
| `processBegins`, `fetchBlock`, `fetchHeaderFails`, `batchFetched`, `fetchAdditing`, `parseBlockInfo` | `NetworkBlockSource::process` until a batch is there: headers, dumps, sign blocks before and after, the checks of each dump |
| `processAdvanced` | the next block of the batch given to `SyncImpl`, which takes or refuses it |
| `Grow`, `Restart` | the environment |

A request is answered or fails as a whole; an answer with a dump may be wrong
(`Junk`). Both and only they count as faults. A dump is the hash it belongs to.
What `SyncImpl` does with a delivered block is `Accepts`.

### Ledger and Accounts

`db` is leveldb, `batch` what the worker has gathered for the block it is at:
the leveldb batch, the per-block balances, the cache of delegations and the
counter. Transactions are taken one by one (`NextTx`), so that a crash or a
failed write meets any state of the batch; `Save` is the one atomic write.
`ProcessMoney`, `ProcessToken` and `ProcessCommon` are the parts of the loop over
transactions, `Delegate`, `ToUndelegate`, `Undelegate` the delegations with the
order cache first, database after, keys with the counter counting down.
`ReceiveValue` and `SpentValue` keep the width of `size_t` (`Modulus`) and the
restart of both sums before one overflows. `StateMatches` is `validateStateBlock`.

| actions | code |
|---|---|
| `Process`, `Skip` | `WorkerMain::process`; the guards on the number and the previous hash |
| `Begin`, `NextTx`, `TxFails` | the loop over the transactions; an exception in it |
| `StateRefused` | `validateStateBlock` throws |
| `Save`, `SaveFails`, `Restart` | the write of the batch, a refused write, a killed process |

`Accounts` applies blocks as wholes and transactions one after the other to plain
amounts and stacks of delegations. Left out: the list of the last hundred
transactions, the counters of operations, `realFee`, addresses' statuses.

### Rejected

Rejected blocks are numbered in the order of their block and time; `Newest(S, k)`
are the `k` greatest, what the loops that erase from the front leave. `source` is
what a source keeps, `filled` the ones whose contents were read. `holders`,
`missing` and `found` are locals of the worker; a step ends where a lock is
released or a request is made, so `addBlock` of the synchronising thread comes
between any two (`getLastHolders`, `fillHoldersFails`, `replaceBlocks` of the
file source; `getLastRejectedBlocks`, `getRejectedBlocksDumps` of the network
source; `getBlocks`, `processBlocks` of both). `WorkerEnds` is an exception: the
`try` is around the loop, so the thread is over. It comes after a failed request, and
after an answer with fewer dumps than were asked for, an empty one included.

### NodeTests

`db` has the tables of the worker's database: results per node and day, nodes per
day, the last results, trust, registrations, the day and the last saved block.
`Work` is a block that is written, `WorkRefused` one that is saved already or does
not fit, `WorkFails` a refused batch. After a `Restart` the blocks may come from
any number up to the one after the saved block, as the headers of the last ones
may not have been saved. Keys of days are the unsigned negation of the day
(`SizeModulus`), so that the first key is the latest day, but for day 0;
`IntModulus` is the width in which averages are summed. The queries `Ask`,
`RatingRead`, `RatingAnswer` and `LastDay`, `LastAnswer` read one key per step,
while the worker writes. The tests of a node in a block are its places in the
block in their order (`TestsIn`, with `Listed` of `Ranks`), rather than a filter
of the sequence, so that they can be reasoned about.

### TxStatus

`main` and `script` are the two workers with their queues, the block each is at,
the transactions of it that are left (`todo`, a set that is taken in order) and
what it has not written; `feed` is the synchronising thread, which waits when
a queue is full. `cache` is the map of statuses with its keys under the number of
their block; `MainEvict` removes those of the block that is `Keep` behind the one
it has written, and `evicted` remembers the numbers that were removed by this
process. The script worker saves a status per transaction (`ScriptStatus`)
and the states of contracts at the end of the block (`ScriptSave`). The service
that executes scripts is external: it succeeds or fails as the chain says
(`ScriptExecute`), or cannot be reached (`ServerError`).

## Runs

| run | checks | instance |
|---|---|---|
| `blockchain` | `BcTypeOK`, `NumbersAgree`, `ChainLinked`, `LastStateBlockInRange`, `RestartSucceeds`, `NumbersStable` | 31 blocks of a binary tree, depth 5, offered in any order, restart from any prefix: every fork of depth up to 4 and every kind of unknown parent occurs |
| `sync_crash` | `DbRecoverable`, `HeadersInFile`, `SavesDurableChain` (refinement of `DurableChain`) | branches of 3 and 4 blocks, a sign block, 2 crashes anywhere but between the cut of the files and the removal of the databases, 1 fork, 1 false alarm |
| `sync_live` | `WorkerOnChain`, `WorkerContiguous`, `CatchesUp` | the same blocks, no fork, 2 crashes anywhere, with fairness |
| `sync_faults` | `LoadedChainIntact` | two chains that share no block, of 3 and 2 blocks, and a fork at the end of the first; 1 failed write or failed work, 1 crash anywhere, 2 forks |
| `p2p_ips` | `ResultIsTrue`, `CallbackInTask`, `EraseOnce`, `RequestReturns` | `P2P_Ips`, 2 servers with a thread each, 3 requests of 1, 2 or 3 segments, with fairness |
| `p2p_graph` | `SegmentsCover`, `ServerAskedOnce` | `P2P_Graph`, 2 connections, 2 requests with sizes around the multiples of the minimal segment |
| `network` | `NothingRefused`, `HonestDumpsPass`, `ImplementsReplica`, `KeepsUp` | 2 servers, 5 timelines of up to 4 blocks and 3 sign blocks, with and without pre-load and verification, batches of 2 blocks, 1 failed or wrong answer, 1 restart, with fairness |
| `ledger` | `DelegationsBacked`, `MoneyConserved`, `TokenSupply`, `HistoryComplete`, `HonestStateAccepted`, `ImplementsAccounts` | chains of 3 blocks with 4 delegations or undelegations, of 5 blocks with transfers of every status and forging, of 3 blocks with 4 token operations; amounts modulo 8, 1 failed write, 1 restart |
| `rejected` | `CountedOnce`, `NamedHaveDumps`, `RejectedIsFound` | 5 rejected blocks, 2 other nodes, both sources, limits of 2, 3 and 4 blocks and a history of 2, 2 failures, with fairness |
| `node_tests` | `TablesComplete`, `RatingOfOneDay`, `LastResultOfToday`, `GroupsAsInLoop` | chains of 4 blocks, 2 nodes, a query at any time, 1 refused batch, 1 restart |
| `tx_status` | `AttributesRecent`, `StatusMatchesState`, `StatusKept`, `AllWritten` | 4 chains of 6 blocks about one contract, queues of 1 and 1, `Keep` = 3, 1 failure, 1 restart, with fairness |
| `rejected_dumps` | `DumpsComplete`, expected to fail | as `rejected`, network source, no failures |

Each property is stated in words above its definition. `SyncTypeOK`, `P2PTypeOK`,
`LdTypeOK`, `NsTypeOK`, `RjTypeOK`, `NtTypeOK` and `TsTypeOK` say which values
the variables take; they hold too, and can be checked by adding them to the
`INVARIANTS` of the configuration.

**Bounds.** `MaxTasks` bounds the requests of `P2PQueue`: three let a thread that
is late by two requests come back. Two servers are the most for which `EraseOnce`
holds (see below). `MaxCrashes`, `MaxRestarts`, `MaxReorgs`, `MaxFaults` and
`MaxAlarms` bound how often the environment acts; `BatchSize` and
`CountAdvancedBlocks` (2 for 8 in the code) make a batch shorter than the chain.
Two crashes are enough for a crash during the recovery from a crash, two forks for
a fork that is taken back while the common ancestor is searched, four blocks for a
fork that is two blocks deep. `Modulus` = 8 makes the sums of a wallet restart
within a chain; `CounterModulus` = 64 does not wrap, as 2^64 rows are out of the
node's reach. The limits of `Rejected` are all passed by five blocks. In
`TxStatus`, `Keep` is `ScriptCapacity + 2` as in the configuration
(5 = 3 + 2), the least value for which `AttributesRecent` holds.

Deadlock is not checked in `network`, `rejected` and `tx_status`: the system is
quiet there once the others have no more blocks, the worker has ended, or the
chain is written.

`sync_crash` excludes crashes between the cut of the files and the removal of the
databases, where `HeadersInFile` fails, and `sync_live` excludes forks, after
which the node need not catch up; both are described below. `sync_faults` has
crashes everywhere: `LoadedChainIntact` speaks of files that begin with a first
block (`FilesBeginAtRoot`), which is what such a crash can take away.

**Fairness.** `FairSyncSpec` asks weak fairness of the synchronising thread and
of the worker's thread. Both are operating system threads in loops that never
block for good: the queue is emptied by the other one, requests have timeouts,
and a stopped node is started again by its start script. Nothing is asked of the
servers, of crashes or of failures. `FairP2PSpec` asks weak fairness of the
caller and of each thread: `P2P_Impl::request` passes a timeout of five seconds,
so a thread that waits for a server goes on, and the functions of the caller
only parse and copy. `NsSpec` asks it of the synchronising thread (`SourceNext`)
and not of the servers' growth, `RjSpec` of the worker (`WorkerNext`), which
sleeps a second and goes on until an exception ends it, `TsSpec` of the three
threads `Feed`, `MainWork` and `ScriptWork`, which only wait for each other.

**The violation.** `rejected_dumps`: the node asks all servers for the last
rejected blocks and then *any* of them for the dumps
(`GetNewRejectedBlocksFromServer.cpp`). An honest server that is one block behind
the one that named the blocks sends fewer dumps, or none: an empty answer is taken
for a result like any other (line 60) and ends the request. Then
`CHECK(blocks.size() == blocksInPart, "Incorrect answer")` (line 99) throws. As
the `try` of `RejectedTxsWorker::worker` (line 98) is around its loop, the worker
ends for good.

## Findings without a run

Seen with TLC on these modules or while translating the code. They are described
here rather than kept as runs; the hazards in `PROJECT.json` refer to them.

Chain and synchronisation:

* A refused state block has raised `lastStateBlock` already, so it names a block
  that is no state block (`BlockChain.cpp:68`).
* An orphan becomes block 1 of an empty chain, as the branch for an unknown parent
  is dead (`BlockChain.cpp:55`; `OrphansNotNumbered` fails).
* A batch that fails after `addBlock` leaves a hole in the saved chain: the
  next start fails with "Incorrect sequence" (`BlocksTimeline.cpp:35`,
  `SyncImpl.cpp:437`, `460`).
* A crash between the worker's write and the header's, followed by a fork, leaves
  the worker ahead on the old branch: "Incorrect prev hash" for ever
  (`SyncImpl.cpp:433`, `WorkerMain.cpp:406`; `WorkerOnChain` with a fork).
* A block that is missing in the file at a restart is asked for by its number, and
  the answer is not compared with the header (`SyncImpl.cpp:274`): servers that
  have left our chain give a block of another one.
* When the work on the very first block fails, the second is applied without it,
  as an empty previous hash is accepted (`WorkerContiguous` with a fault).
* After a fork the dump of the new block is appended without its size
  (`main.cpp:339`); the next process reads the file again and again
  (`FileSystem.cpp:75`).
* `findCommonAncestor` repeats one number when the servers have returned to our
  chain (`SyncImpl.cpp:305`).
* A crash between the cut of the file and the removal of the databases leaves
  headers that point behind the end of the file (`main.cpp:117`). When the chains
  share no block the file is cut to nothing; the next process goes on from the
  old databases, writes the next block of the old chain at the beginning of the
  file, and after another fork a later one indexes that file and makes a block
  with an unknown parent its block 1 (`LoadedChainIntact` without
  `FilesBeginAtRoot`, a behaviour of 53 states). When the file was cut at block 1,
  the next process writes block 2 in its place, and the one after that replays it
  as block 1, as a dump is not compared with the header (`SyncImpl.cpp:305` on,
  `WorkerContiguous` with a crash at that place and a fork, 47 states).
* A refused block was appended to the file before, and is again after each false
  alarm (`SyncImpl.cpp:412`).
* The number of a header without exception is read before it is set for the blocks
  of a failed fetch; both outcomes are in `NetworkSource` and neither does harm.

Network:

* A pre-load lists sign blocks in the order of the timeline, the receiver takes
  them from a `std::set` of hashes (`GetNewBlocksFromServers.cpp:143`). In another
  order each dump fails the check "Incorrect block dump"
  (`NetworkBlockSource.cpp:141`), for ever. `network` therefore pre-loads sign
  blocks that are sorted.
* With `validateSign` a sign block's size includes its signature, which
  `parseBlockInfo` has cut before it compares the size
  (`NetworkBlockSource.cpp:104`, `126`). `network` verifies without sign blocks.
* After a restart a sign block is refused with "File name not set"
  (`SyncImpl.cpp:145`) until a block comes, and a pre-load takes the sign blocks
  of the first of the highest answers only: `Stranded` in `KeepsUp`.
* `EraseOnce` fails with three servers: one thread is in `getSegment` and keeps
  the element alive, two others have an answer and remove it, the second through
  an iterator that was erased already (`QueueP2P.cpp:11`).
* `processBlocks` goes from new to old while `addHistory` drops the front, so of
  more rejections of a transaction in one round than a history holds the newest
  are dropped. A file source may drop, under a flood, blocks that it has named.

Workers:

* A batch does not find a token it was given (`LevelDb.cpp:379`, `404`): of two
  changes of a token's record in one block the first is lost. `TokenSupply` is
  stated for blocks with one. The same holds for the states of contracts
  (`LevelDb.cpp:384`, `399`): scripts of one block all start from the state before
  it, which is how `StatusMatchesState` is stated.
* An undelegation is carried out whatever the status of its transaction.
* The key of day 0 sorts before all other days (`LevelDb.cpp:691`); tests before
  the first state block hide all later days from ratings.
* `findAvg` sums in `int` (`WorkerNodeTest.cpp:27`), a failed read in
  `processTestTransaction` is taken for "no results" (`113`),
  `getLastNodeTestResult` gives the average of day 0 when the day is over, and
  `AllNodes::plus` keeps the first registration of a node.
* With `Keep` less than `ScriptCapacity + 2` statuses stay in the cache for good;
  when the main worker is stuck nothing is removed; a failed batch of the main
  worker leaves its statuses in the cache. The same happens after a restart with
  the script worker behind the main one: the main worker passes over the blocks
  it has, removes nothing for them, and the statuses that the script worker
  caches for them stay (the premise `crashes = 0` in `AttributesRecent`). The
  script worker's guard for a state "of this block already" never holds.
* A source of rejected blocks needs room for twice as many blocks as are named at
  a time (1000 and 100 in the code): with `Count` = 3 and `MaxBlocks` = 4 blocks
  are dropped while they are still named, and have no dump to give.
* The dumps of rejected blocks are asked without a hint, which `P2P_Graph` demands
  (`GetNewRejectedBlocksFromServer.cpp:88`, `P2P_Graph.cpp:71`): on a node with a
  graph of servers the first missing block ends the worker. `Rejected` is about
  `P2P_Ips`, where any server may answer.

## Proofs

The theorems hold for every value of the constants that satisfies the named
assumptions of the module, so for any number of blocks, servers, threads,
crashes and failures; where a theorem needs more it is a hypothesis of it.

| module | theorems | hypotheses |
|---|---|---|
| `Sync_proofs` | of `BlockChain`: `InvariantHolds`; `TypesHold`, `MapAgreesWithList`, `ListIsLinked`, `LastStateBlockInList`, `RestartsSucceed`, `NumbersAreStable`: all properties of the run `blockchain` | none |
| `Sync_proofs` | `SyncInvariant`, `SyncTypes`, `HeadersPlaced` (`HeadersInFile`), `LoadedChains` (`LoadedChainIntact`, and `FilesBeginAtRoot`) | no crash between the cut of the files and the removal of the databases |
| `Sync_proofs` | `SavedInvariant`, `DbAlwaysRecoverable` (`DbRecoverable`), `DurableChainImplemented` (`SavesDurableChain`) | the same, and no failed write |
| `Sync_proofs` | `WorkerSavesInOrder` (`WorkerContiguous`) | no failure, and no crash between the cut and the removal or no change of the servers' chain |
| `Sync_proofs` | `NoForkInvariant`, `SavedBlockOnChain` (`WorkerOnChain`) | no change of the servers' chain; failures and crashes anywhere |
| `P2PQueue_proofs` | `P2PInvariant`, `P2PTypes`, `ResultTrue`, `CallbacksInTask`, `AskedOnce`, `SegmentsCovered`; `ErasedOnce` (`EraseOnce`) | for `ErasedOnce`, one named server or at most two servers |
| `NetworkSource_proofs` | `NsInvariant`, `NothingIsRefused` (`NothingRefused`), `ReplicaImplemented` (`ImplementsReplica`), `HonestDumpsTaken` (`HonestDumpsPass`): all safety properties of the run `network` | for `HonestDumpsTaken`, no pre-load, and no sign blocks with verify |
| `TxStatus_proofs` | `TsInvariant`, `TsTypes`, `RecentAttributes` (`AttributesRecent`), `StatusesKept` (`StatusKept`), `StatusesMatchStates` (`StatusMatchesState`): all safety properties of the run `tx_status` | for `RecentAttributes`, `Keep >= ScriptCapacity + 2` |
| `Rejected_proofs` | `RjInvariant`, `RjTypes`, `RejectedCountedOnce` (`CountedOnce`), `NamedBlocksHaveDumps` (`NamedHaveDumps`) | for the last, `2 * Count <= MaxBlocks` |
| `NodeTests_proofs` | `NtInvariant`, `NtTypes`, `TablesAreComplete` (`TablesComplete`), `RatingsOfOneDay` (`RatingOfOneDay`), `LastResultsOfToday` (`LastResultOfToday`), `GroupsMatchLoop` (`GroupsAsInLoop`): all properties of the run `node_tests` | none |
| `Ledger_proofs` | `LedgerInvariant`, `HistoriesComplete` (`HistoryComplete`) | `CounterLasts` |
| `Ledger_proofs` | `LedgerTypes`, `DelegationsAreBacked` (`DelegationsBacked`) | `CounterLasts`; `WellFormed` chains |
| `Ledger_proofs` | `MoneyIsConserved` (`MoneyConserved`) | `CounterLasts`; `WellFormed`, `WellMinted` chains |
| `Ledger_proofs` | `TokensAreSupplied` (`TokenSupply`) | `CounterLasts`; `WellFormed`, `WellCreated` chains |
| `Ledger_proofs` | `AccountsImplemented` (`ImplementsAccounts`), `HonestStatesAccepted` (`HonestStateAccepted`): with the above all properties of the run `ledger` | `CounterLasts`; `WellFormed`, `WellLent` chains; the module "balance" is on |

The hypotheses are not for the prover's sake. Those about crashes, failures,
servers and lengths of lists have a counterexample each, described under "Findings
without a run". Those of `Ledger_proofs` are about what the node is given:
`CounterLasts` says that the counter in the keys, 2^64 - 1 at first, has not
counted down to zero, and the others what the network makes sure of before a
transaction is in a block, which this program does not check. TLC evaluates them
on the chains of the run (`ChainsAreSound` in `MCLedger`).

**BlockChain.** Assumptions: `HashAssumption` (a finite set of hashes without the
genesis hash, parents among them) and `HeightAssumption` (parents lead to the
genesis block). `NumbersAgree` and `ChainLinked` are not inductive together: at a
restart the walk over the saved headers has to stop below the first block, and
it does so only because the unknown parent of an orphan first block is not one of
the later blocks. `HeightsGrow` adds that heights increase along the list, which
excludes it. When all known headers are numbered, the walk from a new block
is the block alone (`AddWalk`), so an accepted block gets the next number
(`AcceptedInv`) and a refused one leaves nothing but a larger `lastStateBlock`
within the list (`RefusedInv`); at a restart the walk meets exactly the saved
blocks (`LoadWalk`) and numbers them as before (`LoadInv`).

**Sync.** `SyncInv` says, by the place of the synchronising thread, what the
files, the timeline, the headers and the chain in memory have in common. It is
about failed writes too, so it may not say that the saved blocks are a chain:
a lost header leaves a gap. `DbOK` therefore says that headers have different
heights, the last saved block being the highest, and that each header's parent is
there *if* the keys of the timeline have no gap; a process that finds a gap does
not start. `EmptyOK` and `HeadOK` carry the fact that only a first block comes to
an empty chain, through batches, restarts and rewritten files, which is what
`LoadedChainIntact` needs. When no write fails, `SavedInv`
adds that the saved keys are `0..q-1`, that the saved blocks in the order of
their keys are a chain from the genesis block to the block that `metadata` names,
and that memory has at most the element at hand more. Each step of `Sync` then
leaves `DurableChain`'s chain alone, extends it by a child of its last block, or
empties it.

The main worker has invariants of its own. Every block that it has saved, works at
or waits for carries its height as its number (`EntriesOK`), because the replay
finds at a position the block it is the position of (`ReplayedBlock`) and a pushed
block is the last of the chain. A block is saved behind the one that its parent is,
so no number is left out, except that a worker which has saved nothing takes any
block: `FirstOK` says that the first thing it gets is then block 1, wherever the
synchronising thread is. When the servers keep to one chain, all blocks on disk, in
memory and on their way are theirs (`ServedOK`), and files, batches and the part
of the file that was read are in its order (`NoForkOK`). The next block therefore
always follows the last one (`NoneRefused`), the recovery is never entered, and
two blocks of one height are the same, which is `WorkerOnChain`.

**P2PQueue.** The threads outlive the request they work for, so the invariant
first orders the tasks (`TaskInv`): what a thread was told is never newer than
the queue's task, and one that runs a function of the caller is in the present
one. `HoldInv` and `ServersInv` say which element a thread has and that its
server is noted there. `ResultIsTrue` needs that no segment is forgotten
(`NoneForgotten`): each is in the list, answered, about to be removed by a thread
that has the answer, or the error is noted. The last thread to fail is known as
such because every other server has failed (`GivesUp`), and `SpareInv` says that
an element that was answered has a server that is not among the failed ones.

**NetworkSource.** Assumption: `NetworkAssumption` (timelines begin with the first
block, have no element twice, and a block comes after the one before it). What a
node delivers depends on answers of different nodes at different times, each with
a part of the timeline of its own. `PartFacts` is what they have in common: a node
that has a block has all sign blocks before it, and for the last block it has
some of the sign blocks after it. A good header (`GoodHeader`) therefore names
exactly the sign blocks before its block. `ItemsOK` follows the items of a batch
from there: every block from the next one on is among them (`Numbered`), each sign
block that is not in the copy is an item once (`SignsOnce`), and sooner than a
block that it precedes (`SignsFirst`). `FirstItem` concludes that the first of
them is the next block, with the sign blocks before it in the copy, or a sign
block whose own block is there, and `ItemsLeft` that the others are again such
items. So each delivery is a step of `Replica`. `HonestOK` says that a dump
in the cache or in an item is that of its hash or a wrong one.

**TxStatus.** The queue of each worker is the last blocks it was given, without
a gap (`MainOrder`, `ScriptOrder`); the main worker has evicted nothing but blocks
that are `Keep` behind it, the script worker is at most its queue and two blocks
behind the feeding thread, so what it adds is newer than what was evicted.
`Undisturbed` is the stronger statement without failures and restarts.
`StatusKept` needs that a status in the cache and in the database agree (`Agree`)
or that the one in the database is about to be written.
`StatusMatchesState` needs to know what the batch of the script worker holds while
it works at a block (`BatchMatches`): for each contract of which a transaction was
executed with success, the state before the block and the last of these
transactions, the others being gone. What is left of the block comes later
(`TodoLast`), so the next success is the last one. The batch is written when
nothing is left, and each state gets one more transaction at the end (`AddedGrows`,
from `FlattenGrow`); the successes of the written blocks stay what they were
(`SuccessesKept`), as their statuses do.

**Rejected.** What a source holds is a window of the rejected blocks that only
moves on (`WindowOK`): a block it has dropped does not come back. A block that the
worker takes for known was counted or has left the window (`CountOK`). With a
network source the worker names the blocks of one round while the source has
those of the next already (`NamedOK`); as a round brings at most `Count` blocks,
a window of `2 * Count` still has the ones that are named.

**NodeTests.** Assumption: `NodeTestsAssumption` (a finite set of nodes, fewer
than 2^64 blocks, well-formed transactions). `TablesComplete` is not inductive: it
speaks of the days up to the present one and of what `Lookup` finds. `TablesOK`
says for each table that its keys are exactly the ones with tests, that no day
after the present one has any (`DayOK`), that the last results are of a day
after which the node has none (`LastOK`), and which block a trust or a
registration is from (`KeysOK`). A written block is behind all others, so
it leaves their days as they are and is itself in the present day (`DaysStay`);
the tests of the node on that day, a flattened sequence over the chain, get
the block's tests at the end (`TestsGrow`, from `FlattenGrow`), and each table follows
(`RpsWritten`, `TestedWritten`, `LastWritten`, `KeysWritten`). For the queries
`RatingOK` and `LastQueryOK` say that what was read begins what the table has now,
which every write keeps (`More`, `QueryStays`). `GroupFound` shows the
arithmetic of the groups against the loop for every number of nodes, not only
those the property lists.

**Ledger.** `LdInv` ties the rows of the histories to the transactions they are of
(`RowsOf`): one row for each address of each transaction that was written, and
under lower keys for later ones. This holds of the database for the written blocks
and of the batch for the transactions done so far, and `CounterOK` says that the
counter is below every key in use. A failed block leaves the counter where it was,
a restart takes it back to the saved one; both are below the saved rows, and the
rows of the lost batch are gone, so no key is used twice.

For sums, `Same` is equality modulo the width. `Moved(e, f, v)` says that the
difference of the two sums of an element has become larger by `v`, and holds of
`ReceiveValue`, `SpentValue` and `+=` whether or not the sums restart. What
one transaction does is then stated once (`TxDone`), for balances, tokens, rows,
records and the common balance, and each invariant is shown from it. `BooksOK` has
what all of them need: the delegations in force, those of the database and of
the batch without the deleted ones (`InForce`), have different keys, and the cache
of a pair names exactly the rows of the pair that this block made (`BatchRows`), so
that an undelegation finds a row in force and takes that one out. `BackedOK` says
that balance and rows agree, in the database and when the balance of the batch is
added. `MoneyIn` accounts for the money (`Accounted`) over the written blocks, and
over these and the transactions done; that the common balance is counted once
depends on its block number being behind. `TokensIn` needs more than the
property: a record that the block has not written must not hide tokens that the
block gave, so `BatchToken` says which operations the block did on a token so far
(`RecordsDone`), and `DbToken` that a token with no operation has no amounts.
This is where the order of a creation matters. On the way the
proof found two guards of a `CASE` in `ProcessMoney` that overlapped; they are
exclusive now, as the early return in the code makes them.

`AccountsImplemented` is about what `Accounts` sees of rows and balances
(`ViewOf`): the balances of database and batch added up, and the rows in force of
a pair as a stack, in the order of falling keys. A new row has the lowest key, so
it goes on top (`StatesPush`), and the row an undelegation takes is the top one
(`StatesPop`); with `TxDone` a transaction changes the view as `Apply` does
(`ViewTx`). `CourseOK` says that the view is where `Accounts` is after the
transactions done so far, starting from the database as it is, and that the
block extends what is saved. A failed block drops the batch and goes back to
the start of this course; `Save` makes the view the database (`ViewSaved`), which
is one step of `Accounts`, and all other steps are none.

`HonestStatesAccepted` adds that the database is where the chain leads to, when no
block was missed (`AfterOK`), and that the values in the stacks of a wallet, summed
over the receivers, are what its rows are worth (`StatesSum`, `OutSum`), which
`BackedOK` compares with its balance. The property was first stated with a history
variable, "no honest state block was ever refused among the written ones". The
proof failed, and TLC confirmed why: when the write of a block fails, the state
block after it is refused for good reason, and after a restart both come
again and are written. It now says of a state block at its turn that it is
accepted when all blocks before it have been written. Also for the proof,
`Accounts` goes by the failures of a transaction as the code does, not by the
one status of success.

**Technique.** The library's induction theorems cannot be instantiated here.
Where a fact about all numbers is needed it is shown with `NatMin`: a set of
counterexamples has a least one, and none is the least. The same lemma gives
recursive functions their recursive equation (`RunsExist`, `Recursion` in
`Lemmas`: the function is the union of its finite beginnings), which
`RestartsSucceed` needs for `Ancestor`, `Sync_proofs` for the batches that
`Items` puts together, `NodeTests_proofs` for sums and, in `Lemmas`, `FlattenSeq`.
Sums over finite sets are treated in the same way (`SumExists` to `SumAdd` in
`Lemmas`): the sums of all subsets of a finite set are built by the size of the
subset.

**Only model-checked.**

* Liveness (`CatchesUp`, `RequestReturns`, `KeepsUp`, `RejectedIsFound`,
  `AllWritten`): out of the prover's reach.
* `HonestDumpsPass` with a pre-load: the dumps are assigned in the order of a
  flattened sequence of sorted sets.

## Plan

Done: `BlockChain`, `Sync`, `P2PQueue`, `NetworkSource`, `Ledger`, `Rejected`,
`NodeTests`, `TxStatus`, their abstract specifications, and the proofs above.

Proofs, next: `HonestDumpsPass` with a pre-load, when the sign blocks of a block
come in the order of their hashes.

Models, next: several block files with rejected blocks and torn records in them;
the queries of the timeline for signatures; the paging of histories; the end of
P2P threads by an exception.

## Not modelled

* The HTTP server's other requests and the JSON they write, the parsing of blocks
  and messages, varints: byte formats without state.
* Cryptography, the name lookup and the measurements of `TestP2PNodes`: pure
  functions, or I/O and timing.
* `WorkerCache`, which adds and removes by block number in one thread, in the way
  `TxStatus` has with two; `LocalCache`, which nothing uses.
* In the workers: the list of last transactions, counters of operations, details
  and code of contracts, statuses under the keys of addresses, `filterLastNodes`,
  `countTests` and other queries that only read.
* Everything under `3rdParty/`, which is most of the lines of the repository: it
  is vendored.
