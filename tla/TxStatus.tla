------------------------------ MODULE TxStatus ------------------------------
(***************************************************************************)
(* The status of transactions.  Delegations get theirs from the main       *)
(* worker (src/src/Workers/WorkerMain.cpp), scripts from the script worker *)
(* (src/src/Workers/WorkerScript.cpp), which executes them at a remote     *)
(* service and keeps the states of the contracts in a leveldb of its own.  *)
(* Both threads write the status to the shared leveldb and to the cache    *)
(* txsStatusCache, whose entries the main worker alone removes, by the     *)
(* number of the block.  The synchronising thread gives each block to the  *)
(* one and then to the other, through queues of different capacity.        *)
(*                                                                         *)
(* A transaction is the pair of its block and its place in it; a hash      *)
(* stands for the number of its block.  A status is the set of its errors, *)
(* the state of a contract the sequence of what was executed on it.  The   *)
(* statuses under the keys of addresses are written next to the ones here  *)
(* and left out, as are the details and the code of contracts.             *)
(***************************************************************************)
EXTENDS Integers, Sequences, FiniteSets, SequencesExt, FiniteSetsExt

CONSTANTS
    Contract,        \* addresses of contracts
    Chains,          \* the chains the network may have agreed on
    MainCapacity,    \* of the queue of WorkerMain, 1
    ScriptCapacity,  \* of the queue of WorkerScript, 3
    Keep,            \* max_count_blocks_txs_cache
    MaxFaults,       \* how many requests to the service and batches may fail
    MaxCrashes       \* how often the process may be killed

Failure == {"script", "server"}

\* The errors of a transaction are those it will get from the service.
Tx == [kind : {"compile", "run", "unknown", "delegate", "other"},
       contract : Contract, errors : SUBSET Failure]

ASSUME TxStatusAssumption ==
    /\ \A c \in Chains : c \in Seq(Seq(Tx))
    /\ MainCapacity \in Nat \ {0} /\ ScriptCapacity \in Nat \ {0}
    /\ Keep \in Nat \ {0} /\ MaxFaults \in Nat /\ MaxCrashes \in Nat

VARIABLES
    chain,    \* the blocks, numbered from 1
    feed,     \* the synchronising thread: the last block given to both workers,
              \*   and whether the next one goes to the main worker now
    main,     \* WorkerMain: its queue, its block, what is left of it, its batch
    script,   \* WorkerScript: the same, and what it has cached and not saved
    db,       \* leveldb and leveldbV8
    cache,    \* txsStatusCache: the map and its keys under their attributes
    evicted,  \* history: the attributes the main worker has removed
    written,  \* history: the blocks that each worker has written
    faults, crashes

tsVars == <<chain, feed, main, script, db, cache, evicted, written, faults, crashes>>

Update(f, k, v) == [x \in DOMAIN f \cup {k} |-> IF x = k THEN v ELSE f[x]]
Merge(f, g) == [x \in DOMAIN f \cup DOMAIN g |-> IF x \in DOMAIN f THEN f[x] ELSE g[x]]
Empty == [x \in {} |-> 0]

TxAt(t) == chain[t[1]][t[2]]

\* The transactions of block n that a worker gives a status to, which it does
\* in their order.
TxsOf(n, kinds) == {t \in {n} \X DOMAIN chain[n] : TxAt(t).kind \in kinds}

FirstOf(txs) == CHOOSE t \in txs : \A u \in txs : t[2] <= u[2]
LastOf(txs) == CHOOSE t \in txs : \A u \in txs : t[2] >= u[2]

ScriptKinds == {"compile", "run", "unknown"}
AllKinds == ScriptKinds \cup {"delegate"}

-----------------------------------------------------------------------------
(* Cache. *)

\* addValue: map::insert keeps the value of a key that is there.
AddValue(c, t, s) ==
    [map |-> Merge(c.map, Update(Empty, t, s)), keys |-> c.keys \cup {t}]

\* remove: the keys under the attribute that is the number of block n.
RemoveBlock(c, n) ==
    LET gone == {t \in c.keys : t[1] = n}
    IN  [map |-> [t \in DOMAIN c.map \ gone |-> c.map[t]], keys |-> c.keys \ gone]

-----------------------------------------------------------------------------
(* The synchronising thread. *)

HasRoom(q, capacity) == Len(q) < capacity

\* WorkerMain::process passes over what was saved before the start.
FeedMain ==
    /\ feed.toMain /\ feed.block < Len(chain)
    /\ IF feed.block + 1 > main.init
       THEN /\ HasRoom(main.queue, MainCapacity)
            /\ main' = [main EXCEPT !.queue = Append(@, feed.block + 1)]
       ELSE UNCHANGED main
    /\ feed' = [feed EXCEPT !.toMain = FALSE]
    /\ UNCHANGED <<chain, script, db, cache, evicted, written, faults, crashes>>

\* A block that was saved before the start may come again, as a new one.
FeedScript ==
    /\ ~feed.toMain
    /\ \/ /\ HasRoom(script.queue, ScriptCapacity)
          /\ script' = [script EXCEPT !.queue = Append(@, feed.block + 1)]
       \/ /\ feed.block + 1 <= script.init
          /\ UNCHANGED script
    /\ feed' = [block |-> feed.block + 1, toMain |-> TRUE]
    /\ UNCHANGED <<chain, main, db, cache, evicted, written, faults, crashes>>

\* A block that a worker has not saved, on top of the last one it has.
Fits(n, saved) == n > saved /\ (saved = 0 \/ n = saved + 1)

-----------------------------------------------------------------------------
(* WorkerMain. *)

MainBegin ==
    /\ main.at = 0 /\ main.queue # <<>>
    /\ main' = [main EXCEPT
                  !.queue = Tail(@),
                  !.at = IF Fits(Head(main.queue), db.mainBlock)
                         THEN Head(main.queue) ELSE 0,
                  !.todo = TxsOf(Head(main.queue), {"delegate"})]
    /\ UNCHANGED <<chain, feed, script, db, cache, evicted, written, faults, crashes>>

\* saveTransactionStatus: at once in the cache, in the database with the batch.
MainStatus ==
    /\ main.at # 0 /\ main.todo # {}
    /\ LET t == FirstOf(main.todo)
       IN  /\ cache' = AddValue(cache, t, TxAt(t).errors)
           /\ main' = [main EXCEPT !.todo = @ \ {t},
                                   !.batch = Update(@, t, TxAt(t).errors)]
    /\ UNCHANGED <<chain, feed, script, db, evicted, written, faults, crashes>>

\* Mutant: the statuses of the batch are only in the cache.
Saved_OnlyCached(statuses) == statuses

Saved(statuses) == Merge(main.batch, statuses)

MainSave ==
    /\ main.at # 0 /\ main.todo = {}
    /\ db.mainBlock # main.at
    /\ db' = [db EXCEPT !.status = Saved(@), !.mainBlock = main.at]
    /\ written' = [written EXCEPT !.main = @ \cup {main.at}]
    /\ UNCHANGED <<chain, feed, main, script, cache, evicted, faults, crashes>>

\* Mutant: one block less is kept.
Outdated_Early(n) == (n - Keep) + 1

\* size_t: for the first blocks the difference is the number of no block.
Outdated(n) == n - Keep

MainEvict ==
    /\ main.at # 0 /\ db.mainBlock = main.at
    /\ cache' = RemoveBlock(cache, Outdated(main.at))
    /\ evicted' = evicted \cup {Outdated(main.at)}
    /\ main' = [main EXCEPT !.at = 0, !.todo = {}, !.batch = Empty]
    /\ UNCHANGED <<chain, feed, script, db, written, faults, crashes>>

\* leveldb refuses the batch: the block is dropped.
MainFails ==
    /\ main.at # 0 /\ main.todo = {} /\ db.mainBlock # main.at
    /\ faults < MaxFaults
    /\ faults' = faults + 1
    /\ main' = [main EXCEPT !.at = 0, !.batch = Empty]
    /\ UNCHANGED <<chain, feed, script, db, cache, evicted, written, crashes>>

-----------------------------------------------------------------------------
(* WorkerScript. *)

ScriptBegin ==
    /\ script.at = 0 /\ script.queue # <<>>
    /\ script' = [script EXCEPT
                    !.queue = Tail(@),
                    !.at = IF Fits(Head(script.queue), db.scriptBlock)
                           THEN Head(script.queue) ELSE 0,
                    !.todo = TxsOf(Head(script.queue), ScriptKinds)]
    /\ UNCHANGED <<chain, feed, main, db, cache, evicted, written, faults, crashes>>

\* findV8StateF: the batch keeps no state that was added to it, so this is the
\* state before the block.
FindV8State(c) == db.v8[c]

\* The errors of a transaction, when the service answers with errors.
Errors(tx, errors) ==
    CASE tx.kind = "compile" ->
            errors \cup (IF FindV8State(tx.contract).txs # <<>> THEN {"script"} ELSE {})
      [] tx.kind = "run" ->
            IF FindV8State(tx.contract).txs # <<>> THEN errors ELSE {"script"}
      [] tx.kind = "unknown" -> {"script"}

\* Mutant: a state is kept whatever the errors.
NewStates_Always(t, errors) ==
    LET c == TxAt(t).contract
    IN  Update(script.batch, c,
               [txs |-> Append(FindV8State(c).txs, t), block |-> t[1]])

NewStates(t, errors) ==
    LET c == TxAt(t).contract
    IN  IF errors # {} THEN script.batch
        ELSE Update(script.batch, c,
                    [txs |-> Append(FindV8State(c).txs, t), block |-> t[1]])

\* One transaction is executed and its status cached.  A contract whose state is
\* of this block already would be passed over.
Execute(answer) ==
    /\ script.at # 0 /\ script.todo # {} /\ script.saving = <<>>
    /\ LET t == FirstOf(script.todo)
           errors == Errors(TxAt(t), answer)
       IN  IF /\ FindV8State(TxAt(t).contract).txs # <<>>
              /\ FindV8State(TxAt(t).contract).block >= script.at
           THEN /\ script' = [script EXCEPT !.todo = @ \ {t}]
                /\ UNCHANGED cache
           ELSE /\ cache' = AddValue(cache, t, errors)
                /\ script' = [script EXCEPT !.saving = <<errors>>,
                                            !.batch = NewStates(t, errors)]
    /\ UNCHANGED <<chain, feed, main, db, evicted, written, crashes>>

ScriptExecute ==
    /\ script.todo # {}
    /\ Execute(TxAt(FirstOf(script.todo)).errors)
    /\ UNCHANGED faults

\* The service has an error of its own (SERVER_ERROR).
ServerError ==
    /\ faults < MaxFaults
    /\ Execute({"server"})
    /\ faults' = faults + 1

\* saveTransactionStatus of leveldb, past the batch.
ScriptStatus ==
    /\ script.saving # <<>>
    /\ db' = [db EXCEPT !.status = Update(@, FirstOf(script.todo), Head(script.saving))]
    /\ script' = [script EXCEPT !.saving = <<>>,
                                !.todo = @ \ {FirstOf(@)}]
    /\ UNCHANGED <<chain, feed, main, cache, evicted, written, faults, crashes>>

\* The batch of leveldbV8: the states and the number of the block.
ScriptSave ==
    /\ script.at # 0 /\ script.todo = {}
    /\ db' = [db EXCEPT !.v8 = Merge(script.batch, @), !.scriptBlock = script.at]
    /\ written' = [written EXCEPT !.script = @ \cup {script.at}]
    /\ script' = [script EXCEPT !.at = 0, !.batch = Empty]
    /\ UNCHANGED <<chain, feed, main, cache, evicted, faults, crashes>>

\* No answer, a USER_ERROR or a failed write: the rest of the block and the states
\* of all of it are dropped, the statuses saved so far stay.
ScriptFails ==
    /\ script.at # 0
    /\ faults < MaxFaults
    /\ faults' = faults + 1
    /\ script' = [script EXCEPT !.at = 0, !.todo = {}, !.batch = Empty, !.saving = <<>>]
    /\ UNCHANGED <<chain, feed, main, db, cache, evicted, written, crashes>>

-----------------------------------------------------------------------------
\* Mutant: the blocks come from after the last one that some worker has.
ReplayFrom_Max == Max({db.mainBlock, db.scriptBlock})

\* makeWorkers: from after the last block that all workers have.
ReplayFrom == Min({db.mainBlock, db.scriptBlock})

MainMade(saved) ==
    [queue |-> <<>>, at |-> 0, todo |-> {}, batch |-> Empty, init |-> saved]

ScriptMade(saved) ==
    [queue |-> <<>>, at |-> 0, todo |-> {}, batch |-> Empty, init |-> saved,
     saving |-> <<>>]

NoCache == [map |-> Empty, keys |-> {}]

\* The process is killed and starts again.  The header of the last block may not
\* have been saved: then that block comes once more.
Restart ==
    /\ crashes < MaxCrashes
    /\ crashes' = crashes + 1
    /\ \E b \in {ReplayFrom, Max({0, ReplayFrom - 1})} :
            feed' = [block |-> b, toMain |-> TRUE]
    /\ main' = MainMade(db.mainBlock)
    /\ script' = ScriptMade(db.scriptBlock)
    /\ cache' = NoCache /\ evicted' = {}
    /\ UNCHANGED <<chain, db, written, faults>>

TsInit ==
    /\ chain \in Chains
    /\ feed = [block |-> 0, toMain |-> TRUE]
    /\ main = MainMade(0) /\ script = ScriptMade(0)
    /\ db = [mainBlock |-> 0, scriptBlock |-> 0, status |-> Empty,
             v8 |-> [c \in Contract |-> [txs |-> <<>>, block |-> 0]]]
    /\ cache = NoCache /\ evicted = {}
    /\ written = [main |-> {}, script |-> {}]
    /\ faults = 0 /\ crashes = 0

Feed == FeedMain \/ FeedScript
MainWork == MainBegin \/ MainStatus \/ MainSave \/ MainEvict
ScriptWork == ScriptBegin \/ ScriptExecute \/ ScriptStatus \/ ScriptSave

TsNext ==
    \/ FeedMain \/ FeedScript
    \/ MainBegin \/ MainStatus \/ MainSave \/ MainEvict \/ MainFails
    \/ ScriptBegin \/ ScriptExecute \/ ServerError \/ ScriptStatus \/ ScriptSave
    \/ ScriptFails \/ Restart

\* The three threads run in loops that only wait for each other.
TsSpec ==
    /\ TsInit /\ [][TsNext]_tsVars
    /\ WF_tsVars(Feed) /\ WF_tsVars(MainWork) /\ WF_tsVars(ScriptWork)

-----------------------------------------------------------------------------
(* Properties. *)

Txs(kinds) == UNION {TxsOf(n, kinds) : n \in DOMAIN chain}

\* Statuses of some transactions, and what was executed on a contract.
Statuses == UNION {[D -> SUBSET Failure] : D \in SUBSET Txs(AllKinds)}
State == [txs : Seq(Txs(ScriptKinds)), block : Nat]

MainTypeOK ==
    /\ main \in [queue : Seq(1..Len(chain)), at : 0..Len(chain),
                 todo : SUBSET Txs({"delegate"}), batch : Statuses, init : Nat]
    /\ Len(main.queue) <= MainCapacity

ScriptTypeOK ==
    /\ script \in [queue : Seq(1..Len(chain)), at : 0..Len(chain),
                   todo : SUBSET Txs(ScriptKinds),
                   batch : UNION {[D -> State] : D \in SUBSET Contract},
                   init : Nat, saving : {<<>>} \cup {<<e>> : e \in SUBSET Failure}]
    /\ Len(script.queue) <= ScriptCapacity

FeedTypeOK ==
    /\ feed \in [block : 0..Len(chain), toMain : BOOLEAN]
    /\ ~feed.toMain => feed.block < Len(chain)

StoreTypeOK ==
    /\ db \in [mainBlock : 0..Len(chain), scriptBlock : 0..Len(chain),
               status : Statuses, v8 : [Contract -> State]]
    /\ cache \in [map : Statuses, keys : SUBSET Txs(AllKinds)]

\* The queues keep to their capacities, the workers and the database are at
\* blocks of the chain, and only transactions have statuses.
TsTypeOK ==
    /\ chain \in Seq(Seq(Tx))
    /\ FeedTypeOK /\ MainTypeOK /\ ScriptTypeOK /\ StoreTypeOK
    /\ evicted \subseteq Int
    /\ written \in [main : SUBSET DOMAIN chain, script : SUBSET DOMAIN chain]
    /\ faults \in Nat /\ crashes \in Nat

\* Each attribute is removed once, by the main worker, so nothing may be added
\* under it afterwards: it would stay in memory for good.  The script worker may
\* lag behind by the blocks of its queue, the one it works at and the one it is
\* being given, and just these are kept when Keep is ScriptCapacity + 2.  As long
\* as no block is dropped or passed over, no attribute is left out either and the
\* cache holds the last blocks only.
AttributesRecent ==
    \A t \in cache.keys :
        /\ t[1] \notin evicted
        /\ faults = 0 /\ crashes = 0 => \A n \in evicted : t[1] > n

None == {"none"}

\* fillStatusTransaction: the cache, then the database.
Readable(t) ==
    IF t \in DOMAIN cache.map THEN cache.map[t]
    ELSE IF t \in DOMAIN db.status THEN db.status[t] ELSE None

\* The transactions of the blocks that the worker in charge of them has written.
Settled ==
    {t \in Txs({"delegate"}) : t[1] \in written.main}
        \cup {t \in Txs(ScriptKinds) : t[1] \in written.script}

\* Once its block is written the status of a transaction can be read and never
\* changes, although it moves from the cache to the database, two threads write
\* both in no fixed order, requests fail and the process may start again.
StatusKept ==
    [][\A t \in Settled : Readable(t) # None /\ Readable(t)' = Readable(t)]_tsVars

\* The transactions of block n on contract c whose saved status is a success.
Successes(n, c) ==
    {t \in TxsOf(n, {"compile", "run"}) : TxAt(t).contract = c /\ db.status[t] = {}}

\* The statuses and the states of contracts are in two databases and written at
\* different times; for the written blocks they agree: what has a success, and
\* nothing else, is in the state of the contract.  Of several successes in one
\* block only the last is, as each starts from the state before the block.
StatusMatchesState ==
    \A c \in Contract :
        db.v8[c].txs = FlattenSeq([n \in DOMAIN chain |->
            IF n \in written.script /\ Successes(n, c) # {}
            THEN <<LastOf(Successes(n, c))>> ELSE <<>>])

\* The synchronising thread and the two workers never wait for each other for
\* good, and a restart brings each worker the blocks it has not saved: without
\* failures both write the whole chain.
AllWritten ==
    <>(\/ faults > 0
       \/ /\ written.main = DOMAIN chain
          /\ written.script = DOMAIN chain)
=============================================================================
