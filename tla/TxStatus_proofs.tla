-------------------------- MODULE TxStatus_proofs ---------------------------
(***************************************************************************)
(* For all chains, all capacities of the queues and any number of failures *)
(* and restarts: nothing is cached under an attribute that was removed     *)
(* from the cache, when as many blocks are kept as the script worker may   *)
(* lag behind, a status that was settled can be read for good, and the     *)
(* states of contracts are what the statuses say.                          *)
(***************************************************************************)
EXTENDS TxStatus, Lemmas

(***************************************************************************)
(* The inductive invariant, in parts.                                      *)
(***************************************************************************)

\* The last block that was given to the main worker.
FeedEnd == IF feed.toMain THEN feed.block ELSE feed.block + 1

\* The blocks in the queue of the main worker are the last ones given to it,
\* without a gap, and what it works at comes before them.
MainOrder ==
    /\ \A i \in 1..Len(main.queue) :
        /\ main.queue[i] = (FeedEnd - Len(main.queue)) + i
        /\ main.queue[i] > main.init
    /\ main.at # 0 => main.at <= FeedEnd - Len(main.queue)
    /\ \A t \in main.todo : main.at # 0 => t[1] = main.at
    /\ \A n \in evicted :
        /\ n + Keep <= FeedEnd - Len(main.queue)
        /\ main.at # 0 => n + Keep < main.at

\* The same for the script worker, but for the blocks it has saved before the
\* start, which it throws away.
ScriptOrder ==
    /\ \A i \in 1..Len(script.queue) :
        script.queue[i] > script.init =>
            script.queue[i] = (feed.block - Len(script.queue)) + i
    /\ script.at # 0 =>
        /\ script.at > script.init /\ script.at > db.scriptBlock
        /\ script.at = feed.block - Len(script.queue)
    /\ \A t \in script.todo : script.at # 0 => t[1] = script.at
    /\ script.init <= db.scriptBlock
    /\ script.saving # <<>> => script.at # 0 /\ script.todo # {}

\* Without failures and restarts the main worker saves every block it is given,
\* and the attributes it has removed are all up to the last.
Done == IF main.at = 0 THEN db.mainBlock ELSE main.at - 1

Undisturbed ==
    faults = 0 /\ crashes = 0 =>
        /\ main.init = 0
        /\ main.at = 0 => db.mainBlock = FeedEnd - Len(main.queue)
        /\ main.at # 0 => /\ main.at = FeedEnd - Len(main.queue)
                          /\ db.mainBlock = main.at \/ db.mainBlock = main.at - 1
        /\ \A n \in 1..Len(chain) : n + Keep <= Done => n \in evicted
        /\ \A n \in evicted : n + Keep <= Done

KeysNotEvicted == \A t \in cache.keys : t[1] \notin evicted

\* The statuses of delegations.
MainStatuses ==
    /\ \A t \in Txs({"delegate"}) :
        /\ t[1] \in written.main => t \in DOMAIN db.status /\ db.status[t] = TxAt(t).errors
        /\ t \in DOMAIN cache.map => cache.map[t] = TxAt(t).errors
        /\ main.at # 0 /\ t[1] = main.at => t \in main.todo \/ t \in DOMAIN main.batch
    /\ \A t \in DOMAIN main.batch :
        t \in Txs({"delegate"}) /\ main.batch[t] = TxAt(t).errors

\* The statuses of scripts: the one in the cache is the one in the database, or
\* the one about to be written to it.
Agree(t) ==
    t \in DOMAIN db.status /\ (t \in DOMAIN cache.map => cache.map[t] = db.status[t])

ScriptStatuses ==
    /\ \A n \in written.script : n <= db.scriptBlock
    /\ \A c \in Contract : db.v8[c].block <= db.scriptBlock
    /\ \A c \in DOMAIN script.batch : script.at # 0 /\ script.batch[c].block <= script.at
    /\ \A t \in Txs(ScriptKinds) :
        /\ t[1] \in written.script => Agree(t)
        /\ t \in DOMAIN cache.map => t[1] <= feed.block - Len(script.queue)
        /\ script.at # 0 /\ t[1] = script.at /\ t \notin script.todo => Agree(t)
        /\ t \in script.todo /\ script.at # 0 =>
            IF script.saving # <<>> /\ t = FirstOf(script.todo)
            THEN t \in DOMAIN cache.map => cache.map[t] = Head(script.saving)
            ELSE t \notin DOMAIN cache.map

TsInv ==
    /\ TsTypeOK /\ MainOrder /\ ScriptOrder /\ Undisturbed
    /\ MainStatuses /\ ScriptStatuses

(***************************************************************************)
(* Transactions, their statuses, and the operators on functions.           *)
(***************************************************************************)

\* What a transaction of the chain is.
LEMMA TxsFacts ==
    ASSUME chain \in Seq(Seq(Tx)), NEW kinds, NEW t
    PROVE  /\ t \in Txs(kinds) =>
                /\ t[1] \in 1..Len(chain) /\ TxAt(t).kind \in kinds /\ TxAt(t) \in Tx
           /\ \A n \in 1..Len(chain) :
                t \in TxsOf(n, kinds) <=> t \in Txs(kinds) /\ t[1] = n
<1>0. DOMAIN chain = 1..Len(chain)
  OBVIOUS
<1>1. ASSUME NEW n \in 1..Len(chain), t \in TxsOf(n, kinds)
      PROVE  /\ t[1] = n /\ TxAt(t).kind \in kinds /\ TxAt(t) \in Tx
             /\ t \in Txs(kinds)
  <2>1. t[1] = n /\ t[2] \in DOMAIN chain[n] /\ TxAt(t).kind \in kinds
    BY <1>1 DEF TxsOf
  <2>2. chain[n] \in Seq(Tx)
    BY <1>0
  <2>3. chain[n][t[2]] \in Tx
    BY <2>1, <2>2
  <2>4. t \in Txs(kinds)
    BY <1>0, <1>1 DEF Txs
  <2> QED
    BY <2>1, <2>3, <2>4 DEF TxAt
<1>2. ASSUME t \in Txs(kinds)
      PROVE  \E n \in 1..Len(chain) : t \in TxsOf(n, kinds)
  BY <1>0, <1>2 DEF Txs
<1> QED
  BY <1>1, <1>2

\* The kinds of transactions that the workers give a status to.
LEMMA KindFacts ==
    ASSUME chain \in Seq(Seq(Tx))
    PROVE  /\ Txs({"delegate"}) \subseteq Txs(AllKinds)
           /\ Txs(ScriptKinds) \subseteq Txs(AllKinds)
           /\ Txs({"delegate"}) \cap Txs(ScriptKinds) = {}
<1>1. ASSUME NEW k, k \subseteq AllKinds
      PROVE  Txs(k) \subseteq Txs(AllKinds)
  BY <1>1 DEF Txs, TxsOf
<1>2. ASSUME NEW t, t \in Txs({"delegate"}), t \in Txs(ScriptKinds)
      PROVE  FALSE
  <2>1. TxAt(t).kind \in {"delegate"} /\ TxAt(t).kind \in ScriptKinds
    BY <1>2, TxsFacts
  <2> QED
    BY <2>1 DEF ScriptKinds
<1> QED
  BY <1>1, <1>2 DEF AllKinds

\* The chain stays the same, and all that is said of it.
LEMMA SameChain ==
    ASSUME UNCHANGED chain
    PROVE  /\ \A kinds : Txs(kinds)' = Txs(kinds)
           /\ \A n, kinds : TxsOf(n, kinds)' = TxsOf(n, kinds)
           /\ \A t : TxAt(t)' = TxAt(t)
           /\ Statuses' = Statuses /\ State' = State
<1>1. \A t : TxAt(t)' = TxAt(t)
  BY DEF TxAt
<1>2. \A n, kinds : TxsOf(n, kinds)' = TxsOf(n, kinds)
  BY DEF TxsOf, TxAt
<1>3. \A kinds : Txs(kinds)' = Txs(kinds)
  BY DEF Txs, TxsOf, TxAt
<1>4. Statuses' = Statuses /\ State' = State
  BY <1>3 DEF Statuses, State
<1> QED
  BY <1>1, <1>2, <1>3, <1>4

LEMMA StatusesFacts ==
    ASSUME NEW f
    PROVE  f \in Statuses <=>
              f \in [DOMAIN f -> SUBSET Failure] /\ DOMAIN f \subseteq Txs(AllKinds)
BY DEF Statuses

LEMMA EmptyFacts ==
    DOMAIN Empty = {} /\ Empty \in Statuses
    /\ Empty \in UNION {[D -> State] : D \in SUBSET Contract}
<1>1. DOMAIN Empty = {} /\ Empty \in [{} -> SUBSET Failure] /\ Empty \in [{} -> State]
  BY DEF Empty
<1> QED
  BY <1>1 DEF Statuses

\* A status is entered in a map or in a batch,
LEMMA UpdateFacts ==
    ASSUME NEW f, NEW k, NEW v
    PROVE  /\ DOMAIN Update(f, k, v) = DOMAIN f \cup {k}
           /\ Update(f, k, v)[k] = v
           /\ \A x \in DOMAIN f : x # k => Update(f, k, v)[x] = f[x]
           /\ f \in Statuses /\ k \in Txs(AllKinds) /\ v \in SUBSET Failure
                => Update(f, k, v) \in Statuses
<1>1. /\ DOMAIN Update(f, k, v) = DOMAIN f \cup {k}
      /\ Update(f, k, v)[k] = v
      /\ \A x \in DOMAIN f : x # k => Update(f, k, v)[x] = f[x]
  BY DEF Update
<1>2. ASSUME f \in Statuses, k \in Txs(AllKinds), v \in SUBSET Failure
      PROVE  Update(f, k, v) \in Statuses
  <2>1. f \in [DOMAIN f -> SUBSET Failure] /\ DOMAIN f \subseteq Txs(AllKinds)
    BY <1>2, StatusesFacts
  <2>2. Update(f, k, v) \in [DOMAIN f \cup {k} -> SUBSET Failure]
    BY <1>2, <2>1 DEF Update
  <2> QED
    BY <1>1, <1>2, <2>1, <2>2, StatusesFacts
<1> QED
  BY <1>1, <1>2

\* and a batch is written, or a cache looked at before the database.
LEMMA MergeFacts ==
    ASSUME NEW f, NEW g
    PROVE  /\ DOMAIN Merge(f, g) = DOMAIN f \cup DOMAIN g
           /\ \A x \in DOMAIN f : Merge(f, g)[x] = f[x]
           /\ \A x \in DOMAIN g : x \notin DOMAIN f => Merge(f, g)[x] = g[x]
           /\ f \in Statuses /\ g \in Statuses => Merge(f, g) \in Statuses
<1>1. /\ DOMAIN Merge(f, g) = DOMAIN f \cup DOMAIN g
      /\ \A x \in DOMAIN f : Merge(f, g)[x] = f[x]
      /\ \A x \in DOMAIN g : x \notin DOMAIN f => Merge(f, g)[x] = g[x]
  BY DEF Merge
<1>2. ASSUME f \in Statuses, g \in Statuses
      PROVE  Merge(f, g) \in Statuses
  <2>1. /\ f \in [DOMAIN f -> SUBSET Failure] /\ DOMAIN f \subseteq Txs(AllKinds)
        /\ g \in [DOMAIN g -> SUBSET Failure] /\ DOMAIN g \subseteq Txs(AllKinds)
    BY <1>2, StatusesFacts
  <2>2. Merge(f, g) \in [DOMAIN f \cup DOMAIN g -> SUBSET Failure]
    BY <2>1 DEF Merge
  <2> QED
    BY <1>1, <2>1, <2>2, StatusesFacts
<1> QED
  BY <1>1, <1>2

\* The next transaction of a block is one of it.
LEMMA FirstOfFacts ==
    ASSUME chain \in Seq(Seq(Tx)), NEW kinds, NEW txs, txs \subseteq Txs(kinds), txs # {}
    PROVE  FirstOf(txs) \in txs
<1>1. \A t \in txs : t[2] \in Nat
  <2> SUFFICES ASSUME NEW t \in txs PROVE t[2] \in Nat
    OBVIOUS
  <2>1. PICK n \in DOMAIN chain : t \in TxsOf(n, kinds)
    BY DEF Txs
  <2>2. t[2] \in DOMAIN chain[n] /\ chain[n] \in Seq(Tx)
    BY <2>1 DEF TxsOf
  <2> QED
    BY <2>2
<1> DEFINE T == {t[2] : t \in txs}
<1>2. T \subseteq Nat /\ T # {}
  BY <1>1
<1>3. PICK x \in T : \A y \in T : x <= y
  BY <1>2, NatMin, Zenon
<1>4. PICK t \in txs : x = t[2]
  OBVIOUS
<1>5. \A u \in txs : t[2] <= u[2]
  BY <1>3, <1>4
<1> QED
  BY <1>5, Zenon DEF FirstOf

\* A status in the cache: the keys and the map.
LEMMA AddValueFacts ==
    ASSUME NEW t, NEW s, cache' = AddValue(cache, t, s)
    PROVE  /\ cache'.keys = cache.keys \cup {t}
           /\ DOMAIN cache'.map = DOMAIN cache.map \cup {t}
           /\ \A x \in DOMAIN cache.map : cache'.map[x] = cache.map[x]
           /\ t \notin DOMAIN cache.map => cache'.map[t] = s
           /\ /\ cache \in [map : Statuses, keys : SUBSET Txs(AllKinds)]
              /\ t \in Txs(AllKinds) /\ s \in SUBSET Failure
              => cache' \in [map : Statuses, keys : SUBSET Txs(AllKinds)]
<1> DEFINE u == Update(Empty, t, s)
<1>1. cache' = [map |-> Merge(cache.map, u), keys |-> cache.keys \cup {t}]
  BY DEF AddValue
<1>2. DOMAIN u = {t} /\ u[t] = s
  <2>1. DOMAIN u = DOMAIN Empty \cup {t} /\ u[t] = s
    BY DEF Update
  <2> QED
    BY <2>1, EmptyFacts
<1>3. t \in Txs(AllKinds) /\ s \in SUBSET Failure => u \in Statuses
  BY UpdateFacts, EmptyFacts
<1> HIDE DEF u
<1>4. /\ DOMAIN cache'.map = DOMAIN cache.map \cup {t}
      /\ \A x \in DOMAIN cache.map : cache'.map[x] = cache.map[x]
      /\ t \notin DOMAIN cache.map => cache'.map[t] = s
  <2> DEFINE m == Merge(cache.map, u)
  <2>1. cache'.map = m
    BY <1>1
  <2>2. /\ DOMAIN m = DOMAIN cache.map \cup DOMAIN u
        /\ \A x \in DOMAIN cache.map : m[x] = cache.map[x]
        /\ \A x \in DOMAIN u : x \notin DOMAIN cache.map => m[x] = u[x]
    BY MergeFacts, Zenon
  <2> HIDE DEF m
  <2> QED
    BY <1>2, <2>1, <2>2
<1>5. ASSUME cache \in [map : Statuses, keys : SUBSET Txs(AllKinds)],
             t \in Txs(AllKinds), s \in SUBSET Failure
      PROVE  cache' \in [map : Statuses, keys : SUBSET Txs(AllKinds)]
  <2>1. Merge(cache.map, u) \in Statuses
    BY <1>3, <1>5, MergeFacts
  <2> QED
    BY <1>1, <1>5, <2>1
<1> QED
  BY <1>1, <1>4, <1>5

(***************************************************************************)
(* Types.                                                                  *)
(***************************************************************************)

\* The first block of a queue is taken from it.
LEMMA TailFacts ==
    ASSUME NEW S, NEW q \in Seq(S), q # <<>>
    PROVE  /\ Head(q) \in S /\ Tail(q) \in Seq(S) /\ Len(q) \in Nat \ {0}
           /\ Len(Tail(q)) = Len(q) - 1 /\ Head(q) = q[1]
           /\ \A i \in 1..(Len(q) - 1) : Tail(q)[i] = q[i + 1]
OBVIOUS

LEMMA AppendFacts ==
    ASSUME NEW S, NEW q \in Seq(S), NEW x \in S
    PROVE  /\ Append(q, x) \in Seq(S) /\ Len(q) \in Nat
           /\ Len(Append(q, x)) = Len(q) + 1
           /\ \A i \in 1..Len(q) : Append(q, x)[i] = q[i]
           /\ Append(q, x)[Len(q) + 1] = x
OBVIOUS

\* The values of the workers.
MainType ==
    [queue : Seq(1..Len(chain)), at : 0..Len(chain),
     todo : SUBSET Txs({"delegate"}), batch : Statuses, init : Nat]

Batches == UNION {[D -> State] : D \in SUBSET Contract}

ScriptType ==
    [queue : Seq(1..Len(chain)), at : 0..Len(chain),
     todo : SUBSET Txs(ScriptKinds), batch : Batches, init : Nat,
     saving : {<<>>} \cup {<<e>> : e \in SUBSET Failure}]

DbType ==
    [mainBlock : 0..Len(chain), scriptBlock : 0..Len(chain),
     status : Statuses, v8 : [Contract -> State]]

CacheType == [map : Statuses, keys : SUBSET Txs(AllKinds)]

LEMMA StoreTypes ==
    /\ StoreTypeOK <=> db \in DbType /\ cache \in CacheType
    /\ StoreTypeOK' <=> db' \in DbType' /\ cache' \in CacheType'
    /\ UNCHANGED chain => DbType' = DbType /\ CacheType' = CacheType
<1>1. /\ StoreTypeOK <=> db \in DbType /\ cache \in CacheType
      /\ StoreTypeOK' <=> db' \in DbType' /\ cache' \in CacheType'
  BY Zenon DEF StoreTypeOK, DbType, CacheType
<1>2. UNCHANGED chain => DbType' = DbType /\ CacheType' = CacheType
  <2> SUFFICES ASSUME UNCHANGED chain
               PROVE  DbType' = DbType /\ CacheType' = CacheType
    OBVIOUS
  <2>1. /\ Txs(AllKinds)' = Txs(AllKinds)
        /\ Statuses' = Statuses /\ State' = State
    BY SameChain
  <2> QED
    BY <2>1 DEF DbType, CacheType
<1> QED
  BY <1>1, <1>2

LEMMA WorkerTypes ==
    /\ MainTypeOK <=> main \in MainType /\ Len(main.queue) <= MainCapacity
    /\ ScriptTypeOK <=> script \in ScriptType /\ Len(script.queue) <= ScriptCapacity
    /\ MainTypeOK' <=> main' \in MainType' /\ Len(main'.queue) <= MainCapacity
    /\ ScriptTypeOK' <=> script' \in ScriptType' /\ Len(script'.queue) <= ScriptCapacity
    /\ UNCHANGED chain => MainType' = MainType /\ ScriptType' = ScriptType
<1>1. /\ MainTypeOK <=> main \in MainType /\ Len(main.queue) <= MainCapacity
      /\ MainTypeOK' <=> main' \in MainType' /\ Len(main'.queue) <= MainCapacity
  BY Zenon DEF MainTypeOK, MainType
<1>2. /\ ScriptTypeOK <=> script \in ScriptType /\ Len(script.queue) <= ScriptCapacity
      /\ ScriptTypeOK' <=> script' \in ScriptType' /\ Len(script'.queue) <= ScriptCapacity
  BY Zenon DEF ScriptTypeOK, ScriptType, Batches
<1>3. UNCHANGED chain => MainType' = MainType /\ ScriptType' = ScriptType
  <2> SUFFICES ASSUME UNCHANGED chain
               PROVE  MainType' = MainType /\ ScriptType' = ScriptType
    OBVIOUS
  <2>1. /\ Txs({"delegate"})' = Txs({"delegate"}) /\ Txs(ScriptKinds)' = Txs(ScriptKinds)
        /\ Statuses' = Statuses /\ State' = State
    BY SameChain
  <2>2. Batches' = Batches
    BY <2>1 DEF Batches
  <2> QED
    BY <2>1, <2>2 DEF MainType, ScriptType
<1> QED
  BY <1>1, <1>2, <1>3

\* A worker that was just made.
LEMMA MadeTypes ==
    ASSUME chain \in Seq(Seq(Tx)), NEW n \in Nat
    PROVE  /\ MainMade(n) \in MainType /\ Len(MainMade(n).queue) <= MainCapacity
           /\ ScriptMade(n) \in ScriptType /\ Len(ScriptMade(n).queue) <= ScriptCapacity
<1>1. Len(chain) \in Nat /\ <<>> \in Seq(1..Len(chain)) /\ Len(<<>>) = 0
  OBVIOUS
<1>2. Empty \in Batches /\ Empty \in Statuses
  BY EmptyFacts DEF Batches
<1> QED
  BY <1>1, <1>2, TxStatusAssumption DEF MainMade, ScriptMade, MainType, ScriptType

LEMMA TsInitTypes == TsInit => TsTypeOK
<1> SUFFICES ASSUME TsInit PROVE TsTypeOK
  OBVIOUS
<1>1. chain \in Seq(Seq(Tx)) /\ Len(chain) \in Nat
  BY TxStatusAssumption DEF TsInit
<1>2. FeedTypeOK
  BY <1>1 DEF TsInit, FeedTypeOK
<1>3. MainTypeOK /\ ScriptTypeOK
  BY <1>1, MadeTypes, WorkerTypes DEF TsInit
<1>4. StoreTypeOK
  BY <1>1, EmptyFacts DEF TsInit, StoreTypeOK, NoCache, State
<1> QED
  BY <1>1, <1>2, <1>3, <1>4 DEF TsInit, TsTypeOK

\* A step of the synchronising thread.
LEMMA FeedTypes ==
    ASSUME TsTypeOK, Feed
    PROVE  TsTypeOK'
<1>0. /\ chain \in Seq(Seq(Tx)) /\ Len(chain) \in Nat
      /\ FeedTypeOK /\ MainTypeOK /\ ScriptTypeOK /\ StoreTypeOK
      /\ UNCHANGED <<chain, db, cache, evicted, written, faults, crashes>>
  BY DEF TsTypeOK, Feed, FeedMain, FeedScript
<1>a. feed.block \in Nat /\ feed.block <= Len(chain)
  BY <1>0 DEF FeedTypeOK
<1>b. StoreTypeOK'
  BY <1>0, SameChain DEF StoreTypeOK
<1>1. CASE FeedMain
  <2>1. FeedTypeOK' /\ UNCHANGED script
    BY <1>0, <1>1 DEF FeedMain, FeedTypeOK
  <2>2. ScriptTypeOK'
    BY <1>0, <2>1, SameChain DEF ScriptTypeOK
  <2>3. MainTypeOK'
    <3>1. CASE UNCHANGED main
      BY <1>0, <3>1, SameChain DEF MainTypeOK
    <3>2. CASE /\ Len(main.queue) < MainCapacity
               /\ main' = [main EXCEPT !.queue = Append(@, feed.block + 1)]
      <4>1. feed.block + 1 \in 1..Len(chain)
        BY <1>a, <1>0, <1>1 DEF FeedMain
      <4>2. main.queue \in Seq(1..Len(chain))
        BY <1>0 DEF MainTypeOK
      <4>3. /\ Append(main.queue, feed.block + 1) \in Seq(1..Len(chain))
            /\ Len(Append(main.queue, feed.block + 1)) <= MainCapacity
        BY <3>2, <4>1, <4>2, AppendFacts, TxStatusAssumption
      <4> QED
        BY <1>0, <3>2, <4>3, SameChain DEF MainTypeOK
    <3> QED
      BY <1>1, <3>1, <3>2 DEF FeedMain, HasRoom
  <2> QED
    BY <1>0, <1>b, <2>1, <2>2, <2>3 DEF TsTypeOK
<1>2. CASE FeedScript
  <2>1. UNCHANGED main /\ feed' = [block |-> feed.block + 1, toMain |-> TRUE]
        /\ feed.block < Len(chain)
    BY <1>0, <1>2 DEF FeedScript, FeedTypeOK
  <2>2. MainTypeOK' /\ FeedTypeOK'
    BY <1>0, <1>a, <2>1, SameChain DEF MainTypeOK, FeedTypeOK
  <2>3. ScriptTypeOK'
    <3>1. CASE UNCHANGED script
      BY <1>0, <3>1, SameChain DEF ScriptTypeOK
    <3>2. CASE /\ Len(script.queue) < ScriptCapacity
               /\ script' = [script EXCEPT !.queue = Append(@, feed.block + 1)]
      <4>1. feed.block + 1 \in 1..Len(chain)
        BY <1>a, <1>0, <2>1
      <4>2. script.queue \in Seq(1..Len(chain))
        BY <1>0 DEF ScriptTypeOK
      <4>3. /\ Append(script.queue, feed.block + 1) \in Seq(1..Len(chain))
            /\ Len(Append(script.queue, feed.block + 1)) <= ScriptCapacity
        BY <3>2, <4>1, <4>2, AppendFacts, TxStatusAssumption
      <4> QED
        BY <1>0, <3>2, <4>3, SameChain DEF ScriptTypeOK
    <3> QED
      BY <1>2, <3>1, <3>2 DEF FeedScript, HasRoom
  <2> QED
    BY <1>0, <1>b, <2>2, <2>3 DEF TsTypeOK
<1> QED
  BY <1>1, <1>2 DEF Feed

\* A step of the main worker.
LEMMA MainTypes ==
    ASSUME TsTypeOK, MainWork \/ MainFails
    PROVE  TsTypeOK'
<1>0. /\ chain \in Seq(Seq(Tx)) /\ Len(chain) \in Nat /\ DOMAIN chain = 1..Len(chain)
      /\ FeedTypeOK /\ MainTypeOK /\ ScriptTypeOK /\ StoreTypeOK
      /\ UNCHANGED <<chain, feed, script, crashes>>
  BY DEF TsTypeOK, MainWork, MainBegin, MainStatus, MainSave, MainEvict, MainFails
<1>a. /\ main \in MainType /\ Len(main.queue) <= MainCapacity
      /\ main.queue \in Seq(1..Len(chain)) /\ main.batch \in Statuses
      /\ main.todo \subseteq Txs({"delegate"}) /\ main.at \in 0..Len(chain)
      /\ db \in DbType /\ cache \in CacheType
  BY <1>0, WorkerTypes, StoreTypes DEF MainType
<1>b. FeedTypeOK' /\ ScriptTypeOK'
  BY <1>0, WorkerTypes DEF FeedTypeOK
<1>c. /\ main' \in MainType /\ Len(main'.queue) <= MainCapacity => MainTypeOK'
      /\ db' \in DbType /\ cache' \in CacheType => StoreTypeOK'
  BY <1>0, WorkerTypes, StoreTypes
<1>e. /\ Empty \in Statuses /\ 0 \in 0..Len(chain)
      /\ {} \in SUBSET Txs({"delegate"})
  BY <1>0, EmptyFacts
<1>d. evicted \subseteq Int /\ faults \in Nat
      /\ written \in [main : SUBSET DOMAIN chain, script : SUBSET DOMAIN chain]
  BY DEF TsTypeOK
<1>1. CASE MainBegin
  <2> DEFINE n == Head(main.queue)
             at == IF Fits(n, db.mainBlock) THEN n ELSE 0
             todo == TxsOf(n, {"delegate"})
  <2>1. /\ main' = [main EXCEPT !.queue = Tail(@), !.at = at, !.todo = todo]
        /\ main.queue # <<>>
        /\ UNCHANGED <<db, cache, evicted, written, faults>>
    BY <1>1 DEF MainBegin
  <2>2. n \in 1..Len(chain) /\ Tail(main.queue) \in Seq(1..Len(chain))
        /\ Len(Tail(main.queue)) <= MainCapacity
    <3>1. /\ n \in 1..Len(chain) /\ Tail(main.queue) \in Seq(1..Len(chain))
          /\ Len(Tail(main.queue)) = Len(main.queue) - 1 /\ Len(main.queue) \in Nat
      <4> DEFINE q == main.queue
                 S == 1..Len(chain)
      <4>1. q \in Seq(S) /\ q # <<>>
        BY <1>a, <2>1
      <4> HIDE DEF q, S
      <4>2. /\ Head(q) \in S /\ Tail(q) \in Seq(S)
            /\ Len(Tail(q)) = Len(q) - 1 /\ Len(q) \in Nat
        BY <4>1
      <4> QED
        BY <4>2 DEF q, S
    <3> QED
      BY <1>a, <3>1, TxStatusAssumption
  <2>3. todo \subseteq Txs({"delegate"})
    BY <1>0, <2>2 DEF Txs
  <2>4. at \in 0..Len(chain)
    BY <1>0, <2>2
  <2> HIDE DEF n, at, todo
  <2>5. main' \in MainType /\ Len(main'.queue) <= MainCapacity
    BY <1>a, <2>1, <2>2, <2>3, <2>4 DEF MainType
  <2> QED
    BY <1>0, <1>a, <1>b, <1>c, <1>d, <2>1, <2>5 DEF TsTypeOK
<1>2. CASE MainStatus
  <2> DEFINE t == FirstOf(main.todo)
  <2>1. /\ cache' = AddValue(cache, t, TxAt(t).errors) /\ main.todo # {}
        /\ main' = [main EXCEPT !.todo = @ \ {t}, !.batch = Update(@, t, TxAt(t).errors)]
        /\ UNCHANGED <<db, evicted, written, faults>>
    BY <1>2 DEF MainStatus
  <2>2. t \in Txs({"delegate"}) /\ t \in Txs(AllKinds)
    BY <1>0, <1>a, <2>1, FirstOfFacts, KindFacts
  <2>3. TxAt(t).errors \in SUBSET Failure
    <3>1. TxAt(t) \in Tx
      BY <1>0, <2>2, TxsFacts
    <3> QED
      BY <3>1 DEF Tx
  <2>4. Update(main.batch, t, TxAt(t).errors) \in Statuses
    BY <1>a, <2>2, <2>3, UpdateFacts
  <2>5. cache' \in CacheType
    BY <1>a, <2>1, <2>2, <2>3, AddValueFacts DEF CacheType
  <2> HIDE DEF t
  <2>6. main' \in MainType /\ Len(main'.queue) <= MainCapacity
    BY <1>a, <2>1, <2>4 DEF MainType
  <2> QED
    BY <1>0, <1>a, <1>b, <1>c, <1>d, <2>1, <2>5, <2>6 DEF TsTypeOK
<1>3. CASE MainSave
  <2>1. /\ db' = [db EXCEPT !.status = Merge(main.batch, @), !.mainBlock = main.at]
        /\ written' = [written EXCEPT !.main = @ \cup {main.at}] /\ main.at # 0
        /\ UNCHANGED <<main, cache, evicted, faults>>
    BY <1>3 DEF MainSave, Saved
  <2>2. Merge(main.batch, db.status) \in Statuses
    BY <1>a, MergeFacts DEF DbType
  <2>3. db' \in DbType
    BY <1>a, <2>1, <2>2 DEF DbType
  <2>4. written' \in [main : SUBSET DOMAIN chain, script : SUBSET DOMAIN chain]
    <3>1. main.at \in DOMAIN chain
      BY <1>0, <1>a, <2>1
    <3> QED
      BY <1>d, <2>1, <3>1
  <2> QED
    BY <1>0, <1>a, <1>b, <1>c, <1>d, <2>1, <2>3, <2>4 DEF TsTypeOK
<1>4. CASE MainEvict
  <2>1. /\ cache' = RemoveBlock(cache, main.at - Keep)
        /\ evicted' = evicted \cup {main.at - Keep}
        /\ main' = [main EXCEPT !.at = 0, !.todo = {}, !.batch = Empty]
        /\ UNCHANGED <<db, written, faults>>
    BY <1>4 DEF MainEvict, Outdated
  <2>2. main' \in MainType /\ Len(main'.queue) <= MainCapacity
    <3>1. main'.queue = main.queue
      BY <1>a, <2>1 DEF MainType
    <3>2. main' \in MainType
      BY <1>a, <1>e, <2>1 DEF MainType
    <3> QED
      BY <1>a, <3>1, <3>2
  <2>3. evicted' \subseteq Int
    BY <1>0, <1>a, <1>d, <2>1, TxStatusAssumption
  <2>4. cache' \in CacheType
    <3> DEFINE gone == {t \in cache.keys : t[1] = main.at - Keep}
               map == [t \in DOMAIN cache.map \ gone |-> cache.map[t]]
    <3>1. cache' = [map |-> map, keys |-> cache.keys \ gone]
      BY <2>1 DEF RemoveBlock
    <3>2. cache.map \in [DOMAIN cache.map -> SUBSET Failure]
          /\ DOMAIN cache.map \subseteq Txs(AllKinds)
      BY <1>a, StatusesFacts DEF CacheType
    <3>3. map \in [DOMAIN map -> SUBSET Failure] /\ DOMAIN map \subseteq Txs(AllKinds)
      BY <3>2
    <3> HIDE DEF map
    <3>4. map \in Statuses
      BY <3>3, StatusesFacts
    <3> QED
      BY <1>a, <3>1, <3>4 DEF CacheType
  <2> QED
    BY <1>0, <1>a, <1>b, <1>c, <1>d, <2>1, <2>2, <2>3, <2>4 DEF TsTypeOK
<1>5. CASE MainFails
  <2>1. /\ main' = [main EXCEPT !.at = 0, !.batch = Empty] /\ faults' = faults + 1
        /\ UNCHANGED <<db, cache, evicted, written>>
    BY <1>5 DEF MainFails
  <2>2. main' \in MainType /\ Len(main'.queue) <= MainCapacity
    <3>1. main'.queue = main.queue
      BY <1>a, <2>1 DEF MainType
    <3>2. main' \in MainType
      BY <1>a, <1>e, <2>1 DEF MainType
    <3> QED
      BY <1>a, <3>1, <3>2
  <2> QED
    BY <1>0, <1>a, <1>b, <1>c, <1>d, <2>1, <2>2 DEF TsTypeOK
<1> QED
  BY <1>1, <1>2, <1>3, <1>4, <1>5 DEF MainWork

\* The errors and the new state of a transaction.
LEMMA ExecuteFacts ==
    ASSUME TsTypeOK, NEW t \in Txs(ScriptKinds), NEW answer \in SUBSET Failure
    PROVE  /\ Errors(TxAt(t), answer) \in SUBSET Failure
           /\ NewStates(t, Errors(TxAt(t), answer)) \in Batches
           /\ TxAt(t).contract \in Contract
           /\ TxAt(t).kind = "unknown" => Errors(TxAt(t), answer) # {}
<1> DEFINE tx == TxAt(t)
           e == Errors(tx, answer)
           new == [txs |-> Append(db.v8[tx.contract].txs, t), block |-> t[1]]
<1>0. /\ chain \in Seq(Seq(Tx)) /\ Len(chain) \in Nat
      /\ db \in DbType /\ script \in ScriptType
  BY StoreTypes, WorkerTypes DEF TsTypeOK
<1>1. tx \in Tx /\ tx.kind \in ScriptKinds /\ t[1] \in 1..Len(chain)
  BY <1>0, TxsFacts
<1>2. tx.contract \in Contract
  BY <1>1 DEF Tx
<1>3. e \in SUBSET Failure
  <2>1. tx.kind = "compile" \/ tx.kind = "run" \/ tx.kind = "unknown"
    BY <1>1 DEF ScriptKinds
  <2> QED
    BY <2>1 DEF Errors, Failure
<1>e. tx.kind = "unknown" => e # {}
  BY DEF Errors
<1>4. new \in State
  <2>1. db.v8[tx.contract] \in State
    BY <1>0, <1>2 DEF DbType
  <2>2. db.v8[tx.contract].txs \in Seq(Txs(ScriptKinds))
    BY <2>1 DEF State
  <2>3. Append(db.v8[tx.contract].txs, t) \in Seq(Txs(ScriptKinds))
    BY <2>2, AppendFacts
  <2>4. t[1] \in Nat
    BY <1>0, <1>1
  <2> QED
    BY <2>3, <2>4 DEF State
<1>5. script.batch \in Batches
  BY <1>0 DEF ScriptType
<1>6. NewStates(t, e) = script.batch \/ NewStates(t, e) = Update(script.batch, tx.contract, new)
  BY DEF NewStates, FindV8State
<1> HIDE DEF new, tx
<1>7. Update(script.batch, tx.contract, new) \in Batches
  <2> DEFINE f == script.batch
             c == tx.contract
  <2>1. PICK D \in SUBSET Contract : f \in [D -> State]
    BY <1>5 DEF Batches
  <2> HIDE DEF f, c
  <2>2. Update(f, c, new) \in [D \cup {c} -> State]
    BY <1>4, <2>1 DEF Update
  <2>3. D \cup {c} \in SUBSET Contract
    BY <1>2 DEF c
  <2>4. Update(f, c, new) \in Batches
    BY <2>2, <2>3 DEF Batches
  <2> QED
    BY <2>4 DEF f, c
<1> QED
  BY <1>2, <1>3, <1>e, <1>5, <1>6, <1>7 DEF tx

\* A step of the script worker.
LEMMA ScriptTypes ==
    ASSUME TsTypeOK, ScriptOrder, ScriptWork \/ ServerError \/ ScriptFails
    PROVE  TsTypeOK'
<1>0. /\ chain \in Seq(Seq(Tx)) /\ Len(chain) \in Nat /\ DOMAIN chain = 1..Len(chain)
      /\ FeedTypeOK /\ MainTypeOK /\ ScriptTypeOK /\ StoreTypeOK
      /\ UNCHANGED <<chain, feed, main, evicted, crashes>>
  <2>1. UNCHANGED <<chain, feed, main, evicted, crashes>>
    BY DEF ScriptWork, ScriptBegin, ScriptExecute, ServerError, Execute,
       ScriptStatus, ScriptSave, ScriptFails
  <2> QED
    BY <2>1 DEF TsTypeOK
<1>a. /\ script \in ScriptType /\ Len(script.queue) <= ScriptCapacity
      /\ script.queue \in Seq(1..Len(chain)) /\ script.batch \in Batches
      /\ script.todo \subseteq Txs(ScriptKinds) /\ script.at \in 0..Len(chain)
      /\ db \in DbType /\ cache \in CacheType
  BY <1>0, WorkerTypes, StoreTypes DEF ScriptType
<1>b. FeedTypeOK' /\ MainTypeOK'
  BY <1>0, WorkerTypes DEF FeedTypeOK
<1>c. /\ script' \in ScriptType /\ Len(script'.queue) <= ScriptCapacity => ScriptTypeOK'
      /\ db' \in DbType /\ cache' \in CacheType => StoreTypeOK'
  BY <1>0, WorkerTypes, StoreTypes
<1>d. evicted \subseteq Int /\ faults \in Nat
      /\ written \in [main : SUBSET DOMAIN chain, script : SUBSET DOMAIN chain]
  BY DEF TsTypeOK
<1>e. /\ Empty \in Batches /\ 0 \in 0..Len(chain) /\ {} \in SUBSET Txs(ScriptKinds)
  <2>1. Empty \in Batches
    BY EmptyFacts, Zenon DEF Batches
  <2> QED
    BY <1>0, <2>1
<1> DEFINE Savings == {<<>>} \cup {<<e>> : e \in SUBSET Failure}
<1>f. <<>> \in Savings /\ \A e \in SUBSET Failure : <<e>> \in Savings
  OBVIOUS
<1>g. ScriptType = [queue : Seq(1..Len(chain)), at : 0..Len(chain),
                    todo : SUBSET Txs(ScriptKinds), batch : Batches, init : Nat,
                    saving : Savings]
  BY DEF ScriptType
<1> HIDE DEF Savings
<1>h. ASSUME script' \in ScriptType, script'.queue = script.queue \/
                 Len(script'.queue) = Len(script.queue) - 1,
             db' \in DbType, cache' \in CacheType,
             written' \in [main : SUBSET DOMAIN chain, script : SUBSET DOMAIN chain],
             faults' \in Nat
      PROVE  TsTypeOK'
  <2>1. Len(script'.queue) <= ScriptCapacity
    BY <1>a, <1>h, TxStatusAssumption
  <2> QED
    BY <1>0, <1>b, <1>c, <1>d, <1>h, <2>1 DEF TsTypeOK
<1>1. CASE ScriptBegin
  <2> DEFINE n == Head(script.queue)
             at == IF Fits(n, db.scriptBlock) THEN n ELSE 0
             todo == TxsOf(n, ScriptKinds)
  <2>1. /\ script' = [script EXCEPT !.queue = Tail(@), !.at = at, !.todo = todo]
        /\ script.queue # <<>>
        /\ UNCHANGED <<db, cache, written, faults>>
    BY <1>1 DEF ScriptBegin
  <2>2. n \in 1..Len(chain) /\ Tail(script.queue) \in Seq(1..Len(chain))
        /\ Len(Tail(script.queue)) = Len(script.queue) - 1
    <3> DEFINE q == script.queue
               S == 1..Len(chain)
    <3>1. q \in Seq(S) /\ q # <<>>
      BY <1>a, <2>1
    <3> HIDE DEF q, S
    <3>2. /\ Head(q) \in S /\ Tail(q) \in Seq(S)
          /\ Len(Tail(q)) = Len(q) - 1
      BY <3>1
    <3> QED
      BY <3>2 DEF q, S
  <2>3. todo \subseteq Txs(ScriptKinds)
    BY <1>0, <2>2 DEF Txs
  <2>4. at \in 0..Len(chain)
    BY <1>0, <2>2
  <2> HIDE DEF n, at, todo
  <2>5. script' \in ScriptType /\ script'.queue = Tail(script.queue)
    BY <1>a, <1>g, <2>1, <2>2, <2>3, <2>4
  <2> QED
    BY <1>a, <1>d, <1>h, <2>1, <2>2, <2>5
<1>2. ASSUME NEW answer \in SUBSET Failure, Execute(answer), faults' \in Nat
      PROVE  TsTypeOK'
  <2> DEFINE t == FirstOf(script.todo)
             e == Errors(TxAt(t), answer)
             new == NewStates(t, e)
  <2>1. t \in Txs(ScriptKinds) /\ t \in Txs(AllKinds)
    BY <1>0, <1>2, <1>a, FirstOfFacts, KindFacts DEF Execute
  <2>2. e \in SUBSET Failure /\ new \in Batches
    BY <1>2, <2>1, ExecuteFacts
  <2>3. UNCHANGED <<db, written>>
    BY <1>2 DEF Execute
  <2>4. \/ script' = [script EXCEPT !.todo = @ \ {t}] /\ UNCHANGED cache
        \/ /\ script' = [script EXCEPT !.saving = <<e>>, !.batch = new]
           /\ cache' = AddValue(cache, t, e)
    BY <1>2 DEF Execute
  <2> HIDE DEF t, e, new
  <2>5. script' \in ScriptType /\ script'.queue = script.queue
    BY <1>a, <1>f, <1>g, <2>2, <2>4
  <2>6. cache' \in CacheType
    BY <1>a, <2>1, <2>2, <2>4, AddValueFacts DEF CacheType
  <2> QED
    BY <1>a, <1>d, <1>h, <1>2, <2>3, <2>5, <2>6
<1>3. CASE ScriptExecute
  <2>1. TxAt(FirstOf(script.todo)).errors \in SUBSET Failure
    <3>1. FirstOf(script.todo) \in Txs(ScriptKinds)
      BY <1>0, <1>3, <1>a, FirstOfFacts DEF ScriptExecute
    <3>2. TxAt(FirstOf(script.todo)) \in Tx
      BY <1>0, <3>1, TxsFacts
    <3> QED
      BY <3>2 DEF Tx
  <2> QED
    BY <1>2, <1>3, <1>d, <2>1 DEF ScriptExecute
<1>4. CASE ServerError
  BY <1>2, <1>4, <1>d DEF ServerError, Failure
<1>5. CASE ScriptStatus
  <2> DEFINE t == FirstOf(script.todo)
  <2>1. /\ db' = [db EXCEPT !.status = Update(@, t, Head(script.saving))]
        /\ script' = [script EXCEPT !.saving = <<>>, !.todo = @ \ {t}]
        /\ script.saving # <<>>
        /\ UNCHANGED <<cache, written, faults>>
    BY <1>5 DEF ScriptStatus
  <2>2. t \in Txs(AllKinds)
    BY <1>0, <1>a, <2>1, FirstOfFacts, KindFacts DEF ScriptOrder
  <2>3. Head(script.saving) \in SUBSET Failure
    <3>1. script.saving \in Savings
      BY <1>a, <1>g
    <3>2. PICK e \in SUBSET Failure : script.saving = <<e>>
      BY <2>1, <3>1 DEF Savings
    <3> QED
      BY <3>2
  <2>4. Update(db.status, t, Head(script.saving)) \in Statuses
    BY <1>a, <2>2, <2>3, UpdateFacts DEF DbType
  <2> HIDE DEF t
  <2>5. db' \in DbType
    BY <1>a, <2>1, <2>4 DEF DbType
  <2>6. script' \in ScriptType /\ script'.queue = script.queue
    BY <1>a, <1>f, <1>g, <2>1
  <2> QED
    BY <1>a, <1>d, <1>h, <2>1, <2>5, <2>6
<1>6. CASE ScriptSave
  <2>1. /\ db' = [db EXCEPT !.v8 = Merge(script.batch, @), !.scriptBlock = script.at]
        /\ written' = [written EXCEPT !.script = @ \cup {script.at}]
        /\ script' = [script EXCEPT !.at = 0, !.batch = Empty] /\ script.at # 0
        /\ UNCHANGED <<cache, faults>>
    BY <1>6 DEF ScriptSave
  <2>2. Merge(script.batch, db.v8) \in [Contract -> State]
    <3>1. db.v8 \in [Contract -> State]
      BY <1>a DEF DbType
    <3>2. PICK D \in SUBSET Contract : script.batch \in [D -> State]
      BY <1>a DEF Batches
    <3> DEFINE f == script.batch
               g == db.v8
    <3> HIDE DEF f, g
    <3>3. Merge(f, g) \in [D \cup Contract -> State]
      BY <3>1, <3>2 DEF Merge, f, g
    <3>4. D \cup Contract = Contract
      OBVIOUS
    <3> QED
      BY <3>3, <3>4 DEF f, g
  <2>3. db' \in DbType
    BY <1>a, <2>1, <2>2 DEF DbType
  <2>4. written' \in [main : SUBSET DOMAIN chain, script : SUBSET DOMAIN chain]
    <3>1. script.at \in DOMAIN chain
      BY <1>0, <1>a, <2>1
    <3> QED
      BY <1>d, <2>1, <3>1
  <2>5. script' \in ScriptType /\ script'.queue = script.queue
    BY <1>a, <1>e, <1>g, <2>1
  <2> QED
    BY <1>a, <1>d, <1>h, <2>1, <2>3, <2>4, <2>5
<1>7. CASE ScriptFails
  <2>1. /\ script' = [script EXCEPT !.at = 0, !.todo = {}, !.batch = Empty, !.saving = <<>>]
        /\ faults' = faults + 1
        /\ UNCHANGED <<db, cache, written>>
    BY <1>7 DEF ScriptFails
  <2>2. script' \in ScriptType /\ script'.queue = script.queue
    BY <1>a, <1>e, <1>f, <1>g, <2>1
  <2> QED
    BY <1>a, <1>d, <1>h, <2>1, <2>2
<1> QED
  BY <1>1, <1>3, <1>4, <1>5, <1>6, <1>7 DEF ScriptWork

\* A restart.
LEMMA RestartFacts ==
    ASSUME TsTypeOK, Restart
    PROVE  /\ TsTypeOK'
           /\ feed'.toMain = TRUE
<1>0. /\ chain \in Seq(Seq(Tx)) /\ Len(chain) \in Nat /\ StoreTypeOK
      /\ UNCHANGED <<chain, db, written, faults>> /\ crashes \in Nat
      /\ crashes' = crashes + 1 /\ evicted' = {}
      /\ cache' = [map |-> Empty, keys |-> {}]
      /\ main' = MainMade(db.mainBlock) /\ script' = ScriptMade(db.scriptBlock)
  BY DEF TsTypeOK, Restart, NoCache
<1>1. /\ db \in DbType /\ db.mainBlock \in 0..Len(chain) /\ db.scriptBlock \in 0..Len(chain)
      /\ db.mainBlock \in Nat /\ db.scriptBlock \in Nat
  BY <1>0, StoreTypes DEF DbType
<1>2. PICK b \in {ReplayFrom, Max({0, ReplayFrom - 1})} :
          feed' = [block |-> b, toMain |-> TRUE]
  BY DEF Restart
<1>3. b \in 0..Len(chain)
  <2>1. ReplayFrom \in 0..Len(chain) /\ ReplayFrom \in Int
    <3>1. ReplayFrom = IF db.mainBlock <= db.scriptBlock THEN db.mainBlock ELSE db.scriptBlock
      BY <1>1, MinOfTwo DEF ReplayFrom
    <3> QED
      BY <1>0, <1>1, <3>1
  <2>2. Max({0, ReplayFrom - 1}) = IF 0 >= ReplayFrom - 1 THEN 0 ELSE ReplayFrom - 1
    <3> DEFINE x == ReplayFrom - 1
    <3>1. x \in Int
      BY <2>1
    <3> HIDE DEF x
    <3>2. Max({0, x}) = IF 0 >= x THEN 0 ELSE x
      BY <3>1, MaxOfTwo
    <3> QED
      BY <3>2 DEF x
  <2> QED
    BY <1>0, <1>2, <2>1, <2>2
<1>4. FeedTypeOK' /\ feed'.toMain = TRUE
  BY <1>0, <1>2, <1>3 DEF FeedTypeOK
<1>5. MainTypeOK' /\ ScriptTypeOK'
  BY <1>0, <1>1, MadeTypes, WorkerTypes
<1>6. StoreTypeOK'
  <2>1. cache' \in CacheType
    BY <1>0, EmptyFacts DEF CacheType
  <2> QED
    BY <1>0, <1>1, <2>1, StoreTypes
<1> QED
  BY <1>0, <1>4, <1>5, <1>6 DEF TsTypeOK

LEMMA TsNextTypes ==
    ASSUME TsTypeOK, ScriptOrder, [TsNext]_tsVars
    PROVE  TsTypeOK'
<1>1. CASE UNCHANGED tsVars
  <2>1. UNCHANGED <<chain, feed, main, script, db, cache, evicted, written, faults, crashes>>
    BY <1>1 DEF tsVars
  <2>2. FeedTypeOK' /\ StoreTypeOK' /\ MainTypeOK' /\ ScriptTypeOK'
    BY <2>1, WorkerTypes, StoreTypes DEF TsTypeOK, FeedTypeOK
  <2> QED
    BY <2>1, <2>2 DEF TsTypeOK
<1>2. CASE TsNext
  BY <1>2, FeedTypes, MainTypes, ScriptTypes, RestartFacts
     DEF TsNext, Feed, MainWork, ScriptWork
<1> QED
  BY <1>1, <1>2

(***************************************************************************)
(* What each step does to the fields of the workers.                       *)
(***************************************************************************)

Rest(m) == <<m.at, m.todo, m.batch, m.init>>

FeedMainStep ==
    /\ feed.toMain /\ feed.block < Len(chain)
    /\ feed'.block = feed.block /\ feed'.toMain = FALSE
    /\ Rest(main)' = Rest(main)
    /\ \/ feed.block + 1 > main.init /\ main'.queue = Append(main.queue, feed.block + 1)
       \/ feed.block + 1 <= main.init /\ main'.queue = main.queue
    /\ UNCHANGED <<chain, script, db, cache, evicted, written, faults, crashes>>

FeedScriptStep ==
    /\ ~feed.toMain /\ feed'.block = feed.block + 1 /\ feed'.toMain = TRUE
    /\ Rest(script)' = Rest(script) /\ script'.saving = script.saving
    /\ \/ script'.queue = Append(script.queue, feed.block + 1)
       \/ feed.block + 1 <= script.init /\ script'.queue = script.queue
    /\ UNCHANGED <<chain, main, db, cache, evicted, written, faults, crashes>>

MainBeginStep ==
    /\ main.at = 0 /\ main.queue # <<>> /\ main'.queue = Tail(main.queue)
    /\ main'.at = IF Fits(Head(main.queue), db.mainBlock) THEN Head(main.queue) ELSE 0
    /\ main'.todo = TxsOf(Head(main.queue), {"delegate"})
    /\ main'.batch = main.batch /\ main'.init = main.init
    /\ UNCHANGED <<chain, feed, script, db, cache, evicted, written, faults, crashes>>

MainStatusStep(t) ==
    /\ main.at # 0 /\ t \in main.todo
    /\ main'.todo = main.todo \ {t} /\ main'.batch = Update(main.batch, t, TxAt(t).errors)
    /\ cache' = AddValue(cache, t, TxAt(t).errors)
    /\ main'.queue = main.queue /\ main'.at = main.at /\ main'.init = main.init
    /\ UNCHANGED <<chain, feed, script, db, evicted, written, faults, crashes>>

MainSaveStep ==
    /\ main.at # 0 /\ main.todo = {} /\ db.mainBlock # main.at
    /\ db'.status = Merge(main.batch, db.status) /\ db'.mainBlock = main.at
    /\ db'.scriptBlock = db.scriptBlock /\ db'.v8 = db.v8
    /\ written'.main = written.main \cup {main.at} /\ written'.script = written.script
    /\ UNCHANGED <<chain, feed, main, script, cache, evicted, faults, crashes>>

MainEvictStep ==
    /\ main.at # 0 /\ db.mainBlock = main.at
    /\ evicted' = evicted \cup {main.at - Keep}
    /\ cache'.keys = {t \in cache.keys : t[1] # main.at - Keep}
    /\ DOMAIN cache'.map \subseteq DOMAIN cache.map
    /\ \A t \in DOMAIN cache'.map : cache'.map[t] = cache.map[t]
    /\ main'.queue = main.queue /\ main'.at = 0 /\ main'.todo = {} /\ main'.batch = Empty
    /\ main'.init = main.init
    /\ UNCHANGED <<chain, feed, script, db, written, faults, crashes>>

MainFailsStep ==
    /\ main.at # 0 /\ faults' = faults + 1
    /\ main'.queue = main.queue /\ main'.at = 0 /\ main'.todo = main.todo
    /\ main'.batch = Empty /\ main'.init = main.init
    /\ UNCHANGED <<chain, feed, script, db, cache, evicted, written, crashes>>

LEMMA FeedShapes ==
    ASSUME TsTypeOK
    PROVE  (FeedMain => FeedMainStep) /\ (FeedScript => FeedScriptStep)
<1>0. /\ feed \in [block : 0..Len(chain), toMain : BOOLEAN]
      /\ main \in MainType /\ script \in ScriptType
  BY WorkerTypes DEF TsTypeOK, FeedTypeOK
<1>1. ASSUME FeedMain PROVE FeedMainStep
  <2>1. Rest(main)' = Rest(main)
    BY <1>0, <1>1 DEF FeedMain, Rest, MainType
  <2>2. \/ feed.block + 1 > main.init /\ main'.queue = Append(main.queue, feed.block + 1)
        \/ ~(feed.block + 1 > main.init) /\ main'.queue = main.queue
    BY <1>0, <1>1 DEF FeedMain, MainType
  <2>3. feed.block \in Int /\ main.init \in Int
    BY <1>0 DEF MainType
  <2>4. feed'.block = feed.block /\ feed'.toMain = FALSE
    BY <1>0, <1>1 DEF FeedMain
  <2> QED
    BY <1>1, <2>1, <2>2, <2>3, <2>4 DEF FeedMain, FeedMainStep
<1>2. ASSUME FeedScript PROVE FeedScriptStep
  <2>1. Rest(script)' = Rest(script) /\ script'.saving = script.saving
    BY <1>0, <1>2 DEF FeedScript, Rest, ScriptType
  <2>2. \/ script'.queue = Append(script.queue, feed.block + 1)
        \/ feed.block + 1 <= script.init /\ script'.queue = script.queue
    BY <1>0, <1>2 DEF FeedScript, ScriptType
  <2> QED
    BY <1>2, <2>1, <2>2 DEF FeedScript, FeedScriptStep
<1> QED
  BY <1>1, <1>2

LEMMA MainShapes ==
    ASSUME TsTypeOK
    PROVE  /\ MainBegin => MainBeginStep
           /\ MainStatus => MainStatusStep(FirstOf(main.todo))
           /\ MainSave => MainSaveStep
           /\ MainEvict => MainEvictStep
           /\ MainFails => MainFailsStep
<1>0. /\ main \in MainType /\ db \in DbType /\ chain \in Seq(Seq(Tx))
      /\ written \in [main : SUBSET DOMAIN chain, script : SUBSET DOMAIN chain]
      /\ main.todo \subseteq Txs({"delegate"})
  BY WorkerTypes, StoreTypes DEF TsTypeOK, MainType
<1>1. ASSUME MainBegin PROVE MainBeginStep
  BY <1>0, <1>1 DEF MainBegin, MainBeginStep, MainType
<1>2. ASSUME MainStatus PROVE MainStatusStep(FirstOf(main.todo))
  <2>1. FirstOf(main.todo) \in main.todo
    BY <1>0, <1>2, FirstOfFacts DEF MainStatus
  <2> QED
    BY <1>0, <1>2, <2>1 DEF MainStatus, MainStatusStep, MainType
<1>3. ASSUME MainSave PROVE MainSaveStep
  BY <1>0, <1>3 DEF MainSave, MainSaveStep, Saved, DbType
<1>4. ASSUME MainEvict PROVE MainEvictStep
  <2>1. cache'.keys = {t \in cache.keys : t[1] # main.at - Keep}
    BY <1>4 DEF MainEvict, RemoveBlock, Outdated
  <2>2. /\ DOMAIN cache'.map \subseteq DOMAIN cache.map
        /\ \A t \in DOMAIN cache'.map : cache'.map[t] = cache.map[t]
    BY <1>4 DEF MainEvict, RemoveBlock
  <2>3. /\ main'.queue = main.queue /\ main'.at = 0 /\ main'.todo = {}
        /\ main'.batch = Empty /\ main'.init = main.init
    BY <1>0, <1>4 DEF MainEvict, MainType
  <2> QED
    BY <1>4, <2>1, <2>2, <2>3 DEF MainEvict, MainEvictStep, Outdated
<1>5. ASSUME MainFails PROVE MainFailsStep
  BY <1>0, <1>5 DEF MainFails, MainFailsStep, MainType
<1> QED
  BY <1>1, <1>2, <1>3, <1>4, <1>5

ScriptBeginStep ==
    /\ script.at = 0 /\ script.queue # <<>> /\ script'.queue = Tail(script.queue)
    /\ script'.at = IF Fits(Head(script.queue), db.scriptBlock)
                    THEN Head(script.queue) ELSE 0
    /\ script'.todo = TxsOf(Head(script.queue), ScriptKinds)
    /\ script'.batch = script.batch /\ script'.init = script.init
    /\ script'.saving = script.saving
    /\ UNCHANGED <<chain, feed, main, db, cache, evicted, written, faults, crashes>>

\* A transaction on a contract whose state is of this block or a later one.
PassOverStep(t) ==
    /\ script.at # 0 /\ t \in script.todo
    /\ TxAt(t).contract \in Contract /\ db.v8[TxAt(t).contract].block >= script.at

ExecuteStep(t, errors) ==
    /\ script.at # 0 /\ t \in script.todo /\ t = FirstOf(script.todo)
    /\ script.saving = <<>> /\ errors \in SUBSET Failure
    /\ TxAt(t).kind = "unknown" => errors # {}
    /\ cache' = AddValue(cache, t, errors)
    /\ script'.saving = <<errors>> /\ script'.batch = NewStates(t, errors)
    /\ script'.queue = script.queue /\ script'.at = script.at
    /\ script'.todo = script.todo /\ script'.init = script.init
    /\ UNCHANGED <<chain, feed, main, db, evicted, written, crashes>>
    /\ faults' \in Nat /\ faults' >= faults

ScriptStatusStep(t) ==
    /\ script.saving # <<>> /\ t \in script.todo /\ t = FirstOf(script.todo)
    /\ db'.status = Update(db.status, t, Head(script.saving))
    /\ db'.mainBlock = db.mainBlock /\ db'.scriptBlock = db.scriptBlock /\ db'.v8 = db.v8
    /\ script'.saving = <<>> /\ script'.todo = script.todo \ {t}
    /\ script'.queue = script.queue /\ script'.at = script.at
    /\ script'.batch = script.batch /\ script'.init = script.init
    /\ UNCHANGED <<chain, feed, main, cache, evicted, written, faults, crashes>>

ScriptSaveStep ==
    /\ script.at # 0 /\ script.todo = {}
    /\ db'.v8 = Merge(script.batch, db.v8) /\ db'.scriptBlock = script.at
    /\ db'.status = db.status /\ db'.mainBlock = db.mainBlock
    /\ written'.script = written.script \cup {script.at} /\ written'.main = written.main
    /\ script'.at = 0 /\ script'.batch = Empty /\ script'.queue = script.queue
    /\ script'.todo = script.todo /\ script'.init = script.init
    /\ script'.saving = script.saving
    /\ UNCHANGED <<chain, feed, main, cache, evicted, faults, crashes>>

ScriptFailsStep ==
    /\ script.at # 0 /\ faults' = faults + 1
    /\ script'.at = 0 /\ script'.todo = {} /\ script'.batch = Empty
    /\ script'.saving = <<>> /\ script'.queue = script.queue /\ script'.init = script.init
    /\ UNCHANGED <<chain, feed, main, db, cache, evicted, written, crashes>>

RestartStep ==
    /\ feed'.block \in 0..Len(chain) /\ feed'.toMain = TRUE
    /\ main'.queue = <<>> /\ main'.at = 0 /\ main'.todo = {} /\ main'.batch = Empty
    /\ main'.init = db.mainBlock
    /\ script'.queue = <<>> /\ script'.at = 0 /\ script'.todo = {}
    /\ script'.batch = Empty /\ script'.init = db.scriptBlock /\ script'.saving = <<>>
    /\ cache'.keys = {} /\ DOMAIN cache'.map = {} /\ evicted' = {}
    /\ crashes' = crashes + 1
    /\ UNCHANGED <<chain, db, written, faults>>

LEMMA ScriptShapes ==
    ASSUME TsTypeOK, ScriptOrder
    PROVE  /\ ScriptBegin => ScriptBeginStep
           /\ ScriptExecute \/ ServerError =>
                \E t : PassOverStep(t) \/ \E errors : ExecuteStep(t, errors)
           /\ ScriptStatus => \E t : ScriptStatusStep(t)
           /\ ScriptSave => ScriptSaveStep
           /\ ScriptFails => ScriptFailsStep
<1>0. /\ script \in ScriptType /\ db \in DbType /\ chain \in Seq(Seq(Tx))
      /\ written \in [main : SUBSET DOMAIN chain, script : SUBSET DOMAIN chain]
      /\ script.todo \subseteq Txs(ScriptKinds) /\ faults \in Nat
  BY WorkerTypes, StoreTypes DEF TsTypeOK, ScriptType
<1>1. ASSUME ScriptBegin PROVE ScriptBeginStep
  BY <1>0, <1>1 DEF ScriptBegin, ScriptBeginStep, ScriptType
<1>2. ASSUME NEW answer \in SUBSET Failure, Execute(answer), faults' \in Nat,
             faults' >= faults
      PROVE  \E t : PassOverStep(t) \/ \E errors : ExecuteStep(t, errors)
  <2> DEFINE t == FirstOf(script.todo)
             e == Errors(TxAt(t), answer)
             new == NewStates(t, e)
  <2>1. t \in script.todo
    BY <1>0, <1>2, FirstOfFacts DEF Execute
  <2>2. /\ e \in SUBSET Failure /\ TxAt(t).contract \in Contract
        /\ TxAt(t).kind = "unknown" => e # {}
    BY <1>0, <1>2, <2>1, ExecuteFacts
  <2>3. /\ script.at # 0 /\ script.saving = <<>>
        /\ UNCHANGED <<chain, feed, main, db, evicted, written, crashes>>
        /\ \/ db.v8[TxAt(t).contract].block >= script.at
           \/ /\ script' = [script EXCEPT !.saving = <<e>>, !.batch = new]
              /\ cache' = AddValue(cache, t, e)
    BY <1>2 DEF Execute, FindV8State
  <2>4. CASE db.v8[TxAt(t).contract].block >= script.at
    <3>1. PassOverStep(t)
      BY <2>1, <2>2, <2>3, <2>4 DEF PassOverStep
    <3> QED
      BY <3>1
  <2>5. CASE /\ script' = [script EXCEPT !.saving = <<e>>, !.batch = new]
             /\ cache' = AddValue(cache, t, e)
    <3>1. /\ script'.saving = <<e>> /\ script'.batch = new
          /\ script'.queue = script.queue /\ script'.at = script.at
          /\ script'.todo = script.todo /\ script'.init = script.init
      <4> HIDE DEF e, new
      <4> QED
        BY <1>0, <2>5 DEF ScriptType
    <3>2. ExecuteStep(t, e)
      BY <1>2, <2>1, <2>2, <2>3, <2>5, <3>1 DEF ExecuteStep
    <3> QED
      BY <3>2
  <2> QED
    BY <2>3, <2>4, <2>5
<1>3. ASSUME ScriptExecute
      PROVE  \E t : PassOverStep(t) \/ \E errors : ExecuteStep(t, errors)
  <2>1. TxAt(FirstOf(script.todo)).errors \in SUBSET Failure
    <3>1. FirstOf(script.todo) \in Txs(ScriptKinds)
      BY <1>0, <1>3, FirstOfFacts DEF ScriptExecute
    <3>2. TxAt(FirstOf(script.todo)) \in Tx
      BY <1>0, <3>1, TxsFacts
    <3> QED
      BY <3>2 DEF Tx
  <2>2. faults' \in Nat /\ faults' >= faults
    BY <1>0, <1>3 DEF ScriptExecute
  <2> QED
    BY <1>2, <1>3, <2>1, <2>2 DEF ScriptExecute
<1>4. ASSUME ServerError
      PROVE  \E t : PassOverStep(t) \/ \E errors : ExecuteStep(t, errors)
  <2>1. /\ faults' \in Nat /\ faults' >= faults /\ Execute({"server"})
        /\ {"server"} \in SUBSET Failure
    BY <1>0, <1>4 DEF ServerError, Failure
  <2> QED
    BY <1>2, <2>1
<1>5. ASSUME ScriptStatus PROVE \E t : ScriptStatusStep(t)
  <2> DEFINE t == FirstOf(script.todo)
  <2>1. t \in script.todo
    BY <1>0, <1>5, FirstOfFacts DEF ScriptStatus, ScriptOrder
  <2>2. ScriptStatusStep(t)
    BY <1>0, <1>5, <2>1 DEF ScriptStatus, ScriptStatusStep, ScriptType, DbType
  <2> QED
    BY <2>2
<1>6. ASSUME ScriptSave PROVE ScriptSaveStep
  <2>1. /\ db'.v8 = Merge(script.batch, db.v8) /\ db'.scriptBlock = script.at
        /\ db'.status = db.status /\ db'.mainBlock = db.mainBlock
    BY <1>0, <1>6 DEF ScriptSave, DbType
  <2>2. /\ script'.at = 0 /\ script'.batch = Empty /\ script'.queue = script.queue
        /\ script'.todo = script.todo /\ script'.init = script.init
        /\ script'.saving = script.saving
    BY <1>0, <1>6 DEF ScriptSave, ScriptType
  <2> QED
    BY <1>0, <1>6, <2>1, <2>2 DEF ScriptSave, ScriptSaveStep
<1>7. ASSUME ScriptFails PROVE ScriptFailsStep
  BY <1>0, <1>7 DEF ScriptFails, ScriptFailsStep, ScriptType
<1> QED
  BY <1>1, <1>3, <1>4, <1>5, <1>6, <1>7

LEMMA RestartShape ==
    ASSUME TsTypeOK, Restart
    PROVE  RestartStep
<1>1. FeedTypeOK' /\ feed'.toMain = TRUE /\ UNCHANGED chain
  BY RestartFacts DEF TsTypeOK, Restart
<1>2. feed'.block \in 0..Len(chain)
  BY <1>1 DEF FeedTypeOK
<1>3. /\ cache'.keys = {} /\ DOMAIN cache'.map = {} /\ evicted' = {}
      /\ crashes' = crashes + 1 /\ UNCHANGED <<chain, db, written, faults>>
  BY EmptyFacts DEF Restart, NoCache
<1> QED
  BY <1>1, <1>2, <1>3 DEF Restart, RestartStep, MainMade, ScriptMade

MainStep ==
    \/ MainBeginStep \/ MainSaveStep \/ MainEvictStep \/ MainFailsStep
    \/ \E t : MainStatusStep(t)

ScriptStep ==
    \/ ScriptBeginStep \/ ScriptSaveStep \/ ScriptFailsStep
    \/ \E t : ScriptStatusStep(t)
    \/ \E t, errors : ExecuteStep(t, errors)

\* No transaction is passed over: no contract has a state of the block at hand.
LEMMA TsShapes ==
    ASSUME TsTypeOK, ScriptOrder, ScriptStatuses, [TsNext]_tsVars
    PROVE  \/ UNCHANGED tsVars \/ FeedMainStep \/ FeedScriptStep
           \/ MainStep \/ ScriptStep \/ RestartStep
<1>1. ASSUME NEW t, PassOverStep(t) PROVE FALSE
  <2>1. /\ TxAt(t).contract \in Contract
        /\ db.v8[TxAt(t).contract].block >= script.at /\ script.at # 0
    BY <1>1 DEF PassOverStep
  <2>2. db.v8[TxAt(t).contract].block <= db.scriptBlock /\ script.at > db.scriptBlock
    BY <2>1 DEF ScriptStatuses, ScriptOrder
  <2>3. db.v8[TxAt(t).contract].block \in Nat /\ db.scriptBlock \in Nat /\ script.at \in Nat
    BY <2>1, WorkerTypes, StoreTypes DEF TsTypeOK, DbType, ScriptType, State
  <2> QED
    BY <2>1, <2>2, <2>3
<1>2. FeedMain => FeedMainStep
  BY FeedShapes
<1>3. FeedScript => FeedScriptStep
  BY FeedShapes
<1>4. MainBegin \/ MainStatus \/ MainSave \/ MainEvict \/ MainFails => MainStep
  BY MainShapes DEF MainStep
<1>5. ScriptBegin \/ ScriptStatus \/ ScriptSave \/ ScriptFails => ScriptStep
  BY ScriptShapes DEF ScriptStep
<1>6. ScriptExecute \/ ServerError => ScriptStep
  BY <1>1, ScriptShapes DEF ScriptStep
<1>7. Restart => RestartStep
  BY RestartShape
<1> QED
  BY <1>2, <1>3, <1>4, <1>5, <1>6, <1>7 DEF TsNext

(***************************************************************************)
(* The order of the blocks.                                                *)
(***************************************************************************)

LEMMA NumberFacts ==
    ASSUME TsTypeOK
    PROVE  /\ chain \in Seq(Seq(Tx)) /\ Len(chain) \in Nat
           /\ feed.block \in Nat /\ feed.toMain \in BOOLEAN /\ feed.block <= Len(chain)
           /\ main.queue \in Seq(1..Len(chain)) /\ Len(main.queue) \in Nat
           /\ main.at \in Nat /\ main.at <= Len(chain) /\ main.init \in Nat
           /\ script.queue \in Seq(1..Len(chain)) /\ Len(script.queue) \in Nat
           /\ script.at \in Nat /\ script.at <= Len(chain) /\ script.init \in Nat
           /\ Len(script.queue) <= ScriptCapacity
           /\ db.mainBlock \in Nat /\ db.scriptBlock \in Nat
           /\ evicted \subseteq Int /\ Keep \in Nat \ {0} /\ ScriptCapacity \in Nat
           /\ faults \in Nat /\ crashes \in Nat
           /\ main.todo \subseteq Txs({"delegate"}) /\ script.todo \subseteq Txs(ScriptKinds)
<1>1. /\ chain \in Seq(Seq(Tx)) /\ Len(chain) \in Nat
      /\ feed \in [block : 0..Len(chain), toMain : BOOLEAN]
      /\ main \in MainType /\ script \in ScriptType /\ db \in DbType
      /\ Len(script.queue) <= ScriptCapacity
      /\ evicted \subseteq Int /\ faults \in Nat /\ crashes \in Nat
  BY WorkerTypes, StoreTypes DEF TsTypeOK, FeedTypeOK
<1>2. feed.block \in Nat /\ feed.toMain \in BOOLEAN /\ feed.block <= Len(chain)
  BY <1>1
<1>3. /\ main.queue \in Seq(1..Len(chain)) /\ main.at \in 0..Len(chain) /\ main.init \in Nat
      /\ main.todo \subseteq Txs({"delegate"})
  BY <1>1 DEF MainType
<1>4. /\ script.queue \in Seq(1..Len(chain)) /\ script.at \in 0..Len(chain)
      /\ script.init \in Nat /\ script.todo \subseteq Txs(ScriptKinds)
  BY <1>1 DEF ScriptType
<1>5. db.mainBlock \in Nat /\ db.scriptBlock \in Nat
  BY <1>1 DEF DbType
<1>6. Len(main.queue) \in Nat /\ Len(script.queue) \in Nat
  BY <1>3, <1>4
<1> QED
  BY <1>1, <1>2, <1>3, <1>4, <1>5, <1>6, TxStatusAssumption

LEMMA MainOrderStep ==
    ASSUME TsTypeOK, ScriptOrder, ScriptStatuses, MainOrder, [TsNext]_tsVars
    PROVE  MainOrder'
<1>0. /\ Len(chain) \in Nat /\ chain \in Seq(Seq(Tx))
      /\ feed.block \in Nat /\ feed.toMain \in BOOLEAN
      /\ main.queue \in Seq(1..Len(chain)) /\ Len(main.queue) \in Nat
      /\ main.at \in Nat /\ main.init \in Nat /\ Keep \in Nat \ {0} /\ evicted \subseteq Int
  BY NumberFacts
<1>1. PICK L \in Nat : L = Len(main.queue)
  BY <1>0
<1>2. PICK F \in Nat : F = FeedEnd
  BY <1>0 DEF FeedEnd
<1>n. main.at \in Nat /\ main.init \in Nat /\ Keep \in Nat
  BY <1>0
<1>a. \A i \in 1..L : main.queue[i] = (F - L) + i /\ main.queue[i] > main.init
  BY <1>1, <1>2 DEF MainOrder
<1>b. /\ main.at # 0 => main.at <= F - L
      /\ \A t \in main.todo : main.at # 0 => t[1] = main.at
  BY <1>1, <1>2 DEF MainOrder
<1>c. \A n \in evicted :
        n \in Int /\ n + Keep <= F - L /\ (main.at # 0 => n + Keep < main.at)
  BY <1>0, <1>1, <1>2 DEF MainOrder
<1>3. ASSUME UNCHANGED <<feed, main, evicted>>
      PROVE  MainOrder'
  BY <1>3 DEF MainOrder, FeedEnd
<1>4. CASE FeedMainStep
  <2>1. feed.block = F /\ FeedEnd' = F + 1
    BY <1>2, <1>4 DEF FeedMainStep, FeedEnd
  <2>2. /\ main'.at = main.at /\ main'.todo = main.todo /\ main'.init = main.init
        /\ evicted' = evicted
    BY <1>4 DEF FeedMainStep, Rest
  <2>3. CASE feed.block + 1 > main.init /\ main'.queue = Append(main.queue, feed.block + 1)
    <3>1. /\ Len(main'.queue) = L + 1 /\ F + 1 > main.init
          /\ \A i \in 1..L : main'.queue[i] = main.queue[i]
          /\ main'.queue[L + 1] = F + 1
      BY <1>0, <1>1, <2>1, <2>3
    <3>2. ASSUME NEW i \in 1..(L + 1)
          PROVE  main'.queue[i] = ((F + 1) - (L + 1)) + i /\ main'.queue[i] > main'.init
      <4>1. CASE i \in 1..L
        BY <1>a, <2>2, <3>1, <4>1
      <4>2. CASE i = L + 1
        BY <2>2, <3>1, <4>2
      <4> QED
        BY <4>1, <4>2
    <3>3. main'.at # 0 => main'.at <= (F + 1) - (L + 1)
      BY <1>b, <1>n, <2>2
    <3>4. ASSUME NEW n \in evicted'
          PROVE  n + Keep <= (F + 1) - (L + 1) /\ (main'.at # 0 => n + Keep < main'.at)
      <4>1. n \in Int /\ n + Keep <= F - L /\ (main'.at # 0 => n + Keep < main'.at)
        BY <1>c, <2>2
      <4> QED
        BY <1>n, <4>1
    <3>5. Len(main'.queue) = L + 1 /\ \A t \in main'.todo : main'.at # 0 => t[1] = main'.at
      BY <1>b, <2>2, <3>1
    <3> QED
      BY <2>1, <3>2, <3>3, <3>4, <3>5 DEF MainOrder
  <2>4. CASE feed.block + 1 <= main.init /\ main'.queue = main.queue
    <3>1. L = 0
      <4>1. L # 0 => L \in 1..L /\ (F - L) + L = F
        OBVIOUS
      <4>2. L # 0 => F > main.init
        BY <1>a, <4>1
      <4> QED
        BY <1>n, <2>1, <2>4, <4>2
    <3>2. main'.at # 0 => main'.at <= (F + 1) - L
      BY <1>b, <1>n, <2>2
    <3>3. ASSUME NEW n \in evicted'
          PROVE  n + Keep <= (F + 1) - L /\ (main'.at # 0 => n + Keep < main'.at)
      <4>1. n \in Int /\ n + Keep <= F - L /\ (main'.at # 0 => n + Keep < main'.at)
        BY <1>c, <2>2
      <4> QED
        BY <1>n, <4>1
    <3> QED
      BY <1>1, <1>b, <2>1, <2>2, <2>4, <3>1, <3>2, <3>3 DEF MainOrder
  <2> QED
    BY <1>4, <2>3, <2>4 DEF FeedMainStep
<1>5. CASE FeedScriptStep
  <2>1. FeedEnd' = FeedEnd /\ UNCHANGED <<main, evicted>>
    BY <1>5 DEF FeedScriptStep, FeedEnd
  <2> QED
    BY <2>1 DEF MainOrder
<1>6. CASE MainBeginStep
  <2>1. FeedEnd' = F /\ evicted' = evicted
    BY <1>2, <1>6 DEF MainBeginStep, FeedEnd
  <2>2. /\ L >= 1 /\ Len(main'.queue) = L - 1
        /\ \A i \in 1..(L - 1) : main'.queue[i] = main.queue[i + 1]
        /\ Head(main.queue) = main.queue[1] /\ main.queue[1] \in 1..Len(chain)
    BY <1>0, <1>1, <1>6 DEF MainBeginStep
  <2>3. main'.init = main.init /\ main'.at \in {0, main.queue[1]}
    BY <1>6, <2>2 DEF MainBeginStep
  <2>4. \A t \in main'.todo : t[1] = main.queue[1]
    <3>1. main'.todo = TxsOf(main.queue[1], {"delegate"})
      BY <1>6, <2>2 DEF MainBeginStep
    <3> QED
      <4> SUFFICES ASSUME NEW t \in main'.todo PROVE t[1] = main.queue[1]
        OBVIOUS
      <4>1. \A n \in 1..Len(chain) : t \in TxsOf(n, {"delegate"}) => t[1] = n
        BY <1>0, TxsFacts
      <4> QED
        BY <2>2, <3>1, <4>1
  <2>5. main.queue[1] = (F - L) + 1
    BY <1>a, <2>2
  <2>6. ASSUME NEW i \in 1..(L - 1)
        PROVE  main'.queue[i] = (F - (L - 1)) + i /\ main'.queue[i] > main'.init
    <3>1. i + 1 \in 1..L
      BY <2>2
    <3>2. main'.queue[i] = (F - L) + (i + 1) /\ main'.queue[i] > main'.init
      BY <1>a, <2>2, <2>3, <3>1
    <3> QED
      BY <3>2
  <2>7. Len(main'.queue) = L - 1
    BY <2>2
  <2>8. ASSUME NEW n \in evicted'
        PROVE  n + Keep <= F - (L - 1) /\ (main'.at # 0 => n + Keep < main'.at)
    <3>1. n \in Int /\ n + Keep <= F - L
      BY <1>c, <2>1
    <3> QED
      BY <1>n, <2>3, <2>5, <3>1
  <2>9. main'.at # 0 => main'.at <= F - (L - 1)
    BY <2>3, <2>5
  <2>10. \A t \in main'.todo : main'.at # 0 => t[1] = main'.at
    BY <2>3, <2>4
  <2> QED
    BY <2>1, <2>6, <2>7, <2>8, <2>9, <2>10 DEF MainOrder
<1>7. ASSUME NEW t, MainStatusStep(t)
      PROVE  MainOrder'
  <2>1. FeedEnd' = FeedEnd
    BY <1>7 DEF MainStatusStep, FeedEnd
  <2> QED
    BY <1>7, <2>1 DEF MainStatusStep, MainOrder
<1>8. CASE MainEvictStep \/ MainFailsStep
  <2>1. FeedEnd' = F
    BY <1>2, <1>8 DEF MainEvictStep, MainFailsStep, FeedEnd
  <2>2. /\ main.at # 0 /\ main'.at = 0 /\ main'.queue = main.queue /\ main'.init = main.init
        /\ \A n \in evicted' : n \in evicted \/ n = main.at - Keep
    BY <1>8 DEF MainEvictStep, MainFailsStep
  <2>3. ASSUME NEW n \in evicted' PROVE n + Keep <= F - L
    <3>1. CASE n = main.at - Keep
      BY <1>b, <1>n, <2>2, <3>1
    <3> QED
      BY <1>c, <2>2, <3>1
  <2> QED
    BY <1>1, <1>a, <2>1, <2>2, <2>3 DEF MainOrder
<1>9. CASE RestartStep
  BY <1>0, <1>9 DEF RestartStep, MainOrder, FeedEnd
<1>10. CASE ScriptStep \/ UNCHANGED tsVars \/ MainSaveStep
  <2>1. UNCHANGED <<feed, main, evicted>>
    BY <1>10 DEF ScriptStep, ScriptBeginStep, ScriptSaveStep, ScriptFailsStep,
       ScriptStatusStep, ExecuteStep, MainSaveStep, tsVars
  <2> QED
    BY <1>3, <2>1
<1> QED
  BY <1>4, <1>5, <1>6, <1>7, <1>8, <1>9, <1>10, TsShapes DEF MainStep

LEMMA ScriptOrderStep ==
    ASSUME TsTypeOK, ScriptOrder, ScriptStatuses, [TsNext]_tsVars
    PROVE  ScriptOrder'
<1>0. /\ Len(chain) \in Nat /\ chain \in Seq(Seq(Tx))
      /\ script.queue \in Seq(1..Len(chain)) /\ Len(script.queue) \in Nat
      /\ feed.block \in Nat /\ db.scriptBlock \in Nat
  BY NumberFacts
<1>1. PICK L \in Nat : L = Len(script.queue)
  BY <1>0
<1>2. PICK F \in Nat : F = feed.block
  BY <1>0
<1>n. script.at \in Nat /\ script.init \in Nat /\ db.scriptBlock \in Nat
  BY NumberFacts
<1>a. \A i \in 1..L : script.queue[i] > script.init => script.queue[i] = (F - L) + i
  BY <1>1, <1>2 DEF ScriptOrder
<1>b. /\ script.at # 0 =>
            script.at > script.init /\ script.at > db.scriptBlock /\ script.at = F - L
      /\ \A t \in script.todo : script.at # 0 => t[1] = script.at
      /\ script.init <= db.scriptBlock
      /\ script.saving # <<>> => script.at # 0 /\ script.todo # {}
  BY <1>1, <1>2 DEF ScriptOrder
<1>3. ASSUME feed'.block = feed.block, db'.scriptBlock = db.scriptBlock, UNCHANGED script
      PROVE  ScriptOrder'
  BY <1>3 DEF ScriptOrder
<1>4. CASE FeedScriptStep
  <2>1. feed'.block = F + 1 /\ db' = db
    BY <1>2, <1>4 DEF FeedScriptStep
  <2>2. /\ script'.at = script.at /\ script'.todo = script.todo
        /\ script'.init = script.init /\ script'.saving = script.saving
    BY <1>4 DEF FeedScriptStep, Rest
  <2>3. CASE script'.queue = Append(script.queue, feed.block + 1)
    <3>1. /\ Len(script'.queue) = L + 1
          /\ \A i \in 1..L : script'.queue[i] = script.queue[i]
          /\ script'.queue[L + 1] = F + 1
      BY <1>0, <1>1, <1>2, <2>3
    <3>2. ASSUME NEW i \in 1..(L + 1), script'.queue[i] > script'.init
          PROVE  script'.queue[i] = ((F + 1) - (L + 1)) + i
      <4>1. CASE i \in 1..L
        BY <1>a, <2>2, <3>1, <3>2, <4>1
      <4>2. CASE i = L + 1
        BY <3>1, <4>2
      <4> QED
        BY <4>1, <4>2
    <3>3. script'.at # 0 => script'.at = (F + 1) - (L + 1)
      BY <1>b, <2>2
    <3>4. Len(script'.queue) = L + 1
      BY <3>1
    <3> QED
      BY <1>b, <2>1, <2>2, <3>2, <3>3, <3>4 DEF ScriptOrder
  <2>4. CASE feed.block + 1 <= script.init /\ script'.queue = script.queue
    <3>1. script.at = 0
      BY <1>2, <1>b, <1>n, <2>4
    <3>2. ASSUME NEW i \in 1..L PROVE ~(script.queue[i] > script.init)
      <4>1. script.queue[i] > script.init => script.queue[i] = (F - L) + i
        BY <1>a
      <4> QED
        BY <1>2, <1>n, <2>4, <4>1
    <3>3. \A i \in 1..Len(script'.queue) : ~(script'.queue[i] > script'.init)
      BY <1>1, <2>2, <2>4, <3>2
    <3> QED
      BY <1>b, <2>1, <2>2, <3>1, <3>3 DEF ScriptOrder
  <2> QED
    BY <1>4, <2>3, <2>4 DEF FeedScriptStep
<1>5. CASE ScriptBeginStep
  <2>1. feed' = feed /\ db' = db /\ script.at = 0 /\ script.saving = <<>>
        /\ script'.saving = <<>> /\ script'.init = script.init
    BY <1>5, <1>b DEF ScriptBeginStep
  <2>2. /\ L >= 1 /\ Len(script'.queue) = L - 1
        /\ \A i \in 1..(L - 1) : script'.queue[i] = script.queue[i + 1]
        /\ Head(script.queue) = script.queue[1] /\ script.queue[1] \in 1..Len(chain)
    BY <1>0, <1>1, <1>5 DEF ScriptBeginStep
  <2>3. script'.at = 0 \/ (script'.at = script.queue[1] /\ script.queue[1] > db.scriptBlock)
    BY <1>5, <2>2 DEF ScriptBeginStep, Fits
  <2>4. \A t \in script'.todo : t[1] = script.queue[1]
    <3>1. script'.todo = TxsOf(script.queue[1], ScriptKinds)
      BY <1>5, <2>2 DEF ScriptBeginStep
    <3> SUFFICES ASSUME NEW t \in script'.todo PROVE t[1] = script.queue[1]
      OBVIOUS
    <3>2. \A n \in 1..Len(chain) : t \in TxsOf(n, ScriptKinds) => t[1] = n
      BY <1>0, TxsFacts
    <3> QED
      BY <2>2, <3>1, <3>2
  <2>5. script.queue[1] > script.init => script.queue[1] = (F - L) + 1
    BY <1>a, <2>2
  <2>6. ASSUME NEW i \in 1..(L - 1), script'.queue[i] > script'.init
        PROVE  script'.queue[i] = (F - (L - 1)) + i
    <3>1. i + 1 \in 1..L
      BY <2>2
    <3>2. script'.queue[i] = (F - L) + (i + 1)
      BY <1>a, <2>1, <2>2, <2>6, <3>1
    <3> QED
      BY <3>2
  <2>7. script'.at # 0 => /\ script'.at > script'.init /\ script'.at > db.scriptBlock
                          /\ script'.at = F - (L - 1)
    <3>1. script.queue[1] \in Nat
      BY <1>0, <2>2
    <3> QED
      BY <1>b, <1>n, <2>1, <2>3, <2>5, <3>1
  <2>8. Len(script'.queue) = L - 1 /\ feed'.block = F
    BY <1>2, <2>1, <2>2
  <2>9. \A t \in script'.todo : script'.at # 0 => t[1] = script'.at
    BY <2>3, <2>4
  <2> QED
    BY <1>b, <2>1, <2>6, <2>7, <2>8, <2>9 DEF ScriptOrder
<1>6. ASSUME NEW t, NEW errors, ExecuteStep(t, errors)
      PROVE  ScriptOrder'
  <2>1. /\ UNCHANGED <<feed, db>> /\ script.at # 0 /\ script.todo # {}
        /\ script'.queue = script.queue /\ script'.at = script.at
        /\ script'.todo = script.todo /\ script'.init = script.init
    BY <1>6 DEF ExecuteStep
  <2> QED
    BY <2>1 DEF ScriptOrder
<1>7. ASSUME NEW t, ScriptStatusStep(t)
      PROVE  ScriptOrder'
  BY <1>7 DEF ScriptStatusStep, ScriptOrder
<1>8. CASE ScriptSaveStep
  <2>1. /\ script'.at = 0 /\ script'.saving = <<>> /\ script'.queue = script.queue
        /\ script'.init = script.init /\ feed' = feed /\ db'.scriptBlock = script.at
        /\ script.at # 0
    BY <1>8, <1>b DEF ScriptSaveStep
  <2>2. script'.init <= db'.scriptBlock
    BY <1>b, <1>n, <2>1
  <2> QED
    BY <2>1, <2>2 DEF ScriptOrder
<1>9. CASE ScriptFailsStep
  BY <1>9 DEF ScriptFailsStep, ScriptOrder
<1>10. CASE RestartStep
  BY <1>0, <1>10 DEF RestartStep, ScriptOrder
<1>11. CASE FeedMainStep \/ MainStep \/ UNCHANGED tsVars
  <2>1. feed'.block = feed.block /\ db'.scriptBlock = db.scriptBlock /\ UNCHANGED script
    BY <1>11 DEF FeedMainStep, MainStep, MainBeginStep, MainStatusStep, MainSaveStep,
       MainEvictStep, MainFailsStep, tsVars
  <2> QED
    BY <1>3, <2>1
<1> QED
  BY <1>4, <1>5, <1>6, <1>7, <1>8, <1>9, <1>10, <1>11, TsShapes DEF ScriptStep

LEMMA UndisturbedStep ==
    ASSUME TsTypeOK, ScriptOrder, ScriptStatuses, MainOrder, Undisturbed, [TsNext]_tsVars
    PROVE  Undisturbed'
<1>0. /\ Len(chain) \in Nat /\ chain \in Seq(Seq(Tx))
      /\ feed.block \in Nat /\ feed.toMain \in BOOLEAN /\ db.mainBlock \in Nat
      /\ main.queue \in Seq(1..Len(chain)) /\ Len(main.queue) \in Nat
      /\ main.at \in Nat /\ main.init \in Nat /\ Keep \in Nat \ {0} /\ evicted \subseteq Int
      /\ faults \in Nat /\ crashes \in Nat
  BY NumberFacts
<1>1. PICK L \in Nat : L = Len(main.queue)
  BY <1>0
<1>2. PICK F \in Nat : F = FeedEnd
  BY <1>0 DEF FeedEnd
<1>3. CASE faults # 0 \/ crashes # 0
  <2> SUFFICES faults' # 0 \/ crashes' # 0
    BY DEF Undisturbed
  <2>a. ASSUME UNCHANGED <<faults, crashes>> PROVE faults' # 0 \/ crashes' # 0
    BY <1>3, <2>a
  <2>b. CASE UNCHANGED tsVars
    BY <2>a, <2>b DEF tsVars
  <2>c. CASE FeedMainStep \/ FeedScriptStep
    BY <2>a, <2>c DEF FeedMainStep, FeedScriptStep
  <2>d. CASE MainBeginStep \/ MainSaveStep \/ MainEvictStep \/ \E t : MainStatusStep(t)
    BY <2>a, <2>d DEF MainBeginStep, MainSaveStep, MainEvictStep, MainStatusStep
  <2>e. CASE ScriptBeginStep \/ ScriptSaveStep \/ \E t : ScriptStatusStep(t)
    BY <2>a, <2>e DEF ScriptBeginStep, ScriptSaveStep, ScriptStatusStep
  <2>f. ASSUME NEW t, NEW errors, ExecuteStep(t, errors)
        PROVE  faults' # 0 \/ crashes' # 0
    BY <1>0, <1>3, <2>f DEF ExecuteStep
  <2>g. CASE MainFailsStep \/ ScriptFailsStep
    BY <1>0, <2>g DEF MainFailsStep, ScriptFailsStep
  <2>h. CASE RestartStep
    BY <1>0, <2>h DEF RestartStep
  <2> QED
    BY <2>b, <2>c, <2>d, <2>e, <2>f, <2>g, <2>h, TsShapes DEF MainStep, ScriptStep
<1>4. CASE faults = 0 /\ crashes = 0
  <2>n. main.at \in Nat /\ db.mainBlock \in Nat /\ Keep \in Nat
    BY <1>0
  <2>a. /\ main.init = 0
        /\ main.at = 0 => db.mainBlock = F - L
        /\ main.at # 0 => main.at = F - L
        /\ main.at # 0 => db.mainBlock = main.at \/ db.mainBlock = main.at - 1
    BY <1>1, <1>2, <1>4 DEF Undisturbed
  <2>b. /\ \A n \in 1..Len(chain) : n + Keep <= Done => n \in evicted
        /\ \A n \in evicted : n + Keep <= Done
    BY <1>4 DEF Undisturbed
  <2>1. ASSUME FeedEnd' = FeedEnd, UNCHANGED <<chain, main, evicted>>,
               db'.mainBlock = db.mainBlock
        PROVE  Undisturbed'
    <3>1. Done' = Done
      BY <2>1 DEF Done
    <3> QED
      BY <1>1, <1>2, <2>1, <2>a, <2>b, <3>1 DEF Undisturbed
  <2>2. CASE FeedMainStep
    <3>1. /\ feed.block = F /\ FeedEnd' = F + 1
      BY <1>2, <2>2 DEF FeedMainStep, FeedEnd
    <3>2. main'.queue = Append(main.queue, feed.block + 1)
      BY <1>0, <2>2, <2>a DEF FeedMainStep
    <3>3. Len(main'.queue) = L + 1
      BY <1>0, <1>1, <3>2
    <3>4. /\ main'.at = main.at /\ main'.init = main.init
          /\ UNCHANGED <<chain, db, evicted>>
      BY <2>2 DEF FeedMainStep, Rest
    <3>5. Done' = Done
      BY <3>4 DEF Done
    <3>6. (F + 1) - (L + 1) = F - L
      OBVIOUS
    <3> QED
      BY <2>a, <2>b, <3>1, <3>3, <3>4, <3>5, <3>6 DEF Undisturbed
  <2>3. CASE FeedScriptStep
    <3>1. FeedEnd' = FeedEnd
      BY <2>3 DEF FeedScriptStep, FeedEnd
    <3> QED
      BY <2>1, <2>3, <3>1 DEF FeedScriptStep
  <2>4. CASE MainBeginStep
    <3>1. /\ FeedEnd' = F /\ main.at = 0 /\ UNCHANGED <<chain, db, evicted>>
          /\ main'.init = main.init
      BY <1>2, <2>4 DEF MainBeginStep, FeedEnd
    <3>2. L >= 1 /\ Len(main'.queue) = L - 1 /\ Head(main.queue) = main.queue[1]
      BY <1>0, <1>1, <2>4 DEF MainBeginStep
    <3>3. main.queue[1] = (F - L) + 1
      <4>1. \A i \in 1..L : main.queue[i] = (F - L) + i
        BY <1>1, <1>2 DEF MainOrder
      <4>2. 1 \in 1..L
        BY <3>2
      <4> QED
        BY <4>1, <4>2
    <3>4. Fits(main.queue[1], db.mainBlock)
      BY <2>a, <2>n, <3>1, <3>3 DEF Fits
    <3>5. main'.at = (F - L) + 1
      BY <2>4, <3>2, <3>3, <3>4 DEF MainBeginStep
    <3>6. db.mainBlock = F - L
      BY <2>a, <3>1
    <3>7. Done' = Done
      BY <2>n, <3>1, <3>5, <3>6 DEF Done
    <3>8. main'.at = F - (L - 1) /\ db'.mainBlock = main'.at - 1 /\ main'.at # 0
      BY <2>n, <3>1, <3>5, <3>6
    <3> QED
      BY <2>a, <2>b, <3>1, <3>2, <3>7, <3>8 DEF Undisturbed
  <2>5. ASSUME NEW t, MainStatusStep(t)
        PROVE  Undisturbed'
    <3>1. /\ FeedEnd' = FeedEnd /\ UNCHANGED <<chain, db, evicted>>
          /\ main'.at = main.at /\ main'.init = main.init /\ main'.queue = main.queue
      BY <2>5 DEF MainStatusStep, FeedEnd
    <3>2. Done' = Done
      BY <3>1 DEF Done
    <3> QED
      BY <1>1, <1>2, <2>a, <2>b, <3>1, <3>2 DEF Undisturbed
  <2>6. CASE MainSaveStep
    <3>1. /\ FeedEnd' = FeedEnd /\ UNCHANGED <<chain, main, evicted>> /\ main.at # 0
          /\ db'.mainBlock = main.at
      BY <2>6 DEF MainSaveStep, FeedEnd
    <3>2. Done' = Done
      BY <3>1 DEF Done
    <3> QED
      BY <1>1, <1>2, <2>a, <2>b, <3>1, <3>2 DEF Undisturbed
  <2>7. CASE MainEvictStep
    <3>1. /\ FeedEnd' = FeedEnd /\ UNCHANGED <<chain, db>> /\ main.at # 0
          /\ db.mainBlock = main.at /\ main'.at = 0 /\ main'.init = main.init
          /\ main'.queue = main.queue /\ evicted' = evicted \cup {main.at - Keep}
      BY <2>7 DEF MainEvictStep, FeedEnd
    <3>2. Done = main.at - 1 /\ Done' = main.at
      BY <3>1 DEF Done
    <3>3. ASSUME NEW n \in 1..Len(chain), n + Keep <= Done' PROVE n \in evicted'
      <4>1. n + Keep <= Done \/ n = main.at - Keep
        BY <1>0, <2>n, <3>2, <3>3
      <4> QED
        BY <2>b, <3>1, <4>1
    <3>4. ASSUME NEW n \in evicted' PROVE n + Keep <= Done'
      <4>1. CASE n = main.at - Keep
        BY <2>n, <3>2, <4>1
      <4>2. CASE n \in evicted
        <5>1. n \in Int /\ n + Keep <= Done
          BY <1>0, <2>b, <4>2
        <5> QED
          BY <2>n, <3>2, <5>1
      <4> QED
        BY <3>1, <4>1, <4>2
    <3>5. db'.mainBlock = FeedEnd' - Len(main'.queue)
      BY <1>1, <1>2, <2>a, <3>1
    <3> QED
      BY <2>a, <3>1, <3>3, <3>4, <3>5 DEF Undisturbed
  <2>8. CASE MainFailsStep \/ RestartStep \/ ScriptFailsStep
    BY <1>0, <2>8 DEF MainFailsStep, RestartStep, ScriptFailsStep, Undisturbed
  <2>9. CASE ScriptStep /\ ~ScriptFailsStep
    <3>1. /\ FeedEnd' = FeedEnd /\ UNCHANGED <<chain, main, evicted>>
          /\ db'.mainBlock = db.mainBlock
      BY <2>9 DEF ScriptStep, ScriptBeginStep, ScriptSaveStep, ScriptStatusStep,
         ExecuteStep, FeedEnd
    <3> QED
      BY <2>1, <3>1
  <2>10. CASE UNCHANGED tsVars
    <3>1. FeedEnd' = FeedEnd /\ UNCHANGED <<chain, main, evicted, db>>
      BY <2>10 DEF tsVars, FeedEnd
    <3> QED
      BY <2>1, <3>1
  <2> QED
    BY <2>2, <2>3, <2>4, <2>5, <2>6, <2>7, <2>8, <2>9, <2>10, TsShapes DEF MainStep
<1> QED
  BY <1>0, <1>3, <1>4

(***************************************************************************)
(* The attributes of the cache.                                            *)
(***************************************************************************)

\* As many blocks are kept as the script worker may lag behind.
KeepsEnough == Keep >= ScriptCapacity + 2

LEMMA KeysNotEvictedStep ==
    ASSUME KeepsEnough, TsTypeOK, ScriptOrder, ScriptStatuses, MainOrder, KeysNotEvicted,
           [TsNext]_tsVars
    PROVE  KeysNotEvicted'
<1>0. /\ Len(script.queue) \in Nat /\ Len(script.queue) <= ScriptCapacity
      /\ Len(main.queue) \in Nat /\ feed.block \in Nat /\ feed.toMain \in BOOLEAN
      /\ main.at \in Nat /\ script.at \in Nat /\ Keep \in Nat /\ ScriptCapacity \in Nat
      /\ evicted \subseteq Int
  BY NumberFacts
<1>1. ASSUME NEW t, MainStatusStep(t) PROVE KeysNotEvicted'
  <2>1. /\ cache' = AddValue(cache, t, TxAt(t).errors) /\ evicted' = evicted
        /\ t \in main.todo /\ main.at # 0
    BY <1>1 DEF MainStatusStep
  <2>2. cache'.keys = cache.keys \cup {t}
    BY <2>1, AddValueFacts
  <2>3. t[1] \notin evicted
    <3>1. t[1] = main.at
      BY <2>1 DEF MainOrder
    <3>2. ASSUME main.at \in evicted PROVE FALSE
      <4>1. main.at + Keep < main.at
        BY <2>1, <3>2 DEF MainOrder
      <4> QED
        BY <1>0, <4>1
    <3> QED
      BY <3>1, <3>2
  <2> QED
    BY <2>1, <2>2, <2>3 DEF KeysNotEvicted
<1>2. ASSUME NEW t, NEW errors, ExecuteStep(t, errors) PROVE KeysNotEvicted'
  <2>1. /\ cache' = AddValue(cache, t, errors) /\ evicted' = evicted
        /\ t \in script.todo /\ script.at # 0
    BY <1>2 DEF ExecuteStep
  <2>2. cache'.keys = cache.keys \cup {t}
    BY <2>1, AddValueFacts
  <2>3. t[1] \notin evicted
    <3>1. t[1] = script.at /\ script.at = feed.block - Len(script.queue)
      BY <2>1 DEF ScriptOrder
    <3>2. ASSUME script.at \in evicted PROVE FALSE
      <4>1. script.at + Keep <= FeedEnd - Len(main.queue)
        BY <3>2 DEF MainOrder
      <4>2. FeedEnd \in Nat /\ FeedEnd <= feed.block + 1
        BY <1>0 DEF FeedEnd
      <4>3. PICK L \in Nat, M \in Nat, F \in Nat :
              L = Len(script.queue) /\ M = Len(main.queue) /\ F = FeedEnd
        BY <1>0, <4>2
      <4>4. /\ script.at + Keep <= F - M /\ F <= feed.block + 1
            /\ script.at = feed.block - L /\ L <= ScriptCapacity
        BY <1>0, <3>1, <4>1, <4>2, <4>3
      <4> QED
        BY <1>0, <4>4 DEF KeepsEnough
    <3> QED
      BY <3>1, <3>2
  <2> QED
    BY <2>1, <2>2, <2>3 DEF KeysNotEvicted
<1>3. CASE MainEvictStep
  BY <1>3 DEF MainEvictStep, KeysNotEvicted
<1>4. CASE RestartStep
  BY <1>4 DEF RestartStep, KeysNotEvicted
<1>5. ASSUME UNCHANGED <<cache, evicted>> PROVE KeysNotEvicted'
  BY <1>5 DEF KeysNotEvicted
<1>6. CASE UNCHANGED tsVars \/ FeedMainStep \/ FeedScriptStep
  BY <1>5, <1>6 DEF tsVars, FeedMainStep, FeedScriptStep
<1>7. CASE MainBeginStep \/ MainSaveStep \/ MainFailsStep
  BY <1>5, <1>7 DEF MainBeginStep, MainSaveStep, MainFailsStep
<1>8. CASE ScriptBeginStep \/ ScriptSaveStep \/ ScriptFailsStep \/ \E t : ScriptStatusStep(t)
  BY <1>5, <1>8 DEF ScriptBeginStep, ScriptSaveStep, ScriptFailsStep, ScriptStatusStep
<1> QED
  BY <1>1, <1>2, <1>3, <1>4, <1>6, <1>7, <1>8, TsShapes DEF MainStep, ScriptStep

\* The keys of the cache are newer than all that was removed, as long as the main
\* worker has removed the attributes of all blocks up to the last such.
LEMMA RecentKeys ==
    ASSUME TsTypeOK, Undisturbed, KeysNotEvicted
    PROVE  AttributesRecent
<1>0. /\ chain \in Seq(Seq(Tx)) /\ Len(chain) \in Nat /\ evicted \subseteq Int
      /\ Keep \in Nat /\ main.at \in Nat /\ db.mainBlock \in Nat
  BY NumberFacts
<1>1. cache.keys \subseteq Txs(AllKinds)
  BY StoreTypes DEF TsTypeOK, CacheType
<1> SUFFICES ASSUME NEW t \in cache.keys
             PROVE  /\ t[1] \notin evicted
                    /\ faults = 0 /\ crashes = 0 => \A n \in evicted : t[1] > n
  BY DEF AttributesRecent
<1>2. t[1] \notin evicted /\ t[1] \in 1..Len(chain)
  <2>1. t \in Txs(AllKinds)
    BY <1>1
  <2>2. t[1] \in 1..Len(chain)
    BY <1>0, <2>1, TxsFacts
  <2> QED
    BY <2>2 DEF KeysNotEvicted
<1>3. ASSUME faults = 0, crashes = 0, NEW n \in evicted PROVE t[1] > n
  <2>1. n \in Int /\ n + Keep <= Done /\ Done \in Int
    BY <1>0, <1>3 DEF Undisturbed, Done
  <2>2. ~(t[1] + Keep <= Done)
    BY <1>2, <1>3 DEF Undisturbed
  <2>3. t[1] \in Int
    BY <1>2
  <2> QED
    BY <1>0, <2>1, <2>2, <2>3
<1> QED
  BY <1>2, <1>3

(***************************************************************************)
(* The statuses of delegations.                                            *)
(***************************************************************************)

LEMMA ChainKept ==
    ASSUME TsTypeOK, ScriptOrder, ScriptStatuses, [TsNext]_tsVars
    PROVE  UNCHANGED chain
<1>1. CASE FeedMainStep \/ FeedScriptStep \/ RestartStep \/ UNCHANGED tsVars
  BY <1>1 DEF FeedMainStep, FeedScriptStep, RestartStep, tsVars
<1>2. CASE MainStep
  BY <1>2 DEF MainStep, MainBeginStep, MainStatusStep, MainSaveStep, MainEvictStep,
     MainFailsStep
<1>3. CASE ScriptStep
  BY <1>3 DEF ScriptStep, ScriptBeginStep, ScriptStatusStep, ScriptSaveStep, ScriptFailsStep,
     ExecuteStep
<1> QED
  BY <1>1, <1>2, <1>3, TsShapes

LEMMA MainStatusesStep ==
    ASSUME TsTypeOK, ScriptOrder, ScriptStatuses, MainOrder, MainStatuses, [TsNext]_tsVars
    PROVE  MainStatuses'
<1>0. /\ chain \in Seq(Seq(Tx)) /\ UNCHANGED chain
      /\ main.queue \in Seq(1..Len(chain)) /\ main.at \in Nat
      /\ main.todo \subseteq Txs({"delegate"}) /\ script.todo \subseteq Txs(ScriptKinds)
  BY NumberFacts, ChainKept
<1>1. PICK D : D = Txs({"delegate"}) /\ D = Txs({"delegate"})'
  BY <1>0, SameChain
<1>2. PICK E : E = [t \in D |-> TxAt(t).errors]
  OBVIOUS
<1>3. \A t \in D : TxAt(t).errors = E[t] /\ TxAt(t)'.errors = E[t]
  BY <1>0, <1>2, SameChain
<1>4. /\ \A t \in D : t \notin script.todo
      /\ main.todo \subseteq D
  BY <1>0, <1>1, KindFacts
<1>a. \A t \in D :
        /\ t[1] \in written.main => t \in DOMAIN db.status /\ db.status[t] = E[t]
        /\ t \in DOMAIN cache.map => cache.map[t] = E[t]
        /\ main.at # 0 /\ t[1] = main.at => t \in main.todo \/ t \in DOMAIN main.batch
  BY <1>1, <1>3 DEF MainStatuses
<1>b. \A t \in DOMAIN main.batch : t \in D /\ main.batch[t] = E[t]
  BY <1>1, <1>3 DEF MainStatuses
<1> SUFFICES
      /\ \A t \in D :
            /\ t[1] \in written'.main => t \in DOMAIN db'.status /\ db'.status[t] = E[t]
            /\ t \in DOMAIN cache'.map => cache'.map[t] = E[t]
            /\ main'.at # 0 /\ t[1] = main'.at
                => t \in main'.todo \/ t \in DOMAIN main'.batch
      /\ \A t \in DOMAIN main'.batch : t \in D /\ main'.batch[t] = E[t]
  BY <1>1, <1>3 DEF MainStatuses
<1>5. CASE FeedMainStep \/ FeedScriptStep \/ UNCHANGED tsVars
  <2>1. /\ UNCHANGED <<db, cache, written>> /\ main'.at = main.at
        /\ main'.todo = main.todo /\ main'.batch = main.batch
    BY <1>5 DEF FeedMainStep, FeedScriptStep, tsVars, Rest
  <2> QED
    BY <1>a, <1>b, <2>1
<1>6. CASE ScriptBeginStep \/ ScriptSaveStep \/ ScriptFailsStep
  <2>1. /\ UNCHANGED <<main, cache>> /\ db'.status = db.status
        /\ written'.main = written.main
    BY <1>6 DEF ScriptBeginStep, ScriptSaveStep, ScriptFailsStep
  <2> QED
    BY <1>a, <1>b, <2>1
<1>7. ASSUME NEW u, ScriptStatusStep(u)
      PROVE  \A t \in D :
                /\ t \in DOMAIN db.status => t \in DOMAIN db'.status
                /\ t \in DOMAIN db.status => db'.status[t] = db.status[t]
  <2>1. db'.status = Update(db.status, u, Head(script.saving)) /\ u \in script.todo
    BY <1>7 DEF ScriptStatusStep
  <2>2. \A t \in D : t # u
    BY <1>4, <2>1
  <2> QED
    BY <2>1, <2>2 DEF Update
<1>8. CASE \E t : ScriptStatusStep(t)
  <2>1. UNCHANGED <<main, cache, written>>
    BY <1>8 DEF ScriptStatusStep
  <2> QED
    BY <1>7, <1>8, <1>a, <1>b, <2>1
<1>9. CASE \E t, errors : ExecuteStep(t, errors)
  <2>1. PICK u, errors : ExecuteStep(u, errors)
    BY <1>9
  <2>2. /\ UNCHANGED <<main, db, written>> /\ cache' = AddValue(cache, u, errors)
        /\ u \notin D
    BY <1>4, <2>1 DEF ExecuteStep
  <2>3. \A t \in D : t \in DOMAIN cache'.map =>
            t \in DOMAIN cache.map /\ cache'.map[t] = cache.map[t]
    BY <2>2, AddValueFacts
  <2> QED
    BY <1>a, <1>b, <2>2, <2>3
<1>10. CASE MainBeginStep
  <2>1. /\ UNCHANGED <<db, cache, written>> /\ main'.batch = main.batch
        /\ main'.at # 0 => main'.at = Head(main.queue)
        /\ main'.todo = TxsOf(Head(main.queue), {"delegate"})
        /\ Head(main.queue) \in 1..Len(chain)
    BY <1>0, <1>10 DEF MainBeginStep
  <2>2. ASSUME NEW t \in D, main'.at # 0, t[1] = main'.at PROVE t \in main'.todo
    <3>1. \A n \in 1..Len(chain) :
            t \in TxsOf(n, {"delegate"}) <=> t \in Txs({"delegate"}) /\ t[1] = n
      BY <1>0, TxsFacts
    <3> QED
      BY <1>1, <2>1, <2>2, <3>1
  <2> QED
    BY <1>a, <1>b, <2>1, <2>2
<1>11. CASE \E t : MainStatusStep(t)
  <2>1. PICK u : MainStatusStep(u)
    BY <1>11
  <2>2. /\ UNCHANGED <<db, written>> /\ main'.at = main.at /\ u \in D
        /\ main'.todo = main.todo \ {u} /\ main'.batch = Update(main.batch, u, E[u])
        /\ cache' = AddValue(cache, u, E[u])
    BY <1>3, <1>4, <2>1 DEF MainStatusStep
  <2>3. \A t \in D : t \in DOMAIN cache'.map => cache'.map[t] = E[t]
    BY <1>a, <2>2, AddValueFacts
  <2>4. /\ DOMAIN main'.batch = DOMAIN main.batch \cup {u}
        /\ \A t \in DOMAIN main'.batch : main'.batch[t] = E[t]
    BY <1>b, <2>2 DEF Update
  <2> QED
    BY <1>a, <1>b, <2>2, <2>3, <2>4
<1>12. CASE MainSaveStep
  <2>1. /\ UNCHANGED <<cache, main>> /\ main.todo = {} /\ main.at # 0
        /\ written'.main = written.main \cup {main.at}
        /\ db'.status = Merge(main.batch, db.status)
    BY <1>12 DEF MainSaveStep
  <2>2. /\ DOMAIN db'.status = DOMAIN main.batch \cup DOMAIN db.status
        /\ \A t \in DOMAIN main.batch : db'.status[t] = main.batch[t]
        /\ \A t \in DOMAIN db.status : t \notin DOMAIN main.batch =>
                db'.status[t] = db.status[t]
    BY <2>1 DEF Merge
  <2>3. \A t \in D : t[1] \in written'.main => t \in DOMAIN db'.status /\ db'.status[t] = E[t]
    BY <1>a, <1>b, <2>1, <2>2
  <2> QED
    BY <1>a, <1>b, <2>1, <2>3
<1>13. CASE MainEvictStep \/ MainFailsStep
  <2>1. /\ UNCHANGED <<db, written>> /\ main'.at = 0 /\ DOMAIN main'.batch = {}
        /\ DOMAIN cache'.map \subseteq DOMAIN cache.map
        /\ \A t \in DOMAIN cache'.map : cache'.map[t] = cache.map[t]
    BY <1>13, EmptyFacts DEF MainEvictStep, MainFailsStep
  <2> QED
    BY <1>a, <2>1
<1>14. CASE RestartStep
  <2>1. /\ UNCHANGED <<db, written>> /\ main'.at = 0 /\ DOMAIN main'.batch = {}
        /\ DOMAIN cache'.map = {}
    BY <1>14, EmptyFacts DEF RestartStep
  <2> QED
    BY <1>a, <2>1
<1> QED
  BY <1>5, <1>6, <1>8, <1>9, <1>10, <1>11, <1>12, <1>13, <1>14, TsShapes
     DEF MainStep, ScriptStep

(***************************************************************************)
(* The statuses of scripts.                                                *)
(***************************************************************************)

\* The part of the invariant that is about blocks.
ScriptBlocks ==
    /\ \A n \in written.script : n <= db.scriptBlock
    /\ \A c \in Contract : db.v8[c].block <= db.scriptBlock
    /\ \A c \in DOMAIN script.batch : script.at # 0 /\ script.batch[c].block <= script.at

LEMMA ScriptBlocksStep ==
    ASSUME TsTypeOK, ScriptOrder, ScriptStatuses, [TsNext]_tsVars
    PROVE  ScriptBlocks'
<1>0. /\ script.at \in Nat /\ db.scriptBlock \in Nat /\ written.script \subseteq Nat
      /\ \A c \in Contract : c \in DOMAIN db.v8 /\ db.v8[c].block \in Nat
      /\ DOMAIN db.v8 = Contract
      /\ DOMAIN script.batch \subseteq Contract
      /\ \A c \in DOMAIN script.batch : script.batch[c].block \in Nat
  <2>1. db \in DbType /\ script \in ScriptType
    BY WorkerTypes, StoreTypes DEF TsTypeOK
  <2>2. db.v8 \in [Contract -> State]
    BY <2>1 DEF DbType
  <2>3. PICK S \in SUBSET Contract : script.batch \in [S -> State]
    <3>1. script.batch \in Batches
      BY <2>1 DEF ScriptType
    <3> QED
      BY <3>1 DEF Batches
  <2>4. written.script \subseteq Nat
    <3>1. DOMAIN chain = 1..Len(chain) /\ Len(chain) \in Nat
      BY NumberFacts
    <3>2. written \in [main : SUBSET DOMAIN chain, script : SUBSET DOMAIN chain]
      BY DEF TsTypeOK
    <3> QED
      BY <3>1, <3>2
  <2> QED
    BY <2>2, <2>3, <2>4, NumberFacts DEF State
<1>1. ScriptBlocks
  BY DEF ScriptStatuses, ScriptBlocks
<1>2. ASSUME written'.script = written.script, db'.scriptBlock = db.scriptBlock,
             db'.v8 = db.v8, script'.at = script.at, script'.batch = script.batch
      PROVE  ScriptBlocks'
  BY <1>1, <1>2 DEF ScriptBlocks
<1>3. CASE UNCHANGED tsVars \/ FeedMainStep \/ FeedScriptStep
  BY <1>2, <1>3 DEF tsVars, FeedMainStep, FeedScriptStep, Rest
<1>4. CASE MainBeginStep \/ MainEvictStep \/ MainFailsStep
  BY <1>2, <1>4 DEF MainBeginStep, MainEvictStep, MainFailsStep
<1>5. CASE MainSaveStep \/ \E t : MainStatusStep(t)
  BY <1>2, <1>5 DEF MainSaveStep, MainStatusStep
<1>6. CASE \E t : ScriptStatusStep(t)
  BY <1>2, <1>6 DEF ScriptStatusStep
<1>7. CASE ScriptBeginStep
  <2>1. DOMAIN script.batch = {}
    BY <1>1, <1>7 DEF ScriptBlocks, ScriptBeginStep
  <2> QED
    BY <1>1, <1>7, <2>1 DEF ScriptBlocks, ScriptBeginStep
<1>8. CASE ScriptFailsStep \/ RestartStep
  BY <1>1, <1>8, EmptyFacts DEF ScriptBlocks, ScriptFailsStep, RestartStep
<1>9. CASE ScriptSaveStep
  <2>1. /\ db'.scriptBlock = script.at /\ script.at # 0
        /\ written'.script = written.script \cup {script.at}
        /\ db'.v8 = Merge(script.batch, db.v8) /\ DOMAIN script'.batch = {}
    BY <1>9, EmptyFacts DEF ScriptSaveStep
  <2>2. db.scriptBlock < script.at
    BY <1>0, <2>1 DEF ScriptOrder
  <2>3. ASSUME NEW n \in written'.script PROVE n <= script.at
    BY <1>0, <1>1, <2>1, <2>2 DEF ScriptBlocks
  <2>4. ASSUME NEW c \in Contract PROVE db'.v8[c].block <= script.at
    <3>1. CASE c \in DOMAIN script.batch
      <4>1. db'.v8[c] = script.batch[c]
        BY <2>1, <3>1 DEF Merge
      <4> QED
        BY <1>1, <3>1, <4>1 DEF ScriptBlocks
    <3>2. CASE c \notin DOMAIN script.batch
      <4>1. db'.v8[c] = db.v8[c]
        BY <1>0, <2>1, <3>2 DEF Merge
      <4>2. db.v8[c].block \in Nat /\ db.v8[c].block <= db.scriptBlock
        BY <1>0, <1>1 DEF ScriptBlocks
      <4> QED
        BY <1>0, <2>2, <4>1, <4>2
    <3> QED
      BY <3>1, <3>2
  <2> QED
    BY <2>1, <2>3, <2>4 DEF ScriptBlocks
<1>10. CASE \E t, errors : ExecuteStep(t, errors)
  <2>1. PICK t, errors : ExecuteStep(t, errors)
    BY <1>10
  <2>2. /\ script'.at = script.at /\ script.at # 0 /\ UNCHANGED <<db, written>>
        /\ script'.batch = NewStates(t, errors) /\ t \in script.todo
    BY <2>1 DEF ExecuteStep
  <2>3. t[1] = script.at
    BY <2>2 DEF ScriptOrder
  <2>4. ASSUME NEW c \in DOMAIN script'.batch PROVE script'.batch[c].block <= script.at
    <3>1. CASE script'.batch = script.batch
      BY <1>1, <2>2, <3>1 DEF ScriptBlocks
    <3>2. ASSUME NEW k, NEW v, v.block = t[1], script'.batch = Update(script.batch, k, v)
          PROVE  script'.batch[c].block <= script.at
      <4>1. c = k \/ (c \in DOMAIN script.batch /\ script'.batch[c] = script.batch[c])
        BY <3>2 DEF Update
      <4>2. CASE c = k
        <5>1. script'.batch[c] = v
          BY <3>2, <4>2 DEF Update
        <5> QED
          BY <1>0, <2>3, <3>2, <5>1
      <4> QED
        BY <1>1, <4>1, <4>2 DEF ScriptBlocks
    <3>3. \/ script'.batch = script.batch
          \/ \E k, v : v.block = t[1] /\ script'.batch = Update(script.batch, k, v)
      <4> DEFINE v == [txs |-> Append(FindV8State(TxAt(t).contract).txs, t), block |-> t[1]]
      <4>1. \/ script'.batch = script.batch
            \/ script'.batch = Update(script.batch, TxAt(t).contract, v)
        BY <2>2 DEF NewStates
      <4>2. v.block = t[1]
        OBVIOUS
      <4> HIDE DEF v
      <4> QED
        BY <4>1, <4>2
    <3> QED
      BY <3>1, <3>2, <3>3
  <2> QED
    BY <1>1, <2>2, <2>4 DEF ScriptBlocks
<1> QED
  BY <1>3, <1>4, <1>5, <1>6, <1>7, <1>8, <1>9, <1>10, TsShapes DEF MainStep, ScriptStep

\* The part of the invariant that is about transactions.
ScriptTxs ==
    \A t \in Txs(ScriptKinds) :
        /\ t[1] \in written.script => Agree(t)
        /\ t \in DOMAIN cache.map => t[1] <= feed.block - Len(script.queue)
        /\ script.at # 0 /\ t[1] = script.at /\ t \notin script.todo => Agree(t)
        /\ t \in script.todo /\ script.at # 0 =>
            IF script.saving # <<>> /\ t = FirstOf(script.todo)
            THEN t \in DOMAIN cache.map => cache.map[t] = Head(script.saving)
            ELSE t \notin DOMAIN cache.map

LEMMA ScriptTxsStep ==
    ASSUME TsTypeOK, MainOrder, ScriptOrder, MainStatuses, ScriptStatuses, [TsNext]_tsVars
    PROVE  ScriptTxs'
<1>0. /\ chain \in Seq(Seq(Tx)) /\ UNCHANGED chain
      /\ script.queue \in Seq(1..Len(chain)) /\ Len(script.queue) \in Nat
      /\ feed.block \in Nat /\ script.at \in Nat /\ db.scriptBlock \in Nat
      /\ main.todo \subseteq Txs({"delegate"}) /\ script.todo \subseteq Txs(ScriptKinds)
  BY NumberFacts, ChainKept
<1>1. PICK D : D = Txs(ScriptKinds) /\ D = Txs(ScriptKinds)'
  BY <1>0, SameChain
<1>2. /\ \A t \in main.todo : t \notin D
      /\ \A t \in DOMAIN main.batch : t \notin D
      /\ script.todo \subseteq D
  BY <1>0, <1>1, KindFacts DEF MainStatuses
<1>3. \A t \in D : t[1] \in Nat
  <2> SUFFICES ASSUME NEW t \in D PROVE t[1] \in Nat
    OBVIOUS
  <2>1. t[1] \in 1..Len(chain)
    BY <1>0, <1>1, TxsFacts
  <2> QED
    BY <2>1
<1>4. PICK L \in Nat, F \in Nat : L = Len(script.queue) /\ F = feed.block
  BY <1>0
<1>a. \A t \in D :
        t[1] \in written.script =>
            t \in DOMAIN db.status /\ (t \in DOMAIN cache.map => cache.map[t] = db.status[t])
  BY <1>1 DEF ScriptStatuses, Agree
<1>b. \A t \in D : t \in DOMAIN cache.map => t[1] <= F - L
  BY <1>1, <1>4 DEF ScriptStatuses
<1>c. \A t \in D :
        script.at # 0 /\ t[1] = script.at /\ t \notin script.todo =>
            t \in DOMAIN db.status /\ (t \in DOMAIN cache.map => cache.map[t] = db.status[t])
  BY <1>1 DEF ScriptStatuses, Agree
<1>d. \A t \in D :
        t \in script.todo /\ script.at # 0 =>
            IF script.saving # <<>> /\ t = FirstOf(script.todo)
            THEN t \in DOMAIN cache.map => cache.map[t] = Head(script.saving)
            ELSE t \notin DOMAIN cache.map
  BY <1>1 DEF ScriptStatuses
<1>e. \A t \in script.todo : script.at # 0 => t[1] = script.at /\ t[1] \notin written.script
  <2> SUFFICES ASSUME NEW t \in script.todo, script.at # 0
               PROVE  t[1] = script.at /\ t[1] \notin written.script
    OBVIOUS
  <2>1. t[1] = script.at /\ script.at > db.scriptBlock
    BY DEF ScriptOrder
  <2>2. \A n \in written.script : n <= db.scriptBlock
    BY DEF ScriptStatuses
  <2> QED
    BY <1>0, <2>1, <2>2
<1> DEFINE Ok(t) == t \in DOMAIN db'.status
                    /\ (t \in DOMAIN cache'.map => cache'.map[t] = db'.status[t])
<1> SUFFICES
      /\ \A t \in D : t[1] \in written'.script => Ok(t)
      /\ \A t \in D : t \in DOMAIN cache'.map => t[1] <= feed'.block - Len(script'.queue)
      /\ \A t \in D : script'.at # 0 /\ t[1] = script'.at /\ t \notin script'.todo => Ok(t)
      /\ \A t \in D : t \in script'.todo /\ script'.at # 0 =>
            IF script'.saving # <<>> /\ t = FirstOf(script'.todo)
            THEN t \in DOMAIN cache'.map => cache'.map[t] = Head(script'.saving)
            ELSE t \notin DOMAIN cache'.map
  BY <1>1 DEF ScriptTxs, Agree, FirstOf
<1>5. ASSUME feed'.block = feed.block, UNCHANGED script, written'.script = written.script,
             \A t \in D :
                /\ t \in DOMAIN db.status => t \in DOMAIN db'.status
                /\ t \in DOMAIN db.status => db'.status[t] = db.status[t]
                /\ t \in DOMAIN cache'.map =>
                    t \in DOMAIN cache.map /\ cache'.map[t] = cache.map[t]
      PROVE  /\ \A t \in D : t[1] \in written'.script => Ok(t)
             /\ \A t \in D : t \in DOMAIN cache'.map => t[1] <= feed'.block - Len(script'.queue)
             /\ \A t \in D : script'.at # 0 /\ t[1] = script'.at /\ t \notin script'.todo => Ok(t)
             /\ \A t \in D : t \in script'.todo /\ script'.at # 0 =>
                    IF script'.saving # <<>> /\ t = FirstOf(script'.todo)
                    THEN t \in DOMAIN cache'.map => cache'.map[t] = Head(script'.saving)
                    ELSE t \notin DOMAIN cache'.map
  BY <1>4, <1>5, <1>a, <1>b, <1>c, <1>d
<1>6. CASE UNCHANGED tsVars \/ FeedMainStep \/ MainBeginStep \/ MainEvictStep \/ MainFailsStep
  <2>1. /\ feed'.block = feed.block /\ UNCHANGED <<script, db, written>>
        /\ DOMAIN cache'.map \subseteq DOMAIN cache.map
        /\ \A t \in DOMAIN cache'.map : cache'.map[t] = cache.map[t]
    BY <1>6 DEF tsVars, FeedMainStep, MainBeginStep, MainEvictStep, MainFailsStep
  <2> QED
    BY <1>5, <2>1
<1>7. CASE \E t : MainStatusStep(t)
  <2>1. PICK u : MainStatusStep(u)
    BY <1>7
  <2>2. /\ UNCHANGED <<feed, script, db, written>> /\ u \notin D
        /\ cache' = AddValue(cache, u, TxAt(u).errors)
    BY <1>2, <2>1 DEF MainStatusStep
  <2>3. \A t \in D : t \in DOMAIN cache'.map =>
            t \in DOMAIN cache.map /\ cache'.map[t] = cache.map[t]
    BY <2>2, AddValueFacts
  <2> QED
    BY <1>5, <2>2, <2>3
<1>8. CASE MainSaveStep
  <2>1. /\ UNCHANGED <<feed, script, cache>> /\ written'.script = written.script
        /\ db'.status = Merge(main.batch, db.status)
    BY <1>8 DEF MainSaveStep
  <2>2. \A t \in D : t \in DOMAIN db.status =>
            t \in DOMAIN db'.status /\ db'.status[t] = db.status[t]
    BY <1>2, <2>1 DEF Merge
  <2> QED
    BY <1>5, <2>1, <2>2
<1>9. CASE FeedScriptStep
  <2>1. /\ UNCHANGED <<db, cache, written>> /\ script'.at = script.at
        /\ script'.todo = script.todo /\ script'.saving = script.saving
        /\ feed'.block = F + 1
    BY <1>4, <1>9 DEF FeedScriptStep, Rest
  <2>2. Len(script'.queue) \in {L, L + 1}
    BY <1>0, <1>4, <1>9 DEF FeedScriptStep
  <2>3. ASSUME NEW t \in D, t \in DOMAIN cache'.map
        PROVE  t[1] <= feed'.block - Len(script'.queue)
    <3>1. t[1] \in Nat /\ t[1] <= F - L
      BY <1>3, <1>b, <2>1, <2>3
    <3>2. PICK M \in {L, L + 1} : M = Len(script'.queue)
      BY <2>2
    <3>3. t[1] <= (F + 1) - M
      BY <3>1
    <3> QED
      BY <2>1, <3>2, <3>3
  <2> QED
    BY <1>a, <1>c, <1>d, <2>1, <2>3
<1>10. CASE ScriptBeginStep
  <2>1. /\ UNCHANGED <<feed, db, cache, written>> /\ script.at = 0
        /\ script'.saving = <<>>
        /\ script'.todo = TxsOf(Head(script.queue), ScriptKinds)
        /\ script'.at # 0 => script'.at = Head(script.queue)
        /\ Head(script.queue) \in 1..Len(chain)
    BY <1>0, <1>10 DEF ScriptBeginStep, ScriptOrder
  <2>2. Len(script'.queue) = L - 1
    BY <1>0, <1>4, <1>10 DEF ScriptBeginStep
  <2>3. script'.at # 0 => script'.at = F - (L - 1)
    BY <1>4, <2>1, <2>2, ScriptOrderStep DEF ScriptOrder
  <2>4. ASSUME NEW t \in D
        PROVE  t \in script'.todo <=> t[1] = Head(script.queue)
    <3>1. \A n \in 1..Len(chain) :
            t \in TxsOf(n, ScriptKinds) <=> t \in Txs(ScriptKinds) /\ t[1] = n
      BY <1>0, TxsFacts
    <3> QED
      BY <1>1, <2>1, <3>1
  <2>5. ASSUME NEW t \in D, t \in DOMAIN cache'.map
        PROVE  t[1] <= feed'.block - Len(script'.queue)
    <3>1. t[1] \in Nat /\ t[1] <= F - L
      BY <1>3, <1>b, <2>1, <2>5
    <3> QED
      BY <1>4, <2>1, <2>2, <3>1
  <2>6. ASSUME NEW t \in D, t \in script'.todo, script'.at # 0
        PROVE  t \notin DOMAIN cache'.map
    <3>1. t[1] = F - (L - 1)
      BY <2>1, <2>3, <2>4, <2>6
    <3>2. ~(t[1] <= F - L)
      BY <1>4, <3>1
    <3> QED
      BY <1>b, <2>1, <3>2
  <2> QED
    BY <1>a, <2>1, <2>4, <2>5, <2>6
<1>11. CASE \E t, errors : ExecuteStep(t, errors)
  <2>1. PICK u, errors : ExecuteStep(u, errors)
    BY <1>11
  <2>2. /\ UNCHANGED <<feed, db, written>> /\ script.at # 0 /\ script.saving = <<>>
        /\ u \in script.todo /\ u = FirstOf(script.todo) /\ u \in D
        /\ script'.saving = <<errors>> /\ script'.at = script.at
        /\ script'.todo = script.todo /\ script'.queue = script.queue
        /\ cache' = AddValue(cache, u, errors)
    BY <1>2, <2>1 DEF ExecuteStep
  <2>3. /\ DOMAIN cache'.map = DOMAIN cache.map \cup {u}
        /\ \A t \in DOMAIN cache.map : cache'.map[t] = cache.map[t]
        /\ u \notin DOMAIN cache.map => cache'.map[u] = errors
    BY <2>2, AddValueFacts
  <2>4. u \notin DOMAIN cache.map
    BY <1>d, <2>2
  <2>5. u[1] = script.at /\ u[1] \notin written.script
    BY <1>e, <2>2
  <2>6. u[1] <= F - L
    BY <1>0, <1>4, <2>2, <2>5 DEF ScriptOrder
  <2>7. \A t \in D : t[1] \in written'.script => Ok(t)
    BY <1>a, <2>2, <2>3, <2>5
  <2>8. \A t \in D : t \in DOMAIN cache'.map => t[1] <= feed'.block - Len(script'.queue)
    BY <1>4, <1>b, <2>2, <2>3, <2>6
  <2>9. \A t \in D : script'.at # 0 /\ t[1] = script'.at /\ t \notin script'.todo => Ok(t)
    BY <1>c, <2>2, <2>3
  <2>10. Head(script'.saving) = errors
    BY <2>2
  <2> QED
    BY <1>d, <2>2, <2>3, <2>4, <2>7, <2>8, <2>9, <2>10
<1>12. CASE \E t : ScriptStatusStep(t)
  <2>1. PICK u : ScriptStatusStep(u)
    BY <1>12
  <2>2. /\ UNCHANGED <<feed, cache, written>> /\ script.saving # <<>>
        /\ u \in script.todo /\ u = FirstOf(script.todo) /\ u \in D
        /\ script'.saving = <<>> /\ script'.at = script.at
        /\ script'.todo = script.todo \ {u} /\ script'.queue = script.queue
        /\ db'.status = Update(db.status, u, Head(script.saving))
    BY <1>2, <2>1 DEF ScriptStatusStep
  <2>3. script.at # 0
    BY <2>2 DEF ScriptOrder
  <2>4. /\ DOMAIN db'.status = DOMAIN db.status \cup {u}
        /\ db'.status[u] = Head(script.saving)
        /\ \A t \in DOMAIN db.status : t # u => db'.status[t] = db.status[t]
    BY <2>2 DEF Update
  <2>5. u[1] = script.at /\ u[1] \notin written.script
    BY <1>e, <2>2, <2>3
  <2>6. u \in DOMAIN cache.map => cache.map[u] = Head(script.saving)
    BY <1>d, <2>2, <2>3
  <2>7. \A t \in D : t[1] \in written'.script => Ok(t)
    BY <1>a, <2>2, <2>4, <2>5
  <2>8. \A t \in D : script'.at # 0 /\ t[1] = script'.at /\ t \notin script'.todo => Ok(t)
    BY <1>c, <2>2, <2>4, <2>6
  <2>9. \A t \in D : t \in DOMAIN cache'.map => t[1] <= feed'.block - Len(script'.queue)
    BY <1>4, <1>b, <2>2
  <2>10. \A t \in D : t \in script'.todo => t \notin DOMAIN cache'.map
    BY <1>d, <2>2, <2>3
  <2> QED
    BY <2>2, <2>7, <2>8, <2>9, <2>10
<1>13. CASE ScriptSaveStep
  <2>1. /\ UNCHANGED <<feed, cache>> /\ script.at # 0 /\ script.todo = {}
        /\ script'.at = 0 /\ script'.queue = script.queue
        /\ written'.script = written.script \cup {script.at} /\ db'.status = db.status
    BY <1>13 DEF ScriptSaveStep
  <2> QED
    BY <1>4, <1>a, <1>b, <1>c, <2>1
<1>14. CASE ScriptFailsStep
  <2>1. /\ UNCHANGED <<feed, cache, written, db>>
        /\ script'.at = 0 /\ script'.queue = script.queue
    BY <1>14 DEF ScriptFailsStep
  <2> QED
    BY <1>4, <1>a, <1>b, <2>1
<1>15. CASE RestartStep
  <2>1. UNCHANGED <<written, db>> /\ script'.at = 0 /\ DOMAIN cache'.map = {}
    BY <1>15 DEF RestartStep
  <2> QED
    BY <1>a, <2>1
<1> QED
  BY <1>6, <1>7, <1>8, <1>9, <1>10, <1>11, <1>12, <1>13, <1>14, <1>15, TsShapes
     DEF MainStep, ScriptStep

(***************************************************************************)
(* The theorems.                                                           *)
(***************************************************************************)

LEMMA TsInitInv == TsInit => TsInv /\ KeysNotEvicted
<1> SUFFICES ASSUME TsInit PROVE TsInv /\ KeysNotEvicted
  OBVIOUS
<1>0. TsTypeOK
  BY TsInitTypes
<1>1. /\ feed.block = 0 /\ feed.toMain = TRUE
      /\ main.queue = <<>> /\ main.at = 0 /\ main.todo = {} /\ DOMAIN main.batch = {}
      /\ main.init = 0
      /\ script.queue = <<>> /\ script.at = 0 /\ script.todo = {} /\ script.init = 0
      /\ DOMAIN script.batch = {} /\ script.saving = <<>>
      /\ db.mainBlock = 0 /\ db.scriptBlock = 0
      /\ \A c \in Contract : db.v8[c].block = 0
      /\ DOMAIN cache.map = {} /\ cache.keys = {}
      /\ evicted = {} /\ written.main = {} /\ written.script = {}
      /\ Keep \in Nat \ {0} /\ Len(chain) \in Nat
  BY <1>0, EmptyFacts, TxStatusAssumption, NumberFacts DEF TsInit, MainMade, ScriptMade, NoCache
<1>2. MainOrder
  BY <1>1 DEF MainOrder, FeedEnd
<1>3. ScriptOrder
  BY <1>1 DEF ScriptOrder
<1>4. Undisturbed
  <2>1. FeedEnd - Len(main.queue) = 0 /\ Done = 0
    BY <1>1 DEF FeedEnd, Done
  <2>2. \A n \in 1..Len(chain) : ~(n + Keep <= 0)
    BY <1>1
  <2> QED
    BY <1>1, <2>1, <2>2 DEF Undisturbed
<1>5. MainStatuses
  BY <1>1 DEF MainStatuses
<1>6. ScriptStatuses
  BY <1>1 DEF ScriptStatuses
<1>7. KeysNotEvicted
  BY <1>1 DEF KeysNotEvicted
<1> QED
  BY <1>0, <1>2, <1>3, <1>4, <1>5, <1>6, <1>7 DEF TsInv

LEMMA TsStepInv ==
    ASSUME TsInv, [TsNext]_tsVars
    PROVE  TsInv'
<1>0. TsTypeOK /\ MainOrder /\ ScriptOrder /\ Undisturbed /\ MainStatuses /\ ScriptStatuses
  BY DEF TsInv
<1>1. TsTypeOK' /\ MainOrder' /\ ScriptOrder' /\ Undisturbed' /\ MainStatuses'
  BY <1>0, TsNextTypes, MainOrderStep, ScriptOrderStep, UndisturbedStep, MainStatusesStep
<1>2. ScriptBlocks' /\ ScriptTxs'
  BY <1>0, ScriptBlocksStep, ScriptTxsStep
<1>3. ScriptStatuses'
  BY <1>2 DEF ScriptStatuses, ScriptBlocks, ScriptTxs
<1> QED
  BY <1>1, <1>3 DEF TsInv

\* The order of the blocks in the queues and what is said of the statuses are
\* an inductive invariant of the three threads, with all failures and restarts.
THEOREM TsInvariant == TsSpec => []TsInv
<1>1. TsInit => TsInv
  BY TsInitInv
<1>2. TsInv /\ [TsNext]_tsVars => TsInv'
  BY TsStepInv
<1> QED
  BY <1>1, <1>2, PTL DEF TsSpec

\* The types: among others, the queues keep to their capacities.
THEOREM TsTypes == TsSpec => []TsTypeOK
<1>1. TsInv => TsTypeOK
  BY DEF TsInv
<1> QED
  BY <1>1, TsInvariant, PTL

\* When max_count_blocks_txs_cache is at least two more than the capacity of the
\* queue of the script worker, nothing is cached under an attribute that was removed,
\* and as long as nothing fails the cache holds the last blocks only.
THEOREM RecentAttributes ==
    ASSUME Keep >= ScriptCapacity + 2
    PROVE  TsSpec => []AttributesRecent
<1>0. KeepsEnough
  BY DEF KeepsEnough
<1> DEFINE I == TsInv /\ KeysNotEvicted
<1>1. TsInit => I
  BY TsInitInv
<1>2. ASSUME I, [TsNext]_tsVars PROVE I'
  <2>1. TsInv'
    BY <1>2, TsStepInv
  <2>2. KeysNotEvicted'
    BY <1>0, <1>2, KeysNotEvictedStep DEF TsInv
  <2> QED
    BY <2>1, <2>2
<1>3. I => AttributesRecent
  BY RecentKeys DEF TsInv
<1> HIDE DEF I
<1>4. I /\ [TsNext]_tsVars => I'
  BY <1>2
<1> QED
  BY <1>1, <1>3, <1>4, PTL DEF TsSpec

\* A settled status is in the database, and in the cache there is no other.
LEMMA SettledFacts ==
    ASSUME TsTypeOK, MainStatuses, ScriptStatuses, NEW t \in Settled
    PROVE  t \in DOMAIN db.status /\ Readable(t) = db.status[t] /\ Readable(t) # None
<1>1. t \in DOMAIN db.status /\ (t \in DOMAIN cache.map => cache.map[t] = db.status[t])
  <2>1. CASE t \in Txs({"delegate"}) /\ t[1] \in written.main
    BY <2>1 DEF MainStatuses
  <2>2. CASE t \in Txs(ScriptKinds) /\ t[1] \in written.script
    BY <2>2 DEF ScriptStatuses, Agree
  <2> QED
    BY <2>1, <2>2 DEF Settled
<1>2. Readable(t) = db.status[t]
  BY <1>1 DEF Readable
<1>3. db.status[t] \in SUBSET Failure
  <2>1. db.status \in Statuses
    BY StoreTypes DEF TsTypeOK, DbType
  <2>2. db.status \in [DOMAIN db.status -> SUBSET Failure]
    BY <2>1, StatusesFacts
  <2> QED
    BY <1>1, <2>2
<1>4. "none" \notin Failure
  BY DEF Failure
<1>5. db.status[t] # None
  BY <1>3, <1>4 DEF None
<1> QED
  BY <1>1, <1>2, <1>5

\* No step takes a block from the written ones, or the status of one of its
\* transactions from the database.
LEMMA SettledKept ==
    ASSUME TsInv, [TsNext]_tsVars, NEW t \in Settled
    PROVE  t \in Settled' /\ db'.status[t] = db.status[t]
<1>0. /\ TsTypeOK /\ MainOrder /\ ScriptOrder /\ MainStatuses /\ ScriptStatuses
      /\ MainStatuses' /\ UNCHANGED chain /\ chain \in Seq(Seq(Tx))
  BY MainStatusesStep, ChainKept DEF TsInv, TsTypeOK
<1>1. /\ written.main \subseteq written'.main /\ written.script \subseteq written'.script
      /\ \/ db'.status = db.status
         \/ db'.status = Merge(main.batch, db.status)
         \/ \E u \in script.todo, s \in {Head(script.saving)} :
                script.at # 0 /\ db'.status = Update(db.status, u, s)
  <2>1. CASE UNCHANGED tsVars \/ FeedMainStep \/ FeedScriptStep \/ RestartStep
    BY <2>1 DEF tsVars, FeedMainStep, FeedScriptStep, RestartStep
  <2>2. CASE MainBeginStep \/ MainEvictStep \/ MainFailsStep \/ \E u : MainStatusStep(u)
    BY <2>2 DEF MainBeginStep, MainEvictStep, MainFailsStep, MainStatusStep
  <2>3. CASE MainSaveStep \/ ScriptSaveStep
    BY <2>3 DEF MainSaveStep, ScriptSaveStep
  <2>4. CASE ScriptBeginStep \/ ScriptFailsStep \/ \E u, e : ExecuteStep(u, e)
    BY <2>4 DEF ScriptBeginStep, ScriptFailsStep, ExecuteStep
  <2>5. CASE \E u : ScriptStatusStep(u)
    <3>1. PICK u : ScriptStatusStep(u)
      BY <2>5
    <3>2. script.at # 0
      BY <1>0, <3>1 DEF ScriptStatusStep, ScriptOrder
    <3> QED
      BY <3>1, <3>2 DEF ScriptStatusStep
  <2> QED
    BY <1>0, <2>1, <2>2, <2>3, <2>4, <2>5, TsShapes DEF MainStep, ScriptStep
<1>2. /\ Txs({"delegate"})' = Txs({"delegate"}) /\ Txs(ScriptKinds)' = Txs(ScriptKinds)
      /\ TxAt(t)' = TxAt(t)
  BY <1>0, SameChain
<1>3. t \in Settled'
  BY <1>1, <1>2 DEF Settled
<1>4. CASE t \in Txs({"delegate"}) /\ t[1] \in written.main
  <2>1. db.status[t] = TxAt(t).errors
    BY <1>0, <1>4 DEF MainStatuses
  <2>2. db'.status[t] = TxAt(t)'.errors
    BY <1>0, <1>1, <1>2, <1>4 DEF MainStatuses
  <2> QED
    BY <1>2, <1>3, <2>1, <2>2
<1>5. CASE t \in Txs(ScriptKinds) /\ t[1] \in written.script
  <2>1. t \in DOMAIN db.status
    BY <1>0, SettledFacts
  <2>2. t \notin DOMAIN main.batch
    BY <1>0, <1>5, KindFacts DEF MainStatuses
  <2>3. ASSUME NEW u \in script.todo, NEW s, script.at # 0,
               db'.status = Update(db.status, u, s)
        PROVE  db'.status[t] = db.status[t]
    <3>1. u[1] = script.at /\ script.at > db.scriptBlock
      BY <1>0, <2>3 DEF ScriptOrder
    <3>2. t[1] <= db.scriptBlock
      BY <1>0, <1>5 DEF ScriptStatuses
    <3>3. script.at \in Nat /\ db.scriptBlock \in Nat
      BY <1>0, NumberFacts
    <3>4. t # u
      BY <3>1, <3>2, <3>3
    <3> QED
      BY <2>1, <2>3, <3>4 DEF Update
  <2>4. db'.status = Merge(main.batch, db.status) => db'.status[t] = db.status[t]
    BY <2>1, <2>2 DEF Merge
  <2> QED
    BY <1>1, <1>3, <2>3, <2>4
<1> QED
  BY <1>4, <1>5 DEF Settled

\* Once its block is written the status of a transaction can be read and never
\* changes, with any number of failures and restarts (StatusKept).
THEOREM StatusesKept == TsSpec => StatusKept
<1>1. ASSUME TsInv, [TsNext]_tsVars
      PROVE  [\A t \in Settled : Readable(t) # None /\ Readable(t)' = Readable(t)]_tsVars
  <2> SUFFICES ASSUME NEW t \in Settled
               PROVE  Readable(t) # None /\ Readable(t)' = Readable(t)
    OBVIOUS
  <2>0. /\ TsTypeOK /\ MainStatuses /\ ScriptStatuses
        /\ TsTypeOK' /\ MainStatuses' /\ ScriptStatuses'
    BY <1>1, TsStepInv DEF TsInv
  <2>1. Readable(t) = db.status[t] /\ Readable(t) # None
    BY <2>0, SettledFacts
  <2>2. t \in Settled' /\ db'.status[t] = db.status[t]
    BY <1>1, SettledKept
  <2>3. Readable(t)' = db'.status[t]
    <3>1. t \in DOMAIN db'.status /\ (t \in DOMAIN cache'.map => cache'.map[t] = db'.status[t])
      <4>1. CASE t \in Txs({"delegate"})' /\ t[1] \in written'.main
        BY <2>0, <4>1 DEF MainStatuses
      <4>2. CASE t \in Txs(ScriptKinds)' /\ t[1] \in written'.script
        BY <2>0, <4>2 DEF ScriptStatuses, Agree
      <4> QED
        BY <2>2, <4>1, <4>2 DEF Settled
    <3> QED
      BY <3>1 DEF Readable
  <2> QED
    BY <2>1, <2>2, <2>3
<1>2. TsInv /\ [TsNext]_tsVars =>
        [\A t \in Settled : Readable(t) # None /\ Readable(t)' = Readable(t)]_tsVars
  BY <1>1
<1> QED
  BY <1>2, TsInvariant, PTL DEF TsSpec, StatusKept

(***************************************************************************)
(* The statuses and the states of contracts.                               *)
(***************************************************************************)

\* The transactions of block n on contract c that may succeed.
OfContract(n, c) == {t \in TxsOf(n, {"compile", "run"}) : TxAt(t).contract = c}

\* Those of the block at hand that have been executed with success: their status
\* is saved, or about to be.
Executed(c) ==
    {t \in OfContract(script.at, c) :
        \/ t \notin script.todo /\ db.status[t] = {}
        \/ script.saving = <<{}>> /\ t = FirstOf(script.todo)}

\* What is left of the block comes after what has been executed.
TodoLast ==
    script.at # 0 =>
        \A t \in TxsOf(script.at, ScriptKinds), u \in script.todo :
            t \notin script.todo => t[2] < u[2]

\* The batch has the state of a contract as it is after the last success on it.
\* Each success starts from the state before the block, so the earlier ones are
\* not in it.
BatchLast(c, E) ==
    IF E = {} THEN c \notin DOMAIN script.batch
    ELSE c \in DOMAIN script.batch
         /\ script.batch[c].txs = Append(db.v8[c].txs, LastOf(E))

BatchMatches == script.at # 0 => \A c \in Contract : BatchLast(c, Executed(c))

MatchInv == TodoLast /\ BatchMatches /\ StatusMatchesState

\* The places of transactions: a block and a number in it.
LEMMA PlaceFacts ==
    ASSUME chain \in Seq(Seq(Tx)), NEW n \in 1..Len(chain), NEW kinds,
           NEW t \in TxsOf(n, kinds)
    PROVE  t = <<n, t[2]>> /\ t[1] = n /\ t[2] \in Nat /\ TxAt(t).kind \in kinds
<1>1. t \in {n} \X DOMAIN chain[n] /\ TxAt(t).kind \in kinds
  BY DEF TxsOf
<1>2. chain[n] \in Seq(Tx)
  OBVIOUS
<1>3. DOMAIN chain[n] \subseteq Nat
  BY <1>2
<1> QED
  BY <1>1, <1>3

\* FirstOf is the transaction with the least number.
LEMMA FirstIsLeast ==
    ASSUME chain \in Seq(Seq(Tx)), NEW n \in 1..Len(chain), NEW kinds,
           NEW txs \in SUBSET TxsOf(n, kinds), txs # {}
    PROVE  FirstOf(txs) \in txs /\ \A u \in txs : u # FirstOf(txs) => FirstOf(txs)[2] < u[2]
<1>1. \A t \in txs : t = <<n, t[2]>> /\ t[2] \in Nat
  BY PlaceFacts
<1> DEFINE T == {t[2] : t \in txs}
<1>2. T \subseteq Nat /\ T # {}
  BY <1>1
<1>3. PICK x \in T : \A y \in T : x <= y
  BY <1>2, NatMin, Zenon
<1>4. PICK t \in txs : x = t[2]
  OBVIOUS
<1>5. \A u \in txs : t[2] <= u[2]
  BY <1>3, <1>4
<1>6. PICK f : f = FirstOf(txs)
  OBVIOUS
<1>7. f \in txs /\ \A u \in txs : f[2] <= u[2]
  BY <1>5, <1>6, Zenon DEF FirstOf
<1>8. ASSUME NEW u \in txs, u # f PROVE f[2] < u[2]
  <2>1. f = <<n, f[2]>> /\ u = <<n, u[2]>> /\ f[2] \in Nat /\ u[2] \in Nat
    BY <1>1, <1>7
  <2>2. f[2] # u[2]
    BY <1>8, <2>1
  <2> QED
    BY <1>7, <2>1, <2>2
<1> QED
  BY <1>6, <1>7, <1>8

\* A transaction after all others is the last one.
LEMMA LastAdded ==
    ASSUME NEW E, NEW t, t[2] \in Nat, \A u \in E : u[2] \in Nat /\ u[2] < t[2]
    PROVE  LastOf(E \cup {t}) = t
<1>1. PICK S : S = E \cup {t}
  OBVIOUS
<1>2. t \in S /\ \A u \in S : t[2] >= u[2]
  BY <1>1
<1>3. PICK l : l = LastOf(S)
  OBVIOUS
<1>4. l \in S /\ \A u \in S : l[2] >= u[2]
  BY <1>2, <1>3, Zenon DEF LastOf
<1>5. l = t
  BY <1>1, <1>2, <1>4
<1> QED
  BY <1>1, <1>3, <1>5

\* What is said of the chain and of the block at hand, and is not disturbed.
LEMMA BlockAtHand ==
    ASSUME TsTypeOK, ScriptOrder, script.at # 0
    PROVE  /\ chain \in Seq(Seq(Tx)) /\ script.at \in 1..Len(chain)
           /\ script.todo \in SUBSET TxsOf(script.at, ScriptKinds)
           /\ \A c : OfContract(script.at, c) \subseteq TxsOf(script.at, ScriptKinds)
<1>1. /\ chain \in Seq(Seq(Tx)) /\ Len(chain) \in Nat /\ script.at \in Nat
      /\ script.at <= Len(chain) /\ script.todo \subseteq Txs(ScriptKinds)
  BY NumberFacts
<1>2. script.at \in 1..Len(chain)
  BY <1>1
<1>3. ASSUME NEW t \in script.todo PROVE t \in TxsOf(script.at, ScriptKinds)
  <2>1. t \in Txs(ScriptKinds) /\ t[1] = script.at
    BY <1>1 DEF ScriptOrder
  <2>2. \A n \in 1..Len(chain) :
            t \in TxsOf(n, ScriptKinds) <=> t \in Txs(ScriptKinds) /\ t[1] = n
    BY <1>1, TxsFacts
  <2> QED
    BY <1>2, <2>1, <2>2
<1>4. \A c : OfContract(script.at, c) \subseteq TxsOf(script.at, ScriptKinds)
  BY DEF OfContract, TxsOf, ScriptKinds
<1> QED
  BY <1>1, <1>2, <1>3, <1>4

\* The status of a transaction that has been executed is in the database.
LEMMA ExecutedSaved ==
    ASSUME TsTypeOK, ScriptOrder, ScriptStatuses, script.at # 0,
           NEW t \in TxsOf(script.at, ScriptKinds), t \notin script.todo
    PROVE  t \in DOMAIN db.status
<1>1. chain \in Seq(Seq(Tx)) /\ script.at \in 1..Len(chain)
  BY BlockAtHand
<1>2. t \in Txs(ScriptKinds) /\ t[1] = script.at
  BY <1>1, TxsFacts
<1> QED
  BY <1>2 DEF ScriptStatuses, Agree

\* A step that leaves the block at hand and the statuses of what has been executed.
SameBatch ==
    /\ script'.at = script.at /\ script'.todo = script.todo
    /\ script'.saving = script.saving /\ script'.batch = script.batch
    /\ db'.v8 = db.v8
    /\ \A t \in Txs(ScriptKinds) : t \in DOMAIN db.status => db'.status[t] = db.status[t]

LEMMA SameBatchStep ==
    ASSUME TsTypeOK, ScriptOrder, ScriptStatuses, TodoLast, BatchMatches,
           UNCHANGED chain, SameBatch
    PROVE  TodoLast' /\ BatchMatches'
<1> SUFFICES ASSUME script.at # 0 PROVE TodoLast' /\ BatchMatches'
  BY DEF TodoLast, BatchMatches, SameBatch
<1>0. /\ chain \in Seq(Seq(Tx)) /\ script.at \in 1..Len(chain)
      /\ \A c : OfContract(script.at, c) \subseteq TxsOf(script.at, ScriptKinds)
  BY BlockAtHand
<1>1. PICK A : A = script.at /\ A = script'.at
  BY DEF SameBatch
<1>2. PICK D : D = TxsOf(A, ScriptKinds) /\ D = TxsOf(A, ScriptKinds)'
  BY SameChain
<1>3. TodoLast'
  BY <1>1, <1>2 DEF TodoLast, SameBatch
<1>4. ASSUME NEW t \in D, t \notin script.todo PROVE db'.status[t] = db.status[t]
  <2>1. t \in DOMAIN db.status
    BY <1>1, <1>2, <1>4, ExecutedSaved
  <2>2. t \in Txs(ScriptKinds)
    BY <1>0, <1>1, <1>2, TxsFacts
  <2> QED
    BY <2>1, <2>2 DEF SameBatch
<1>5. ASSUME NEW c PROVE Executed(c)' = Executed(c)
  <2>1. PICK O : O = OfContract(A, c) /\ O = OfContract(A, c)' /\ O \subseteq D
    <3>1. OfContract(A, c)' = OfContract(A, c)
      BY SameChain DEF OfContract
    <3>2. OfContract(A, c) \subseteq D
      BY <1>0, <1>1, <1>2
    <3> QED
      BY <3>1, <3>2
  <2>2. Executed(c) = {t \in O : \/ t \notin script.todo /\ db.status[t] = {}
                                 \/ script.saving = <<{}>> /\ t = FirstOf(script.todo)}
    BY <1>1, <2>1 DEF Executed
  <2>3. Executed(c)' = {t \in O : \/ t \notin script.todo /\ db'.status[t] = {}
                                  \/ script.saving = <<{}>> /\ t = FirstOf(script.todo)}
    BY <1>1, <2>1 DEF Executed, SameBatch, FirstOf
  <2>4. \A t \in O : t \notin script.todo => db'.status[t] = db.status[t]
    BY <1>4, <2>1
  <2> QED
    BY <2>2, <2>3, <2>4
<1>6. ASSUME NEW c \in Contract PROVE BatchLast(c, Executed(c))'
  <2>1. PICK E : E = Executed(c) /\ E = Executed(c)'
    BY <1>5
  <2>2. BatchLast(c, E)
    BY <2>1 DEF BatchMatches
  <2>3. (c \in DOMAIN script'.batch <=> c \in DOMAIN script.batch)
        /\ script'.batch[c] = script.batch[c] /\ db'.v8[c] = db.v8[c]
    BY DEF SameBatch
  <2>4. IF E = {} THEN c \notin DOMAIN script'.batch
        ELSE c \in DOMAIN script'.batch
             /\ script'.batch[c].txs = Append(db'.v8[c].txs, LastOf(E))
    BY <2>2, <2>3 DEF BatchLast
  <2> QED
    BY <2>1, <2>4 DEF BatchLast, LastOf
<1> QED
  BY <1>3, <1>6 DEF BatchMatches

\* A new block: nothing of it has been executed.
LEMMA BeginBatch ==
    ASSUME TsTypeOK, ScriptOrder, ScriptStatuses, ScriptBeginStep
    PROVE  TodoLast' /\ BatchMatches'
<1>1. /\ UNCHANGED chain /\ script.at = 0 /\ script'.batch = script.batch
      /\ script'.saving = <<>>
      /\ script'.todo = TxsOf(Head(script.queue), ScriptKinds)
      /\ script'.at # 0 => script'.at = Head(script.queue)
  BY DEF ScriptBeginStep, ScriptOrder
<1>2. DOMAIN script'.batch = {}
  BY <1>1 DEF ScriptStatuses
<1> SUFFICES ASSUME script'.at # 0 PROVE TodoLast' /\ BatchMatches'
  BY DEF TodoLast, BatchMatches
<1>3. script'.todo = TxsOf(script'.at, ScriptKinds)
  BY <1>1
<1>4. PICK A : A = script'.at
  OBVIOUS
<1>5. PICK D : D = TxsOf(A, ScriptKinds) /\ D = TxsOf(A, ScriptKinds)'
  BY <1>1, SameChain
<1>6. TodoLast'
  BY <1>3, <1>4, <1>5 DEF TodoLast
<1>7. ASSUME NEW c \in Contract PROVE BatchLast(c, Executed(c))'
  <2>1. OfContract(A, c)' \subseteq D
    <3>1. OfContract(A, c) \subseteq TxsOf(A, ScriptKinds)
      BY DEF OfContract, TxsOf, ScriptKinds
    <3>2. OfContract(A, c)' = OfContract(A, c)
      BY <1>1, SameChain DEF OfContract
    <3> QED
      BY <1>5, <3>1, <3>2
  <2>2. script'.saving # <<{}>>
    BY <1>1
  <2>3. Executed(c)' = {}
    BY <1>3, <1>4, <1>5, <2>1, <2>2 DEF Executed
  <2> QED
    BY <1>2, <2>3 DEF BatchLast
<1> QED
  BY <1>6, <1>7 DEF BatchMatches

\* A transaction is executed: with a success it is the last one of its contract.
LEMMA ExecuteBatch ==
    ASSUME TsTypeOK, ScriptOrder, ScriptStatuses, TodoLast, BatchMatches,
           NEW t, NEW errors, ExecuteStep(t, errors)
    PROVE  TodoLast' /\ BatchMatches'
<1>1. /\ script.at # 0 /\ t \in script.todo /\ t = FirstOf(script.todo)
      /\ script.saving = <<>> /\ (TxAt(t).kind = "unknown" => errors # {})
      /\ script'.saving = <<errors>> /\ script'.batch = NewStates(t, errors)
      /\ script'.at = script.at /\ script'.todo = script.todo
      /\ UNCHANGED chain /\ UNCHANGED db
  BY DEF ExecuteStep
<1>2. /\ chain \in Seq(Seq(Tx)) /\ script.at \in 1..Len(chain)
      /\ script.todo \in SUBSET TxsOf(script.at, ScriptKinds)
      /\ \A c : OfContract(script.at, c) \subseteq TxsOf(script.at, ScriptKinds)
  BY <1>1, BlockAtHand
<1>3. PICK A : A = script.at /\ A = script'.at
  BY <1>1
<1>4. PICK D : D = TxsOf(A, ScriptKinds) /\ D = TxsOf(A, ScriptKinds)'
  BY <1>1, SameChain
<1>5. TodoLast'
  BY <1>1, <1>3, <1>4 DEF TodoLast
<1>6. PICK tx : tx = TxAt(t)
  OBVIOUS
<1>7. ASSUME NEW c
      PROVE  /\ t \notin Executed(c)
             /\ Executed(c)' = IF errors = {} /\ tx.contract = c
                               THEN Executed(c) \cup {t} ELSE Executed(c)
  <2>1. PICK O : O = OfContract(A, c) /\ O = OfContract(A, c)'
    <3>1. OfContract(A, c)' = OfContract(A, c)
      BY <1>1, SameChain DEF OfContract
    <3> QED
      BY <3>1
  <2>2. script.saving # <<{}>>
    BY <1>1
  <2>3. script'.saving = <<{}>> <=> errors = {}
    BY <1>1
  <2>4. Executed(c) = {u \in O : u \notin script.todo /\ db.status[u] = {}}
    BY <1>3, <2>1, <2>2 DEF Executed
  <2>5. Executed(c)' = {u \in O : \/ u \notin script.todo /\ db.status[u] = {}
                                  \/ errors = {} /\ u = t}
    <3>1. FirstOf(script.todo)' = t
      BY <1>1 DEF FirstOf
    <3> QED
      BY <1>1, <1>3, <2>1, <2>3, <3>1 DEF Executed
  <2>6. errors = {} => (t \in O <=> tx.contract = c)
    <3>1. t \in TxsOf(A, ScriptKinds)
      BY <1>1, <1>2, <1>3
    <3>2. errors = {} => tx.kind \in {"compile", "run"}
      <4>1. tx.kind \in ScriptKinds
        BY <1>2, <1>3, <1>6, <3>1, PlaceFacts
      <4> QED
        BY <1>1, <1>6, <4>1 DEF ScriptKinds
    <3>3. errors = {} => t \in TxsOf(A, {"compile", "run"})
      BY <1>6, <3>1, <3>2 DEF TxsOf
    <3> QED
      BY <1>6, <2>1, <3>3 DEF OfContract
  <2> QED
    BY <1>1, <2>4, <2>5, <2>6
<1>8. CASE errors # {}
  <2>1. script'.batch = script.batch
    BY <1>1, <1>8 DEF NewStates
  <2>2. ASSUME NEW c \in Contract PROVE BatchLast(c, Executed(c))'
    <3>1. PICK E : E = Executed(c) /\ E = Executed(c)'
      BY <1>7, <1>8
    <3>2. BatchLast(c, E)
      BY <1>1, <3>1 DEF BatchMatches
    <3>3. IF E = {} THEN c \notin DOMAIN script'.batch
          ELSE c \in DOMAIN script'.batch
               /\ script'.batch[c].txs = Append(db'.v8[c].txs, LastOf(E))
      BY <1>1, <2>1, <3>2 DEF BatchLast
    <3> QED
      BY <3>1, <3>3 DEF BatchLast, LastOf
  <2> QED
    BY <1>5, <2>2 DEF BatchMatches
<1>9. CASE errors = {}
  <2>0. PICK k : k = tx.contract
    OBVIOUS
  <2>1. PICK v : k = tx.contract /\ v = [txs |-> Append(db.v8[k].txs, t), block |-> t[1]]
    BY <2>0
  <2>2. script'.batch = Update(script.batch, k, v)
    <3>1. NewStates(t, errors) =
            Update(script.batch, tx.contract,
                   [txs |-> Append(db.v8[tx.contract].txs, t), block |-> t[1]])
      BY <1>6, <1>9, Zenon DEF NewStates, FindV8State
    <3> QED
      BY <1>1, <2>1, <3>1, Zenon
  <2>3. v.txs = Append(db.v8[k].txs, t)
    BY <2>1
  <2>4. /\ DOMAIN script'.batch = DOMAIN script.batch \cup {k}
        /\ script'.batch[k] = v
        /\ \A c \in DOMAIN script.batch : c # k => script'.batch[c] = script.batch[c]
    BY <2>2 DEF Update
  <2>5. ASSUME NEW c \in Contract PROVE BatchLast(c, Executed(c))'
    <3>1. CASE c = k
      <4>1. PICK E : E = Executed(c) /\ E \cup {t} = Executed(c)'
        BY <1>7, <1>9, <2>1, <3>1
      <4>2. \A u \in E : u \in D /\ u \notin script.todo
        <5>1. script.saving # <<{}>>
          BY <1>1
        <5> QED
          BY <1>2, <1>3, <1>4, <4>1, <5>1 DEF Executed
      <4>3. t[2] \in Nat /\ \A u \in E : u[2] \in Nat
        BY <1>1, <1>2, <1>3, <1>4, <4>2, PlaceFacts
      <4>4. \A u \in E : u[2] < t[2]
        BY <1>1, <1>3, <1>4, <4>2 DEF TodoLast
      <4>5. LastOf(E \cup {t}) = t
        BY <4>3, <4>4, LastAdded
      <4>6. c \in DOMAIN script'.batch
            /\ script'.batch[c].txs = Append(db'.v8[c].txs, t)
        BY <1>1, <2>3, <2>4, <3>1
      <4>7. PICK S : S = E \cup {t} /\ S # {}
        OBVIOUS
      <4>8. S = Executed(c)' /\ LastOf(S) = t
        BY <4>1, <4>5, <4>7
      <4> QED
        BY <4>6, <4>7, <4>8 DEF BatchLast, LastOf
    <3>2. CASE c # k
      <4>1. PICK E : E = Executed(c) /\ E = Executed(c)'
        BY <1>7, <2>1, <3>2
      <4>2. BatchLast(c, E)
        BY <1>1, <4>1 DEF BatchMatches
      <4>3. IF E = {} THEN c \notin DOMAIN script'.batch
            ELSE c \in DOMAIN script'.batch
                 /\ script'.batch[c].txs = Append(db'.v8[c].txs, LastOf(E))
        BY <1>1, <2>4, <3>2, <4>2 DEF BatchLast
      <4> QED
        BY <4>1, <4>3 DEF BatchLast, LastOf
    <3> QED
      BY <3>1, <3>2
  <2> QED
    BY <1>5, <2>5 DEF BatchMatches
<1> QED
  BY <1>8, <1>9

\* Its status is saved.
LEMMA StatusBatch ==
    ASSUME TsTypeOK, ScriptOrder, ScriptStatuses, TodoLast, BatchMatches,
           NEW t, ScriptStatusStep(t)
    PROVE  TodoLast' /\ BatchMatches'
<1>1. /\ script.saving # <<>> /\ t \in script.todo /\ t = FirstOf(script.todo)
      /\ db'.status = Update(db.status, t, Head(script.saving)) /\ db'.v8 = db.v8
      /\ script'.saving = <<>> /\ script'.todo = script.todo \ {t}
      /\ script'.at = script.at /\ script'.batch = script.batch
      /\ UNCHANGED chain
  BY DEF ScriptStatusStep
<1>a. script.at # 0
  BY <1>1 DEF ScriptOrder
<1>2. /\ chain \in Seq(Seq(Tx)) /\ script.at \in 1..Len(chain)
      /\ script.todo \in SUBSET TxsOf(script.at, ScriptKinds)
      /\ \A c : OfContract(script.at, c) \subseteq TxsOf(script.at, ScriptKinds)
  BY <1>a, BlockAtHand
<1>3. PICK A : A = script.at /\ A = script'.at
  BY <1>1
<1>4. PICK D : D = TxsOf(A, ScriptKinds) /\ D = TxsOf(A, ScriptKinds)'
  BY <1>1, SameChain
<1>5. TodoLast'
  <2>1. \A u \in script.todo : u # t => t[2] < u[2]
    BY <1>1, <1>2, FirstIsLeast
  <2>2. \A x \in D, u \in script.todo : x \notin script.todo => x[2] < u[2]
    BY <1>a, <1>3, <1>4 DEF TodoLast
  <2>3. \A x \in D, u \in script.todo \ {t} : x \notin script.todo \ {t} => x[2] < u[2]
    BY <2>1, <2>2
  <2> QED
    BY <1>1, <1>3, <1>4, <2>3 DEF TodoLast
<1>6. PICK e : script.saving = <<e>> /\ e = Head(script.saving)
  <2>1. script.saving \in {<<>>} \cup {<<x>> : x \in SUBSET Failure}
    BY WorkerTypes DEF TsTypeOK, ScriptType
  <2>2. PICK x : script.saving = <<x>>
    BY <1>1, <2>1
  <2> QED
    BY <2>2
<1>7. db'.status[t] = e /\ \A u \in DOMAIN db.status : u # t => db'.status[u] = db.status[u]
  BY <1>1, <1>6 DEF Update
<1>8. ASSUME NEW c PROVE Executed(c)' = Executed(c)
  <2>1. PICK O : O = OfContract(A, c) /\ O = OfContract(A, c)'
    <3>1. OfContract(A, c)' = OfContract(A, c)
      BY <1>1, SameChain DEF OfContract
    <3> QED
      BY <3>1
  <2>2. script.saving = <<{}>> <=> e = {}
    BY <1>6
  <2>3. script'.saving # <<{}>>
    BY <1>1
  <2>4. Executed(c) = {u \in O : \/ u \notin script.todo /\ db.status[u] = {}
                                 \/ e = {} /\ u = t}
    BY <1>1, <1>3, <2>1, <2>2 DEF Executed
  <2>5. Executed(c)' = {u \in O : u \notin script.todo \ {t} /\ db'.status[u] = {}}
    BY <1>1, <1>3, <2>1, <2>3 DEF Executed
  <2>6. ASSUME NEW u \in O, u \notin script.todo PROVE db'.status[u] = db.status[u] /\ u # t
    <3>1. u \in TxsOf(script.at, ScriptKinds)
      BY <1>2, <1>3, <2>1
    <3>2. u \in DOMAIN db.status
      BY <1>a, <2>6, <3>1, ExecutedSaved
    <3> QED
      BY <1>1, <1>7, <2>6, <3>2
  <2> QED
    BY <1>1, <1>7, <2>4, <2>5, <2>6
<1>9. ASSUME NEW c \in Contract PROVE BatchLast(c, Executed(c))'
  <2>1. PICK E : E = Executed(c) /\ E = Executed(c)'
    BY <1>8
  <2>2. BatchLast(c, E)
    BY <1>a, <2>1 DEF BatchMatches
  <2>3. IF E = {} THEN c \notin DOMAIN script'.batch
        ELSE c \in DOMAIN script'.batch
             /\ script'.batch[c].txs = Append(db'.v8[c].txs, LastOf(E))
    BY <1>1, <2>2 DEF BatchLast
  <2> QED
    BY <2>1, <2>3 DEF BatchLast, LastOf
<1> QED
  BY <1>5, <1>9 DEF BatchMatches

LEMMA BatchStep ==
    ASSUME TsInv, TodoLast, BatchMatches, [TsNext]_tsVars
    PROVE  TodoLast' /\ BatchMatches'
<1>0. /\ TsTypeOK /\ ScriptOrder /\ ScriptStatuses /\ MainStatuses
      /\ UNCHANGED chain /\ chain \in Seq(Seq(Tx))
  BY ChainKept DEF TsInv, TsTypeOK
<1>1. CASE UNCHANGED tsVars \/ FeedMainStep \/ FeedScriptStep
  <2>1. SameBatch
    BY <1>1 DEF SameBatch, tsVars, FeedMainStep, FeedScriptStep, Rest
  <2> QED
    BY <1>0, <2>1, SameBatchStep
<1>2. CASE MainBeginStep \/ MainEvictStep \/ MainFailsStep \/ \E t : MainStatusStep(t)
  <2>1. SameBatch
    BY <1>2 DEF SameBatch, MainBeginStep, MainEvictStep, MainFailsStep, MainStatusStep
  <2> QED
    BY <1>0, <2>1, SameBatchStep
<1>3. CASE MainSaveStep
  <2>1. \A t \in Txs(ScriptKinds) : t \notin DOMAIN main.batch
    BY <1>0, KindFacts DEF MainStatuses
  <2>2. /\ UNCHANGED script /\ db'.v8 = db.v8
        /\ db'.status = Merge(main.batch, db.status)
    BY <1>3 DEF MainSaveStep
  <2>3. \A t \in Txs(ScriptKinds) : t \in DOMAIN db.status => db'.status[t] = db.status[t]
    BY <2>1, <2>2 DEF Merge
  <2>4. SameBatch
    BY <2>2, <2>3 DEF SameBatch
  <2> QED
    BY <1>0, <2>4, SameBatchStep
<1>4. CASE ScriptBeginStep
  BY <1>0, <1>4, BeginBatch
<1>5. CASE \E t, errors : ExecuteStep(t, errors)
  BY <1>0, <1>5, ExecuteBatch
<1>6. CASE \E t : ScriptStatusStep(t)
  BY <1>0, <1>6, StatusBatch
<1>7. CASE ScriptSaveStep \/ ScriptFailsStep \/ RestartStep
  <2>1. script'.at = 0
    BY <1>7 DEF ScriptSaveStep, ScriptFailsStep, RestartStep
  <2> QED
    BY <2>1 DEF TodoLast, BatchMatches
<1> QED
  BY <1>0, <1>1, <1>2, <1>3, <1>4, <1>5, <1>6, <1>7, TsShapes DEF MainStep, ScriptStep

\* What each of the blocks 1..N adds to the state of a contract, when W are the
\* written ones and S[n] the successes of block n.
Added(N, W, S) ==
    [n \in 1..N |-> IF n \in W /\ S[n] # {} THEN <<LastOf(S[n])>> ELSE <<>>]

IsSuccesses(S, c) ==
    DOMAIN S = DOMAIN chain /\ \A n \in DOMAIN chain : S[n] = Successes(n, c)

LEMMA AddedFacts ==
    ASSUME chain \in Seq(Seq(Tx)), NEW c, NEW S, IsSuccesses(S, c)
    PROVE  Added(Len(chain), written.script, S) =
              [n \in DOMAIN chain |->
                 IF n \in written.script /\ Successes(n, c) # {}
                 THEN <<LastOf(Successes(n, c))>> ELSE <<>>]
<1>1. DOMAIN chain = 1..Len(chain)
  OBVIOUS
<1> QED
  BY <1>1 DEF Added, IsSuccesses

\* A block that is written after all others adds its last success at the end.
LEMMA AddedGrows ==
    ASSUME NEW N \in Nat, NEW W, NEW S, NEW k \in 1..N, \A n \in W : n < k
    PROVE  FlattenSeq(Added(N, W \cup {k}, S)) =
              FlattenSeq(Added(N, W, S)) \o IF S[k] # {} THEN <<LastOf(S[k])>> ELSE <<>>
<1>1. PICK V : V = {LastOf(S[n]) : n \in 1..N}
  OBVIOUS
<1>2. PICK s, t : s = Added(N, W, S) /\ t = Added(N, W \cup {k}, S)
  OBVIOUS
<1>3. \A n \in 1..N : LastOf(S[n]) \in V
  BY <1>1
<1>4. s \in [1..N -> Seq(V)] /\ t \in [1..N -> Seq(V)]
  BY <1>2, <1>3 DEF Added
<1>5. s \in Seq(Seq(V)) /\ t \in Seq(Seq(V)) /\ Len(s) = N /\ Len(t) = N
  BY <1>4, SeqOfFunction
<1>6. \A i \in k..N : i \in 1..N /\ i \notin W
  OBVIOUS
<1>7. \A i \in k..N : s[i] = <<>>
  BY <1>2, <1>6 DEF Added
<1>8. \A i \in 1..N : i # k => t[i] = s[i]
  BY <1>2 DEF Added
<1>9. t[k] = IF S[k] # {} THEN <<LastOf(S[k])>> ELSE <<>>
  BY <1>2 DEF Added
<1>10. FlattenSeq(t) = FlattenSeq(s) \o t[k]
  BY <1>5, <1>7, <1>8, FlattenGrow
<1> QED
  BY <1>2, <1>9, <1>10

\* The successes of the written blocks stay the same.
LEMMA SuccessesKept ==
    ASSUME TsInv, [TsNext]_tsVars, NEW n \in written.script, NEW c
    PROVE  Successes(n, c)' = Successes(n, c)
<1>0. /\ TsTypeOK /\ UNCHANGED chain /\ chain \in Seq(Seq(Tx))
      /\ n \in 1..Len(chain)
  <2>1. TsTypeOK /\ UNCHANGED chain /\ chain \in Seq(Seq(Tx))
    BY ChainKept DEF TsInv, TsTypeOK
  <2>2. written \in [main : SUBSET DOMAIN chain, script : SUBSET DOMAIN chain]
    BY <2>1 DEF TsTypeOK
  <2> QED
    BY <2>1, <2>2
<1>1. PICK O : O = OfContract(n, c) /\ O = OfContract(n, c)'
  <2>1. OfContract(n, c)' = OfContract(n, c)
    BY <1>0, SameChain DEF OfContract
  <2> QED
    BY <2>1
<1>2. Successes(n, c) = {t \in O : db.status[t] = {}}
  BY <1>1 DEF Successes, OfContract
<1>3. Successes(n, c)' = {t \in O : db'.status[t] = {}}
  BY <1>1 DEF Successes, OfContract
<1>4. ASSUME NEW t \in O PROVE db'.status[t] = db.status[t]
  <2>1. t \in TxsOf(n, ScriptKinds)
    BY <1>1 DEF OfContract, TxsOf, ScriptKinds
  <2>2. t \in Txs(ScriptKinds) /\ t[1] = n
    BY <1>0, <2>1, TxsFacts
  <2>3. t \in Settled
    BY <2>2 DEF Settled
  <2> QED
    BY <2>3, SettledKept
<1> QED
  BY <1>2, <1>3, <1>4

\* Only the script worker writes the states, with the number of the block.
LEMMA StatesWritten ==
    ASSUME TsInv, [TsNext]_tsVars
    PROVE  \/ db'.v8 = db.v8 /\ written'.script = written.script
           \/ ScriptSaveStep
<1>1. CASE UNCHANGED tsVars \/ FeedMainStep \/ FeedScriptStep \/ RestartStep
  BY <1>1 DEF tsVars, FeedMainStep, FeedScriptStep, RestartStep
<1>2. CASE MainStep
  BY <1>2 DEF MainStep, MainBeginStep, MainStatusStep, MainSaveStep, MainEvictStep,
     MainFailsStep
<1>3. CASE ScriptStep
  BY <1>3 DEF ScriptStep, ScriptBeginStep, ScriptStatusStep, ScriptFailsStep, ExecuteStep
<1> QED
  BY <1>1, <1>2, <1>3, TsShapes DEF TsInv

LEMMA MatchStep ==
    ASSUME TsInv, BatchMatches, StatusMatchesState, [TsNext]_tsVars
    PROVE  StatusMatchesState'
<1>0. /\ TsTypeOK /\ ScriptOrder /\ ScriptStatuses
      /\ UNCHANGED chain /\ chain \in Seq(Seq(Tx)) /\ chain' \in Seq(Seq(Tx))
  BY ChainKept DEF TsInv, TsTypeOK
<1>1. PICK N \in Nat : N = Len(chain) /\ DOMAIN chain = 1..N
  BY <1>0
<1>2. written.script \subseteq 1..N
  <2>1. written \in [main : SUBSET DOMAIN chain, script : SUBSET DOMAIN chain]
    BY <1>0 DEF TsTypeOK
  <2> QED
    BY <1>1, <2>1
<1> SUFFICES ASSUME NEW c \in Contract
             PROVE  (db.v8[c].txs = FlattenSeq([n \in DOMAIN chain |->
                        IF n \in written.script /\ Successes(n, c) # {}
                        THEN <<LastOf(Successes(n, c))>> ELSE <<>>]))'
  BY DEF StatusMatchesState
<1>3. PICK S : IsSuccesses(S, c)
  <2>1. PICK S : S = [n \in DOMAIN chain |-> Successes(n, c)]
    OBVIOUS
  <2> QED
    BY <2>1 DEF IsSuccesses
<1>4. PICK R : R = [n \in 1..N |-> Successes(n, c)']
  OBVIOUS
<1>5. db.v8[c].txs = FlattenSeq(Added(N, written.script, S))
  BY <1>0, <1>1, <1>3, AddedFacts DEF StatusMatchesState
<1>6. [n \in DOMAIN chain |->
          IF n \in written.script /\ Successes(n, c) # {}
          THEN <<LastOf(Successes(n, c))>> ELSE <<>>]'
      = Added(N, written'.script, R)
  BY <1>0, <1>1, <1>4 DEF Added, LastOf
<1> SUFFICES db'.v8[c].txs = FlattenSeq(Added(N, written'.script, R))
  BY <1>6
<1>7. \A n \in written.script : R[n] = S[n]
  BY <1>1, <1>2, <1>3, <1>4, SuccessesKept DEF IsSuccesses
<1>8. CASE db'.v8 = db.v8 /\ written'.script = written.script
  <2>1. Added(N, written'.script, R) = Added(N, written.script, S)
    BY <1>7, <1>8 DEF Added
  <2> QED
    BY <1>5, <1>8, <2>1
<1>9. CASE ScriptSaveStep
  <2>1. /\ script.at # 0 /\ script.todo = {} /\ db'.status = db.status
        /\ db'.v8 = Merge(script.batch, db.v8)
        /\ written'.script = written.script \cup {script.at}
    BY <1>9 DEF ScriptSaveStep
  <2>2. PICK A \in 1..N : A = script.at
    BY <1>0, <1>1, <2>1, BlockAtHand
  <2>3. \A n \in written.script : n < A
    <3>1. script.at > db.scriptBlock /\ db.scriptBlock \in Nat
      BY <1>0, <2>1, NumberFacts DEF ScriptOrder
    <3>2. \A n \in written.script : n <= db.scriptBlock /\ n \in Nat
      BY <1>0, <1>2 DEF ScriptStatuses
    <3> QED
      BY <2>2, <3>1, <3>2
  <2>4. Added(N, written.script, R) = Added(N, written.script, S)
    BY <1>7 DEF Added
  <2>5. FlattenSeq(Added(N, written'.script, R)) =
            db.v8[c].txs \o IF R[A] # {} THEN <<LastOf(R[A])>> ELSE <<>>
    <3>1. PICK W : W = written.script
      OBVIOUS
    <3>2. \A n \in W : n < A
      BY <2>3, <3>1
    <3>3. FlattenSeq(Added(N, W \cup {A}, R)) =
              FlattenSeq(Added(N, W, R)) \o IF R[A] # {} THEN <<LastOf(R[A])>> ELSE <<>>
      BY <3>2, AddedGrows
    <3>4. written'.script = W \cup {A}
      BY <2>1, <2>2, <3>1
    <3>5. FlattenSeq(Added(N, W, R)) = db.v8[c].txs
      BY <1>5, <2>4, <3>1
    <3> QED
      BY <3>3, <3>4, <3>5
  <2>6. R[A] = Executed(c)
    <3>1. R[A] = Successes(A, c)'
      BY <1>4, <2>2
    <3>2. Successes(A, c)' = {t \in OfContract(A, c) : db.status[t] = {}}
      <4>1. TxsOf(A, {"compile", "run"})' = TxsOf(A, {"compile", "run"})
            /\ \A t : TxAt(t)' = TxAt(t)
        BY <1>0, SameChain
      <4> QED
        BY <2>1, <4>1 DEF Successes, OfContract
    <3>3. script.saving # <<{}>>
      <4>1. script.saving = <<>>
        BY <1>0, <2>1 DEF ScriptOrder
      <4> QED
        BY <4>1
    <3>4. Executed(c) = {t \in OfContract(A, c) : db.status[t] = {}}
      BY <2>1, <2>2, <3>3 DEF Executed
    <3> QED
      BY <3>1, <3>2, <3>4
  <2>7. PICK E : E = R[A] /\ BatchLast(c, E)
    BY <2>1, <2>6 DEF BatchMatches
  <2>8. DOMAIN db.v8 = Contract /\ db.v8[c].txs \in Seq(Txs(ScriptKinds))
    <3>1. db.v8 \in [Contract -> State]
      BY <1>0, StoreTypes DEF TsTypeOK, DbType
    <3>2. db.v8[c] \in State
      BY <3>1
    <3> QED
      BY <3>1, <3>2 DEF State
  <2>9. PICK q, T : q = db.v8[c].txs /\ q \in Seq(T)
    BY <2>8
  <2>10. CASE E = {}
    <3>1. db'.v8[c] = db.v8[c]
      BY <2>1, <2>7, <2>8, <2>10 DEF BatchLast, Merge
    <3>2. q \o <<>> = q
      BY <2>9
    <3> QED
      BY <2>5, <2>7, <2>9, <2>10, <3>1, <3>2
  <2>11. CASE E # {}
    <3>1. PICK l : l = LastOf(E)
      OBVIOUS
    <3>2. db'.v8[c].txs = Append(q, l)
      <4>1. c \in DOMAIN script.batch /\ script.batch[c].txs = Append(db.v8[c].txs, LastOf(E))
        BY <2>7, <2>11 DEF BatchLast
      <4>2. db'.v8[c] = script.batch[c]
        BY <2>1, <4>1 DEF Merge
      <4> QED
        BY <2>9, <3>1, <4>1, <4>2
    <3>3. Append(q, l) = q \o <<l>>
      <4>1. PICK U : U = T \cup {l}
        OBVIOUS
      <4>2. q \in Seq(U) /\ l \in U
        BY <2>9, <4>1
      <4> QED
        BY <4>2, AppendIsConcat
    <3> QED
      BY <2>5, <2>7, <2>9, <2>11, <3>1, <3>2, <3>3
  <2> QED
    BY <2>10, <2>11
<1> QED
  BY <1>8, <1>9, StatesWritten

LEMMA MatchInit == TsInit => TodoLast /\ BatchMatches /\ StatusMatchesState
<1> SUFFICES ASSUME TsInit PROVE TodoLast /\ BatchMatches /\ StatusMatchesState
  OBVIOUS
<1>0. TsTypeOK
  BY TsInitTypes
<1>1. /\ script.at = 0 /\ written.script = {} /\ chain \in Seq(Seq(Tx))
      /\ \A c \in Contract : db.v8[c].txs = <<>>
  BY <1>0 DEF TsInit, ScriptMade, TsTypeOK
<1>2. ASSUME NEW c \in Contract
      PROVE  db.v8[c].txs = FlattenSeq([n \in DOMAIN chain |->
                IF n \in written.script /\ Successes(n, c) # {}
                THEN <<LastOf(Successes(n, c))>> ELSE <<>>])
  <2>1. PICK N \in Nat : N = Len(chain) /\ DOMAIN chain = 1..N
    BY <1>1
  <2>2. PICK s : s = [n \in DOMAIN chain |->
                IF n \in written.script /\ Successes(n, c) # {}
                THEN <<LastOf(Successes(n, c))>> ELSE <<>>]
    OBVIOUS
  <2>3. s = [n \in 1..N |-> <<>>]
    BY <1>1, <2>1, <2>2
  <2>4. s \in [1..N -> Seq({})]
    BY <2>3
  <2>5. s \in Seq(Seq({})) /\ Len(s) = N
    BY <2>4, SeqOfFunction
  <2>6. \A i \in 1..Len(s) : s[i] = <<>>
    BY <2>3, <2>5
  <2>7. FlattenSeq(s) = <<>>
    BY <2>5, <2>6, FlattenNone
  <2> QED
    BY <1>1, <2>2, <2>7
<1> QED
  BY <1>1, <1>2 DEF TodoLast, BatchMatches, StatusMatchesState

\* For the written blocks the statuses in the one database and the states of
\* contracts in the other agree, with any number of failed requests, failed batches
\* and restarts: the state of a contract is made of the last success of each
\* written block, in the order of the blocks (StatusMatchesState).
THEOREM StatusesMatchStates == TsSpec => []StatusMatchesState
<1>1. TsInit => TsInv /\ MatchInv
  BY TsInitInv, MatchInit DEF MatchInv
<1>2. ASSUME TsInv, MatchInv, [TsNext]_tsVars PROVE TsInv' /\ MatchInv'
  BY <1>2, TsStepInv, BatchStep, MatchStep DEF MatchInv
<1>3. TsInv /\ MatchInv /\ [TsNext]_tsVars => TsInv' /\ MatchInv'
  BY <1>2
<1>4. MatchInv => StatusMatchesState
  BY DEF MatchInv
<1> QED
  BY <1>1, <1>3, <1>4, PTL DEF TsSpec

=============================================================================
