------------------------------- MODULE Ledger -------------------------------
(***************************************************************************)
(* The main worker of a torrent node (src/src/Workers/WorkerMain.cpp): it  *)
(* takes the blocks from its queue, gathers what the transactions of a     *)
(* block change in a leveldb batch and in per-block balances, and writes   *)
(* all of it at once together with the mark of the last saved block.       *)
(* Delegations are rows of the database under keys that end in a counter   *)
(* counting down, so that the first row of a pair is the latest.           *)
(*                                                                         *)
(* The queue holds block numbers: there is one chain here, a hash stands   *)
(* for its number (forks are the matter of Sync).  The status cache is in  *)
(* TxStatus; the list of the last hundred transactions, the counters of    *)
(* operations and realFee (a minimum of two header fields) are left out.   *)
(***************************************************************************)
EXTENDS Integers, Sequences, FiniteSets, SequencesExt, FiniteSetsExt

CONSTANTS
    Wallet,         \* addresses with a balance, those of the tokens included
    InitialWallet,  \* the address new money comes from: it has no balance
    Token,          \* the wallets that are addresses of tokens
    Chains,         \* the chains the network may have agreed on
    Modulus,        \* 2^64, the range of size_t in BalanceElement
    CounterModulus, \* 2^64, the range of Counter
    Modules,        \* the modules of the configuration: see AllModules
    ValidateState,  \* the option "validate"
    MaxFaults,      \* how many writes to leveldb may fail
    MaxCrashes      \* how often the process may be killed

AllModules == {"block", "balance", "txs", "addr_txs"}

Party == Wallet \cup {InitialWallet}

\* What a block says of a transaction: op and amount are its delegation or its
\* operation on the token to, target is the other address of that operation and
\* dist the first distribution of a token.
Transaction ==
    [from : Party, to : Party, value : Nat, fee : Nat,
     status : {"accept", "wrongMoney", "wrongData", "none", "nodeTest", "forging"},
     op : {"none", "delegate", "undelegate", "create", "owner", "add", "move", "burn"},
     amount : Nat, target : Party, dist : [Wallet -> Nat]]

ASSUME LedgerAssumption ==
    /\ IsFiniteSet(Wallet)
    /\ Token \subseteq Wallet /\ InitialWallet \notin Wallet
    /\ Chains \subseteq Seq([type : {"simple", "forging", "state"}, txs : Seq(Transaction)])
    /\ Modulus \in Nat \ {0} /\ CounterModulus \in Nat \ {0}
    /\ Modules \subseteq AllModules /\ ValidateState \in BOOLEAN
    /\ MaxFaults \in Nat /\ MaxCrashes \in Nat

VARIABLES
    chain,      \* the blocks, numbered from 1
    db,         \* leveldb
    queue,      \* WorkerMain::queue, a BlockedQueue of capacity 1
    fed,        \* the last block given to process
    lastSaved,  \* lastSavedBlock, read when the worker was made
    working,    \* the block the worker thread is at, 0 when it waits
    next,       \* the index of the next transaction of that block
    batch,      \* the batch, the balances and the delegations of that block
    applied,    \* history: the blocks that were written
    faults, crashes

ldVars == <<chain, db, queue, fed, lastSaved, working, next, batch, applied,
            faults, crashes>>

NotSuccess(tx) == tx.status \in {"wrongMoney", "wrongData"}
NoBalance(tx) == tx.status = "wrongMoney"

Empty == [k \in {} |-> 0]

\* A map after map[k] = v.
Store(f, k, v) == [x \in DOMAIN f \cup {k} |-> IF x = k THEN v ELSE f[x]]

-----------------------------------------------------------------------------
(* BalanceInfo: sums of what came in and what went out, in size_t.          *)

ElementBalance(e) == (e.received - e.spent) % Modulus

ZeroElement == [received |-> 0, spent |-> 0]

\* Both sums restart from the difference before one of them would overflow.
Restarted(e) == [received |-> ElementBalance(e), spent |-> 0]

ReceiveValue(e, v) ==
    LET f == IF e.received >= (Modulus - 1) - v THEN Restarted(e) ELSE e
    IN  [f EXCEPT !.received = (@ + v) % Modulus]

SpentValue(e, v) ==
    LET f == IF e.spent >= (Modulus - 1) - v THEN Restarted(e) ELSE e
    IN  [f EXCEPT !.spent = (@ + v) % Modulus]

ZeroBalance ==
    [balance |-> ZeroElement, countSpent |-> 0, blockNumber |-> 0,
     delegate |-> ZeroElement, delegated |-> ZeroElement, reserved |-> 0,
     forged |-> 0, tokens |-> [t \in Token |-> ZeroElement]]

BalanceIn(f, w) == IF w \in DOMAIN f THEN f[w] ELSE ZeroBalance

\* plusWithoutDelegate, for w the sender or the receiver of tx.
PlusWithoutDelegate(b, tx, w, n, isForging) ==
    LET paid == IF tx.from = w /\ ~NoBalance(tx)
                THEN SpentValue(b.balance, (tx.value + tx.fee) % Modulus)
                ELSE b.balance
        moved == IF tx.to = w /\ ~NoBalance(tx)
                 THEN ReceiveValue(paid, tx.value) ELSE paid
        from == IF tx.from = w THEN 1 ELSE 0
    IN  [b EXCEPT !.balance = moved,
                  !.countSpent = @ + from,
                  !.blockNumber = Max({@, n}),
                  !.reserved = IF tx.op = "delegate"
                               THEN (@ + from * tx.amount) % Modulus ELSE @,
                  !.forged = IF isForging /\ tx.to = w
                             THEN (@ + tx.value) % Modulus ELSE @]

\* plusWithDelegate: ok is the status, value what an undelegation takes back.
PlusWithDelegate(b, tx, w, ok, value) ==
    LET out == ok /\ tx.from = w
        in == ok /\ tx.to = w
        give == tx.op = "delegate"
    IN  [b EXCEPT
          !.balance = CASE out /\ give -> SpentValue(@, tx.amount)
                        [] out /\ ~give -> ReceiveValue(@, value)
                        [] OTHER -> @,
          !.delegate = CASE out /\ give -> SpentValue(@, tx.amount)
                         [] out /\ ~give -> ReceiveValue(@, value)
                         [] OTHER -> @,
          !.delegated = CASE in /\ give -> ReceiveValue(@, tx.amount)
                          [] in /\ ~give -> SpentValue(@, value)
                          [] OTHER -> @,
          !.reserved = IF tx.from = w /\ give
                       THEN (@ - tx.amount) % Modulus ELSE @]

\* BalanceInfo::operator+=.
PlusElement(e, f) == SpentValue(ReceiveValue(e, f.received), f.spent)

PlusDelegate(e, f) == ReceiveValue(SpentValue(e, f.spent), f.received)

Plus(a, b) ==
    [balance |-> PlusElement(a.balance, b.balance),
     countSpent |-> a.countSpent + b.countSpent,
     blockNumber |-> Max({a.blockNumber, b.blockNumber}),
     delegate |-> PlusDelegate(a.delegate, b.delegate),
     delegated |-> PlusElement(a.delegated, b.delegated),
     reserved |-> (a.reserved + b.reserved) % Modulus,
     forged |-> (a.forged + b.forged) % Modulus,
     tokens |-> [t \in Token |-> PlusElement(a.tokens[t], b.tokens[t])]]

\* Mutant: delegations that were taken back still count.
CalcBalanceWithoutDelegate_KeepsAll(b) ==
    (b.balance.received - b.balance.spent + b.delegate.spent) % Modulus

CalcBalanceWithoutDelegate(b) ==
    (b.balance.received - b.balance.spent
        + b.delegate.spent - b.delegate.received) % Modulus

-----------------------------------------------------------------------------
(* The batch of a block.  batch.count is the member countVal, which lives   *)
(* on when the block fails.                                                 *)

NewBatch(count) ==
    [balances |-> Empty, put |-> {}, deleted |-> {}, cache |-> Empty,
     tokens |-> Empty, rows |-> {}, common |-> db.common, count |-> count]

\* Counter<false>::get counts down.
CountDown(c) == (c - 1) % CounterModulus

\* Mutant: the sign of Counter<true>.
StoreCounter_Upwards(c) == (c + 1) % CounterModulus

\* Counter<false>::store, when the worker is made.
StoreCounter(c) == (c - 1) % CounterModulus

\* saveAddressTransaction and saveAddressTokenTransaction, for each of the
\* addresses in turn.
AddRows(b, list, addresses, id) ==
    [b EXCEPT !.rows = @ \cup
                  {[list |-> list, address |-> addresses[i],
                    key |-> (b.count - (i - 1)) % CounterModulus, tx |-> id] :
                      i \in DOMAIN addresses},
              !.count = (@ - Len(addresses)) % CounterModulus]

DelegateKeys(pair, rows) == {d.key : d \in {r \in rows : r.pair = pair}}

CacheOf(b, pair) == IF pair \in DOMAIN b.cache THEN b.cache[pair] ELSE <<>>

\* calcTransactionStatusDelegate for a delegation.
Delegate(b, tx, id) ==
    LET pair == <<tx.from, tx.to>>
        d == [pair |-> pair, key |-> b.count, value |-> tx.amount, hash |-> id]
    IN  IF NotSuccess(tx) THEN b
        ELSE [b EXCEPT !.put = @ \cup {d},
                       !.cache = Store(@, pair, Append(CacheOf(b, pair), b.count)),
                       !.count = CountDown(@)]

\* Mutant: the first delegation in time.
ToUndelegate_Oldest(b, pair) ==
    LET own == CacheOf(b, pair)
        keys == DelegateKeys(pair, {d \in db.delegates : d.key \notin b.deleted})
    IN  IF own # <<>> THEN {d \in b.put : d.key = Last(own)}
        ELSE {d \in db.delegates : keys # {} /\ d.key = Max(keys)}

\* Mutant: getDeletedDelegate is not given to findDelegateKey.
ToUndelegate_Again(b, pair) ==
    LET own == CacheOf(b, pair)
        keys == DelegateKeys(pair, db.delegates)
    IN  IF own # <<>> THEN {d \in b.put : d.key = Last(own)}
        ELSE {d \in db.delegates : keys # {} /\ d.key = Min(keys)}

\* Which delegation an undelegation takes back: the last one of this block,
\* else the first row of the pair in the database that this block has not
\* removed.  At most one.
ToUndelegate(b, pair) ==
    LET own == CacheOf(b, pair)
        keys == DelegateKeys(pair, {d \in db.delegates : d.key \notin b.deleted})
    IN  IF own # <<>> THEN {d \in b.put : d.key = Last(own)}
        ELSE {d \in db.delegates : keys # {} /\ d.key = Min(keys)}

\* calcTransactionStatusDelegate for an undelegation.
Undelegate(b, tx, d) ==
    LET pair == <<tx.from, tx.to>>
        own == CacheOf(b, pair)
    IN  [b EXCEPT !.deleted = @ \cup {d.key},
                  !.put = @ \ {d},
                  !.cache = IF own = <<>> THEN @ ELSE Store(@, pair, Front(own))]

\* toLeveldb, for one address of the transaction.
ToLeveldb(b, tx, w, id, isForging, ok, value) ==
    LET listed == IF "addr_txs" \in Modules THEN AddRows(b, "txs", <<w>>, id) ELSE b
        plain == PlusWithoutDelegate(BalanceIn(b.balances, w), tx, w, id[1], isForging)
        new == IF tx.op \in {"delegate", "undelegate"}
               THEN PlusWithDelegate(plain, tx, w, ok, value) ELSE plain
    IN  IF w = InitialWallet \/ tx.status = "nodeTest" THEN b
        ELSE IF "balance" \in Modules
             THEN [listed EXCEPT !.balances = Store(@, w, new)]
        ELSE listed

\* toLeveldb for the sender and, when it is another address, the receiver.
ToBoth(b, tx, id, isForging, ok, value) ==
    LET sender == ToLeveldb(b, tx, tx.from, id, isForging, ok, value)
    IN  IF tx.from = tx.to THEN sender
        ELSE ToLeveldb(sender, tx, tx.to, id, isForging, ok, value)

\* getInstantDelegateStatus and then toLeveldb.
ProcessMoney(b, tx, id, isForging) ==
    LET found == ToUndelegate(b, <<tx.from, tx.to>>)
    IN  IF Modules \cap {"balance", "txs", "addr_txs"} = {} THEN b
        ELSE CASE tx.op = "delegate" ->
                    ToBoth(Delegate(b, tx, id), tx, id, isForging, ~NotSuccess(tx), 0)
               [] tx.op = "undelegate" /\ found # {} ->
                    LET d == CHOOSE d \in found : TRUE
                    IN  ToBoth(Undelegate(b, tx, d), tx, id, isForging, TRUE, d.value)
               [] OTHER -> ToBoth(b, tx, id, isForging, TRUE, 0)

\* The balances of a token: addTokens and moveTokens.
SetTokens(balances, tx, w, element) ==
    LET old == BalanceIn(balances, w)
    IN  Store(balances, w, IF NotSuccess(tx) THEN old
                         ELSE [old EXCEPT !.tokens = [@ EXCEPT ![tx.to] = element]])

AddTokens(balances, tx, w, v) ==
    SetTokens(balances, tx, w, ReceiveValue(BalanceIn(balances, w).tokens[tx.to], v))

MoveTokens(balances, tx, w, to, v) ==
    LET old == BalanceIn(balances, w).tokens[tx.to]
        paid == IF tx.from = w THEN SpentValue(old, v) ELSE old
    IN  SetTokens(balances, tx, w, IF to = w THEN ReceiveValue(paid, v) ELSE paid)

\* addTokens for each of the addresses given.
GiveTokens(balances, tx, given) ==
    [w \in DOMAIN balances \cup given |->
        IF w \in given THEN AddTokens(balances, tx, w, tx.dist[w])[w] ELSE balances[w]]

\* Mutant: the owner of a new token gets all of it.
TokenBalances_NoRest(balances, tx) ==
    LET given == {w \in DOMAIN tx.dist : tx.dist[w] # 0}
    IN  CASE tx.op = "create" ->
               AddTokens(GiveTokens(balances, tx, given), tx, tx.target, tx.amount)
          [] tx.op = "add" -> AddTokens(balances, tx, tx.target, tx.amount)
          [] tx.op = "burn" -> MoveTokens(balances, tx, tx.from, InitialWallet, tx.amount)
          [] OTHER -> balances

\* What saveAddressBalanceCreateToken, ...AddToken, ...MoveToken and
\* ...BurnToken do to the per-block balances.  Burnt tokens move to an address
\* that is no wallet.
TokenBalances(balances, tx) ==
    LET given == {w \in DOMAIN tx.dist : tx.dist[w] # 0}
        rest == (tx.amount - SumFunction(tx.dist)) % Modulus
        received == MoveTokens(balances, tx, tx.target, tx.target, tx.amount)
    IN  CASE tx.op = "create" ->
               AddTokens(GiveTokens(balances, tx, given), tx, tx.target, rest)
          [] tx.op = "add" -> AddTokens(balances, tx, tx.target, tx.amount)
          [] tx.op = "move" /\ tx.from # tx.target ->
               MoveTokens(received, tx, tx.from, tx.target, tx.amount)
          [] tx.op = "move" /\ tx.from = tx.target -> received
          [] tx.op = "burn" -> MoveTokens(balances, tx, tx.from, InitialWallet, tx.amount)
          [] OTHER -> balances

\* processTokenOperation.  Batch::addToken does not keep the token for
\* Batch::findToken, so the token is always the one in the database.
SetTokenRecord(b, t, field, value) ==
    IF t \in DOMAIN db.tokens
    THEN [b EXCEPT !.tokens = Store(@, t, [db.tokens[t] EXCEPT ![field] = value])]
    ELSE b

\* createToken, changeTokenOwner and changeTokenValue.
TokenRecord(b, tx) ==
    CASE tx.op = "create" ->
           [b EXCEPT !.tokens = Store(@, tx.to, [owner |-> tx.target, allValue |-> tx.amount])]
      [] tx.op = "owner" -> SetTokenRecord(b, tx.to, "owner", tx.target)
      [] tx.op = "add" ->
           SetTokenRecord(b, tx.to, "allValue", (db.tokens[tx.to].allValue + tx.amount) % Modulus)
      [] tx.op = "burn" ->
           SetTokenRecord(b, tx.to, "allValue", (db.tokens[tx.to].allValue - tx.amount) % Modulus)
      [] OTHER -> b

\* The addresses in whose token history the transaction appears, in order.
TokenRows(tx) ==
    CASE tx.op = "create" ->
           <<tx.target>> \o SetToSeq({w \in DOMAIN tx.dist : tx.dist[w] # 0})
      [] tx.op = "owner" -> <<tx.from, tx.target>>
      [] tx.op = "move" /\ tx.from # tx.target -> <<tx.from, tx.target>>
      [] tx.op = "add" -> <<tx.target>>
      [] OTHER -> <<tx.from>>

TokenOps == {"create", "owner", "add", "move", "burn"}

ProcessToken(b, tx, id) ==
    LET record == IF "txs" \in Modules /\ ~NotSuccess(tx)
                  THEN AddRows(TokenRecord(b, tx), "tokens", TokenRows(tx), id) ELSE b
    IN  IF tx.op \notin TokenOps THEN b
        ELSE IF "balance" \in Modules
             THEN [record EXCEPT !.balances = TokenBalances(@, tx)]
        ELSE record

\* Money that enters circulation.
ProcessCommon(b, tx, n, isForging) ==
    IF "block" \in Modules /\ db.common.blockNumber < n
        /\ (tx.from = InitialWallet \/ isForging)
    THEN [b EXCEPT !.common = [money |-> (@.money + tx.value) % Modulus,
                               blockNumber |-> n]]
    ELSE b

ProcessTx(b, tx, id, isForging) ==
    ProcessCommon(ProcessToken(ProcessMoney(b, tx, id, isForging), tx, id),
                  tx, id[1], isForging)

-----------------------------------------------------------------------------
(* What the database holds of the delegations of a pair, oldest first.      *)

NthRow(rows, i) ==
    CHOOSE d \in {r \in rows : Cardinality({e \in rows : e.key > r.key}) = i - 1} : TRUE

States(rows) ==
    [i \in 1..Cardinality(rows) |->
        [value |-> NthRow(rows, i).value, hash |-> NthRow(rows, i).hash]]

DelegateStates(pair) == States({d \in db.delegates : d.pair = pair})

AbstractMoney == [w \in Wallet |-> ElementBalance(BalanceIn(db.balances, w).balance)]
AbstractSent == [w \in Wallet |-> BalanceIn(db.balances, w).countSpent]
AbstractStack == [p \in Wallet \X Wallet |-> DelegateStates(p)]
AbstractTokens ==
    [t \in Token |-> [w \in Wallet |->
        ElementBalance(BalanceIn(db.balances, w).tokens[t])]]

Abstract == INSTANCE Accounts WITH
    number <- db.number, money <- AbstractMoney, sent <- AbstractSent,
    stack <- AbstractStack, tokens <- AbstractTokens

\* What a state block at number n says, when the network computed it as
\* Accounts does: the balance of each wallet with what it has delegated, and
\* its delegations in the order in which they were made.
StateSays(n) == Abstract!After[n - 1]

Total(f(_)) == SumFunctionOnSet([w \in Wallet |-> f(w)], Wallet)

Delegations(s, w) == [v \in Wallet |-> [i \in DOMAIN s.stack[<<w, v>>] |->
                                            s.stack[<<w, v>>][i].value]]

OutOf(s, w) == Total(LAMBDA v : SumFunction(Delegations(s, w)[v]))

\* Mutant: the delegations are read in the order of the keys.
StateMatches_KeyOrder(n) ==
    LET s == StateSays(n)
    IN  \A w \in Wallet : Delegations(s, w)
                 = [v \in Wallet |-> [i \in DOMAIN DelegateStates(<<w, v>>) |->
                                        Reverse(DelegateStates(<<w, v>>))[i].value]]

\* validateStateBlock compares both with the database.  The keys of a pair
\* list the latest delegation first; sorting by address and reading the
\* result backwards gives the order of the state block.
StateMatches(n) ==
    LET s == StateSays(n)
    IN  \A w \in Wallet :
            /\ CalcBalanceWithoutDelegate(BalanceIn(db.balances, w))
                 = (s.money[w] + OutOf(s, w)) % Modulus
            /\ Delegations(s, w)
                 = [v \in Wallet |-> [i \in DOMAIN DelegateStates(<<w, v>>) |->
                                        DelegateStates(<<w, v>>)[i].value]]

-----------------------------------------------------------------------------
(* The thread that feeds the worker.                                        *)

\* WorkerMain::process: a push waits for room in the queue.
Process ==
    LET n == fed + 1
    IN  /\ n <= Len(chain)
        /\ fed' = n
        /\ IF n > lastSaved THEN queue = <<>> /\ queue' = <<n>> ELSE UNCHANGED queue
        /\ UNCHANGED <<chain, db, lastSaved, working, next, batch, applied,
                       faults, crashes>>

-----------------------------------------------------------------------------
(* WorkerMain::worker. *)

Idle ==
    /\ working' = 0 /\ next' = 0
    /\ batch' = NewBatch(batch.count)

\* The check "Incorrect prev hash".
PrevHashFits(n) == db.number \in {0, n - 1}

\* A block that is saved already is skipped; one that does not extend the
\* saved one is dropped by the check.
Skip ==
    /\ working = 0 /\ queue # <<>>
    /\ ~(Head(queue) > db.number /\ PrevHashFits(Head(queue)))
    /\ queue' = Tail(queue)
    /\ UNCHANGED <<chain, db, fed, lastSaved, working, next, batch, applied,
                   faults, crashes>>

Begin ==
    /\ working = 0 /\ queue # <<>>
    /\ Head(queue) > db.number /\ PrevHashFits(Head(queue))
    /\ queue' = Tail(queue)
    /\ working' = Head(queue) /\ next' = 1
    /\ batch' = NewBatch(batch.count)
    /\ UNCHANGED <<chain, db, fed, lastSaved, applied, faults, crashes>>

ThisTx == chain[working].txs[next]

\* A delegation without intStatus stops the block: "delegate status not seted".
StatusMissing == ThisTx.op \in {"delegate", "undelegate"} /\ ThisTx.status = "none"

HasNextTx ==
    /\ working # 0
    /\ chain[working].type # "state"
    /\ next <= Len(chain[working].txs)

NextTx ==
    /\ HasNextTx /\ ~StatusMissing
    /\ batch' = ProcessTx(batch, ThisTx, <<working, next>>,
                          chain[working].type = "forging")
    /\ next' = next + 1
    /\ UNCHANGED <<chain, db, queue, fed, lastSaved, working, applied, faults,
                   crashes>>

\* An exception: nothing of the block is written and the next one is taken.
TxFails ==
    /\ HasNextTx /\ StatusMissing
    /\ Idle
    /\ UNCHANGED <<chain, db, queue, fed, lastSaved, applied, faults, crashes>>

StateRefused ==
    /\ working # 0 /\ chain[working].type = "state"
    /\ ValidateState /\ ~StateMatches(working)
    /\ Idle
    /\ UNCHANGED <<chain, db, queue, fed, lastSaved, applied, faults, crashes>>

\* All transactions are done, or the state block is accepted.
Complete ==
    /\ working # 0
    /\ IF chain[working].type = "state"
       THEN ValidateState => StateMatches(working)
       ELSE next > Len(chain[working].txs)

\* makeForgingSums added to what is saved.
NewForgingSum ==
    LET txs == chain[working].txs
        forging == {i \in DOMAIN txs : txs[i].status = "forging"}
    IN  IF chain[working].type # "forging" THEN db.forgingSum
        ELSE (db.forgingSum + SumFunctionOnSet([i \in DOMAIN txs |-> txs[i].value], forging))
                 % Modulus

NewBalances ==
    [w \in DOMAIN db.balances \cup DOMAIN batch.balances |->
        LET old == BalanceIn(db.balances, w)
        IN  IF w \in DOMAIN batch.balances /\ old.blockNumber < working
            THEN Plus(old, batch.balances[w]) ELSE old]

NewTokens ==
    [t \in DOMAIN batch.tokens \cup DOMAIN db.tokens |->
        IF t \in DOMAIN batch.tokens THEN batch.tokens[t] ELSE db.tokens[t]]

\* The whole batch is written, the mark of the last saved block with it.
Save ==
    /\ Complete
    /\ db' = [number |-> working,
              countVal |-> batch.count,
              balances |-> NewBalances,
              delegates |-> {d \in db.delegates \cup batch.put : d.key \notin batch.deleted},
              tokens |-> NewTokens,
              rows |-> db.rows \cup batch.rows,
              common |-> batch.common,
              forgingSum |-> NewForgingSum]
    /\ applied' = applied \cup {working}
    /\ working' = 0 /\ next' = 0
    /\ batch' = [NewBatch(batch.count) EXCEPT !.common = batch.common]
    /\ UNCHANGED <<chain, queue, fed, lastSaved, faults, crashes>>

\* leveldb refuses the batch.
SaveFails ==
    /\ Complete
    /\ faults < MaxFaults
    /\ faults' = faults + 1
    /\ Idle
    /\ UNCHANGED <<chain, db, queue, fed, lastSaved, applied, crashes>>

\* The process is killed and starts again.  The blocks come again from one
\* that some worker has not saved.
Restart ==
    /\ crashes < MaxCrashes
    /\ crashes' = crashes + 1
    /\ queue' = <<>>
    /\ fed' \in 0..db.number
    /\ lastSaved' = db.number
    /\ working' = 0 /\ next' = 0
    /\ batch' = NewBatch(StoreCounter(db.countVal))
    /\ UNCHANGED <<chain, db, applied, faults>>

\* Every block is dealt with and the worker waits for the next one.
AllDone ==
    /\ fed = Len(chain) /\ queue = <<>> /\ working = 0
    /\ UNCHANGED ldVars

-----------------------------------------------------------------------------
EmptyDb ==
    [number |-> 0, countVal |-> 0, balances |-> Empty, delegates |-> {},
     tokens |-> Empty, rows |-> {}, common |-> [money |-> 0, blockNumber |-> 0],
     forgingSum |-> 0]

LdInit ==
    /\ chain \in Chains
    /\ db = EmptyDb
    /\ queue = <<>> /\ fed = 0 /\ lastSaved = 0
    /\ working = 0 /\ next = 0
    /\ batch = NewBatch(StoreCounter(0))
    /\ applied = {}
    /\ faults = 0 /\ crashes = 0

LdNext ==
    \/ Process \/ Skip \/ Begin \/ NextTx \/ TxFails \/ StateRefused \/ Save
    \/ SaveFails \/ Restart \/ AllDone

LdSpec == LdInit /\ [][LdNext]_ldVars

-----------------------------------------------------------------------------
(* Properties. *)

Element == [received : 0..Modulus-1, spent : 0..Modulus-1]

Balance ==
    [balance : Element, countSpent : Nat, blockNumber : Nat,
     delegate : Element, delegated : Element, reserved : 0..Modulus-1,
     forged : 0..Modulus-1, tokens : [Token -> Element]]

\* The worker is at a block of the chain, sums stay in the range of size_t
\* and the database and the batch hold balances of wallets.
LdTypeOK ==
    /\ \A f \in {db.balances, batch.balances} :
        DOMAIN f \subseteq Wallet /\ \A w \in DOMAIN f : f[w] \in Balance
    /\ db.number \in 0..Len(chain) /\ fed \in 0..Len(chain)
    /\ queue \in {<<>>} \cup {<<n>> : n \in 1..Len(chain)}
    /\ working \in 0..Len(chain) /\ lastSaved \in 0..db.number
    /\ applied \subseteq 1..Len(chain)

\* The batches, the two places a delegation may be found in, the counters in
\* the keys, the sums that restart before they overflow, failed writes and
\* restarts are invisible: the database changes block by block, and each
\* block as if its transactions were executed one after the other.
ImplementsAccounts == Abstract!AcSpec

ValueOf(rows) == SumFunctionOnSet([d \in rows |-> d.value], rows)

\* What BalanceInfo says a wallet has delegated, and what was delegated to it,
\* is the sum of the rows of the database; nothing stays reserved.
DelegationsBacked ==
    \A w \in DOMAIN db.balances :
        LET b == db.balances[w]
        IN  /\ (b.delegate.spent - b.delegate.received) % Modulus
                 = ValueOf({d \in db.delegates : d.pair[1] = w}) % Modulus
            /\ ElementBalance(b.delegated)
                 = ValueOf({d \in db.delegates : d.pair[2] = w}) % Modulus
            /\ b.reserved = 0

\* What the network makes sure of before a transaction is in a block: an
\* operation on a token is one of a wallet on a token, and a node test carries
\* no delegation.
WellFormedTx(tx) ==
    /\ tx.op \in TokenOps => tx.to \in Token /\ tx.from \in Wallet /\ tx.target \in Wallet
    /\ tx.status = "nodeTest" => tx.op \notin {"delegate", "undelegate"}

\* A delegation is one of a wallet to a wallet, and a node test does nothing.
LendsWell(tx) ==
    /\ tx.op \in {"delegate", "undelegate"} => tx.from \in Wallet /\ tx.to \in Wallet
    /\ tx.status = "nodeTest" => tx.op = "none"

\* New money is given to a wallet, and a forging block does nothing else.
MintsWell(tx, isForging) ==
    /\ tx.from = InitialWallet => /\ tx.to \in Wallet
                                 /\ tx.status \notin {"wrongMoney", "nodeTest"}
    /\ isForging => tx.from = InitialWallet /\ tx.status = "forging"

WellFormed ==
    \A c \in Chains : \A n \in 1..Len(c) : \A i \in 1..Len(c[n].txs) :
        WellFormedTx(c[n].txs[i])

WellLent ==
    \A c \in Chains : \A n \in 1..Len(c) : \A i \in 1..Len(c[n].txs) :
        LendsWell(c[n].txs[i])

WellMinted ==
    \A c \in Chains : \A n \in 1..Len(c) : \A i \in 1..Len(c[n].txs) :
        MintsWell(c[n].txs[i], c[n].type = "forging")

\* tx operates on the token t.
OnToken(tx, t) == tx.op \in TokenOps /\ tx.to = t /\ ~NotSuccess(tx)

\* A token is created once, before anything else is done with it, and the
\* amount of it is a size_t.
WellCreated ==
    \A c \in Chains : \A m \in 1..Len(c) : \A j \in 1..Len(c[m].txs) :
        LET tx == c[m].txs[j]
        IN  tx.op = "create" /\ ~NotSuccess(tx) =>
              /\ tx.amount < Modulus
              /\ \A n \in 1..m : \A i \in 1..Len(c[n].txs) :
                    n < m \/ i < j => ~OnToken(c[n].txs[i], tx.to)

\* The transactions of the blocks that were written.
AppliedTxs ==
    UNION {{<<n, i>> : i \in DOMAIN chain[n].txs} :
            n \in {m \in applied : chain[m].type # "state"}}

TxAt(id) == chain[id[1]].txs[id[2]]

SumOver(ids, f(_)) == SumFunctionOnSet([id \in ids |-> f(TxAt(id))], ids)

\* No money is made or lost between the balances and the sums over all blocks:
\* what entered circulation is what the wallets dispose of, what they have
\* delegated, the fees they paid and what they sent back to the initial wallet,
\* and what was forged is what the wallets have forged.
MoneyConserved ==
    LET paid == {id \in AppliedTxs : /\ TxAt(id).status \notin {"wrongMoney", "nodeTest"}
                                     /\ TxAt(id).from # InitialWallet}
        gone == {id \in paid : TxAt(id).to = InitialWallet}
    IN  Modules = AllModules =>
          /\ db.common.money =
               (Total(LAMBDA w : CalcBalanceWithoutDelegate(BalanceIn(db.balances, w)))
                  + SumOver(paid, LAMBDA tx : tx.fee)
                  + SumOver(gone, LAMBDA tx : tx.value)) % Modulus
          /\ db.forgingSum =
               Total(LAMBDA w : BalanceIn(db.balances, w).forged) % Modulus

\* The operations that write the record of a token.
RecordOps(t, n) ==
    {i \in DOMAIN chain[n].txs :
        /\ chain[n].txs[i].to = t
        /\ chain[n].txs[i].op \in {"create", "owner", "add", "burn"}
        /\ ~NotSuccess(chain[n].txs[i])}

\* The record of a token says how much of it all wallets hold together, as long
\* as no block has written the record twice: the second write of a block starts
\* from the database, and what the first wrote is lost.
TokenSupply ==
    Modules = AllModules =>
      \A t \in DOMAIN db.tokens :
        (\A n \in applied : Cardinality(RecordOps(t, n)) <= 1) =>
            db.tokens[t].allValue =
                Total(LAMBDA w : ElementBalance(BalanceIn(db.balances, w).tokens[t]))
                    % Modulus

\* The history of a wallet, read in the order of the keys, has each of its
\* transactions once, the latest first, whatever restarts and failed blocks did
\* to the counter in the keys.
HistoryComplete ==
    "addr_txs" \in Modules =>
      \A w \in Wallet :
        LET rows == {r \in db.rows : r.list = "txs" /\ r.address = w}
            later(x, y) == x[1] > y[1] \/ (x[1] = y[1] /\ x[2] > y[2])
        IN  /\ {r.tx : r \in rows} =
                 {id \in AppliedTxs : /\ w \in {TxAt(id).from, TxAt(id).to}
                                      /\ TxAt(id).status # "nodeTest"}
            /\ \A r, q \in rows : r # q /\ r.key <= q.key => later(r.tx, q.tx)

\* A state block that says what the blocks before it lead to is not refused,
\* unless the worker was made to miss one of them.
HonestStateAccepted ==
    working # 0 /\ chain[working].type = "state" /\ 1..(working - 1) \subseteq applied
        => StateMatches(working)
=============================================================================
