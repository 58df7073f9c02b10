---------------------------- MODULE Ledger_proofs ----------------------------
(***************************************************************************)
(* What Ledger guarantees for every set of chains, any number of failed    *)
(* writes and restarts, as long as the counter in the keys lasts: no row   *)
(* of a history is overwritten, and each wallet has the history of the     *)
(* blocks that were written.  For the chains that a network agrees on, the *)
(* balances say of delegations what the rows say, no money is made or      *)
(* lost, the record of a token says how much of it there is, the worker    *)
(* implements Accounts, and no honest state block is refused.              *)
(***************************************************************************)
EXTENDS Ledger, Lemmas

(***************************************************************************)
(* What the parts of ProcessTx do to the rows and to the counter.          *)
(***************************************************************************)

BatchFields ==
    {"balances", "put", "deleted", "cache", "tokens", "rows", "common", "count"}

TxRows(R) == {r \in R : r.list = "txs"}

\* N is what one transaction adds while the counter goes from hi down to lo:
\* rows with keys of their own, and one in the history of each address of W.
NewRows(N, hi, lo, W, id) ==
    /\ \A r \in N : r.tx = id /\ r.key \in (lo + 1)..hi
    /\ \A r, q \in N : r.key = q.key => r = q
    /\ {r.address : r \in TxRows(N)} = W
    /\ \A r, q \in TxRows(N) : r.address = q.address => r = q

\* From b to c the batch gets such rows; at most k keys are used for it.
Adds(b, c, W, id, k) ==
    /\ DOMAIN c = BatchFields
    /\ c.count \in (b.count - k)..b.count
    /\ \E N : c.rows = b.rows \cup N /\ NewRows(N, b.count, c.count, W, id)

\* Where the counter does not pass zero it counts down.
LEMMA CountsDown ==
    ASSUME NEW c \in 0..(CounterModulus - 1), NEW k \in 0..c
    PROVE  (c - k) % CounterModulus = c - k
BY LedgerAssumption

\* Two rows counted down from the same counter under one key are the same row.
LEMMA SameOffset ==
    ASSUME NEW m \in Int, NEW i \in Int, NEW j \in Int, m - (i - 1) = m - (j - 1)
    PROVE  i = j
OBVIOUS

\* Rows under lower keys and for other addresses come on top.
LEMMA RowsJoin ==
    ASSUME NEW hi \in Int, NEW mid \in Int, NEW lo \in Int, lo <= mid, mid <= hi,
           NEW M, NEW N, NEW V, NEW W, NEW id, V \cap W = {},
           NewRows(M, hi, mid, V, id), NewRows(N, mid, lo, W, id)
    PROVE  NewRows(M \cup N, hi, lo, V \cup W, id)
<1>1. \A r \in M \cup N : r.tx = id /\ r.key \in (lo + 1)..hi
  BY DEF NewRows
<1>2. ASSUME NEW r \in M \cup N, NEW q \in M \cup N, r.key = q.key
      PROVE  r = q
  <2>1. CASE (r \in M /\ q \in M) \/ (r \in N /\ q \in N)
    BY <1>2, <2>1 DEF NewRows
  <2>2. \A x \in M : x.key \in (mid + 1)..hi
    BY DEF NewRows
  <2>3. \A x \in N : x.key \in (lo + 1)..mid
    BY DEF NewRows
  <2>4. CASE (r \in M /\ q \in N) \/ (r \in N /\ q \in M)
    BY <1>2, <2>2, <2>3, <2>4
  <2> QED
    BY <2>1, <2>4
<1>3. {r.address : r \in TxRows(M \cup N)} = V \cup W
  BY DEF NewRows, TxRows
<1>4. ASSUME NEW r \in TxRows(M \cup N), NEW q \in TxRows(M \cup N),
             r.address = q.address
      PROVE  r = q
  <2>1. \A x \in TxRows(M) : x.address \in V
    BY DEF NewRows
  <2>2. \A x \in TxRows(N) : x.address \in W
    BY DEF NewRows
  <2>3. \A x \in TxRows(M \cup N) : x \in TxRows(M) \/ x \in TxRows(N)
    BY DEF TxRows
  <2>4. CASE r \in TxRows(M) /\ q \in TxRows(M)
    BY <1>4, <2>4 DEF NewRows
  <2>5. CASE r \in TxRows(N) /\ q \in TxRows(N)
    BY <1>4, <2>5 DEF NewRows
  <2> QED
    BY <1>4, <2>1, <2>2, <2>3, <2>4, <2>5, Zenon
<1> QED
  BY <1>1, <1>2, <1>3, <1>4, Zenon DEF NewRows

\* Two steps, one after the other.
LEMMA AddsTwice ==
    ASSUME NEW b, NEW c, NEW d, b.count \in Int, NEW V, NEW W, NEW id,
           NEW j \in Nat, NEW k \in Nat, V \cap W = {},
           Adds(b, c, V, id, j), Adds(c, d, W, id, k)
    PROVE  Adds(b, d, V \cup W, id, j + k)
<1>1. c.count \in Int /\ c.count <= b.count /\ b.count - j <= c.count
  BY DEF Adds
<1>2. d.count \in Int /\ d.count <= c.count /\ c.count - k <= d.count
  BY <1>1 DEF Adds
<1>3. PICK M : c.rows = b.rows \cup M /\ NewRows(M, b.count, c.count, V, id)
  BY Zenon DEF Adds
<1>4. PICK N : d.rows = c.rows \cup N /\ NewRows(N, c.count, d.count, W, id)
  BY Zenon DEF Adds
<1>5. NewRows(M \cup N, b.count, d.count, V \cup W, id)
  BY <1>1, <1>2, <1>3, <1>4, RowsJoin
<1>6. d.rows = b.rows \cup (M \cup N)
  BY <1>3, <1>4
<1>7. d.count \in (b.count - (j + k))..b.count
  BY <1>1, <1>2
<1>8. DOMAIN d = BatchFields
  BY DEF Adds
<1> QED
  BY <1>5, <1>6, <1>7, <1>8, Zenon DEF Adds

\* Nothing is added by a step that leaves the rows and the counter alone.
LEMMA AddsNothing ==
    ASSUME NEW b, NEW c, b.count \in Int, NEW id, NEW k \in Nat,
           DOMAIN c = BatchFields, c.rows = b.rows,
           c.count \in (b.count - k)..b.count
    PROVE  Adds(b, c, {}, id, k)
<1>1. c.rows = b.rows \cup {}
  OBVIOUS
<1>2. NewRows({}, b.count, c.count, {}, id)
  BY DEF NewRows, TxRows
<1> QED
  BY <1>1, <1>2, Zenon DEF Adds
IsBatch(b) == DOMAIN b = BatchFields /\ b.count \in 0..(CounterModulus - 1)

\* The row of a transaction in the history of an address.
LEMMA AddOneRow ==
    ASSUME NEW b, IsBatch(b), b.count >= 1, NEW w, NEW id
    PROVE  Adds(b, AddRows(b, "txs", <<w>>, id), {w}, id, 1)
<1> DEFINE c == AddRows(b, "txs", <<w>>, id)
           r == [list |-> "txs", address |-> w, key |-> b.count, tx |-> id]
<1>1. Len(<<w>>) = 1 /\ DOMAIN <<w>> = {1} /\ <<w>>[1] = w
  OBVIOUS
<1>2. (b.count - 0) % CounterModulus = b.count /\ (b.count - 1) % CounterModulus = b.count - 1
  <2>1. 0 \in 0..b.count /\ 1 \in 0..b.count /\ b.count \in 0..(CounterModulus - 1)
    BY DEF IsBatch
  <2>2. (b.count - 0) % CounterModulus = b.count - 0
    BY <2>1, CountsDown
  <2>3. (b.count - 1) % CounterModulus = b.count - 1
    BY <2>1, CountsDown
  <2> QED
    BY <2>1, <2>2, <2>3
<1>3. b.count - (1 - 1) = b.count - 0
  BY DEF IsBatch
<1>4. DOMAIN c = BatchFields /\ c.count = b.count - 1
  BY <1>1, <1>2 DEF AddRows, IsBatch, BatchFields
<1>5. {[list |-> "txs", address |-> <<w>>[i], key |-> (b.count - (i - 1)) % CounterModulus,
        tx |-> id] : i \in DOMAIN <<w>>} = {r}
  BY <1>1, <1>2, <1>3
<1>6. c.rows = b.rows \cup {r}
  BY <1>5 DEF AddRows, IsBatch, BatchFields
<1>7. NewRows({r}, b.count, c.count, {w}, id)
  <2>1. r.key \in (c.count + 1)..b.count
    BY <1>4 DEF IsBatch
  <2>2. r.tx = id /\ r.list = "txs" /\ r.address = w
    OBVIOUS
  <2>3. TxRows({r}) = {r}
    BY <2>2 DEF TxRows
  <2> HIDE DEF r, c
  <2> QED
    BY <2>1, <2>2, <2>3 DEF NewRows
<1>8. c.count \in (b.count - 1)..b.count
  BY <1>4 DEF IsBatch
<1> QED
  BY <1>4, <1>6, <1>7, <1>8, Zenon DEF Adds

\* The rows of a transaction in the histories of a token.
LEMMA AddTokenRows ==
    ASSUME NEW b, IsBatch(b), NEW s, NEW n \in Nat, Len(s) = n, DOMAIN s = 1..n,
           n <= b.count, NEW id
    PROVE  Adds(b, AddRows(b, "tokens", s, id), {}, id, n)
<1> DEFINE c == AddRows(b, "tokens", s, id)
           N == {[list |-> "tokens", address |-> s[i],
                  key |-> (b.count - (i - 1)) % CounterModulus, tx |-> id] : i \in DOMAIN s}
<1>1. \A i \in 1..n : (b.count - (i - 1)) % CounterModulus = b.count - (i - 1)
  <2> TAKE i \in 1..n
  <2>1. i - 1 \in 0..b.count
    BY DEF IsBatch
  <2> QED
    BY <2>1, CountsDown DEF IsBatch
<1>2. (b.count - n) % CounterModulus = b.count - n
  BY CountsDown DEF IsBatch
<1>3. DOMAIN c = BatchFields /\ c.count = b.count - n
  BY <1>2 DEF AddRows, IsBatch, BatchFields
<1>4. c.rows = b.rows \cup N
  BY DEF AddRows, IsBatch, BatchFields
<1>5. \A r \in N : \E i \in 1..n :
          r = [list |-> "tokens", address |-> s[i], key |-> b.count - (i - 1), tx |-> id]
  BY <1>1
<1>6. ASSUME NEW r \in N
      PROVE  r.tx = id /\ r.list = "tokens" /\ r.key \in (c.count + 1)..b.count
  <2>1. PICK i \in 1..n :
          r = [list |-> "tokens", address |-> s[i], key |-> b.count - (i - 1), tx |-> id]
    BY <1>5
  <2>2. r.tx = id /\ r.list = "tokens" /\ r.key = b.count - (i - 1)
    BY <2>1
  <2>3. b.count - (i - 1) \in (b.count - n + 1)..b.count
    BY DEF IsBatch
  <2> HIDE DEF c
  <2> QED
    BY <1>3, <2>2, <2>3
<1>7. ASSUME NEW r \in N, NEW q \in N, r.key = q.key
      PROVE  r = q
  <2>1. PICK i \in 1..n :
          r = [list |-> "tokens", address |-> s[i], key |-> b.count - (i - 1), tx |-> id]
    BY <1>5
  <2>2. PICK j \in 1..n :
          q = [list |-> "tokens", address |-> s[j], key |-> b.count - (j - 1), tx |-> id]
    BY <1>5
  <2>3. b.count - (i - 1) = b.count - (j - 1)
    BY <1>7, <2>1, <2>2
  <2>4. b.count \in Int
    BY LedgerAssumption DEF IsBatch
  <2>5. i = j
    BY <2>3, <2>4, SameOffset
  <2> QED
    BY <2>1, <2>2, <2>5, Zenon
<1>8. TxRows(N) = {}
  BY <1>6 DEF TxRows
<1>9. NewRows(N, b.count, c.count, {}, id)
  <2> HIDE DEF N
  <2> QED
    BY <1>6, <1>7, <1>8 DEF NewRows
<1>10. c.count \in (b.count - n)..b.count
  BY <1>3 DEF IsBatch
<1> QED
  BY <1>3, <1>4, <1>9, <1>10, Zenon DEF Adds

\* The addresses of a transaction in whose histories it appears.
ListedFor(tx) ==
    IF "addr_txs" \notin Modules \/ tx.status = "nodeTest" THEN {}
    ELSE {tx.from, tx.to} \ {InitialWallet}

LEMMA AddsToLeveldb ==
    ASSUME NEW b, IsBatch(b), b.count >= 1, NEW tx, NEW w \in {tx.from, tx.to}, NEW id,
           NEW isForging, NEW ok, NEW value
    PROVE  Adds(b, ToLeveldb(b, tx, w, id, isForging, ok, value), ListedFor(tx) \cap {w}, id, 1)
<1> DEFINE c == ToLeveldb(b, tx, w, id, isForging, ok, value)
           listed == IF "addr_txs" \in Modules THEN AddRows(b, "txs", <<w>>, id) ELSE b
<1>1. CASE w = InitialWallet \/ tx.status = "nodeTest"
  <2>1. c = b
    BY <1>1 DEF ToLeveldb
  <2>2. ListedFor(tx) \cap {w} = {}
    BY <1>1 DEF ListedFor
  <2>3. DOMAIN b = BatchFields /\ b.count \in Int /\ b.count \in (b.count - 1)..b.count
    BY DEF IsBatch
  <2>4. Adds(b, b, {}, id, 1)
    BY <2>3, AddsNothing
  <2> QED
    BY <2>1, <2>2, <2>4, Zenon
<1>2. CASE ~(w = InitialWallet \/ tx.status = "nodeTest")
  <2>1. c = listed \/ \E f : c = [listed EXCEPT !.balances = f]
    BY <1>2, Zenon DEF ToLeveldb
  <2>2. DOMAIN listed = BatchFields
    BY AddOneRow DEF Adds, IsBatch
  <2>3. DOMAIN c = BatchFields /\ c.rows = listed.rows /\ c.count = listed.count
    <3> HIDE DEF listed, c
    <3> QED
      BY <2>1, <2>2 DEF BatchFields
  <2>4. CASE "addr_txs" \in Modules
    <3>1. ListedFor(tx) \cap {w} = {w}
      BY <1>2, <2>4 DEF ListedFor
    <3>2. Adds(b, listed, {w}, id, 1)
      BY <2>4, AddOneRow
    <3>3. Adds(b, c, {w}, id, 1)
      <4> HIDE DEF listed, c
      <4> QED
        BY <2>3, <3>2, Zenon DEF Adds
    <3> QED
      BY <3>1, <3>3, Zenon
  <2>5. CASE "addr_txs" \notin Modules
    <3>1. ListedFor(tx) \cap {w} = {}
      BY <2>5 DEF ListedFor
    <3>2. c.rows = b.rows /\ c.count = b.count
      BY <2>3, <2>5
    <3>3. b.count \in Int /\ b.count \in (b.count - 1)..b.count
      BY DEF IsBatch
    <3>4. Adds(b, c, {}, id, 1)
      <4> HIDE DEF c
      <4> QED
        BY <2>3, <3>2, <3>3, AddsNothing
    <3> QED
      BY <3>1, <3>4, Zenon
  <2> QED
    BY <2>4, <2>5
<1> QED
  BY <1>1, <1>2

\* The sender and, when it is another address, the receiver.
LEMMA AddsToBoth ==
    ASSUME NEW b, IsBatch(b), b.count >= 2, NEW tx, NEW id, NEW isForging, NEW ok, NEW value
    PROVE  Adds(b, ToBoth(b, tx, id, isForging, ok, value), ListedFor(tx), id, 2)
<1> DEFINE sender == ToLeveldb(b, tx, tx.from, id, isForging, ok, value)
           both == ToLeveldb(sender, tx, tx.to, id, isForging, ok, value)
<1>0. b.count >= 1 /\ tx.from \in {tx.from, tx.to} /\ tx.to \in {tx.from, tx.to}
  BY DEF IsBatch
<1>1. Adds(b, sender, ListedFor(tx) \cap {tx.from}, id, 1)
  BY <1>0, AddsToLeveldb
<1>2. IsBatch(sender) /\ sender.count >= 1
  <2>1. DOMAIN sender = BatchFields /\ sender.count \in (b.count - 1)..b.count
    BY <1>1, Zenon DEF Adds
  <2>2. CounterModulus \in Nat
    BY LedgerAssumption
  <2> HIDE DEF sender
  <2> QED
    BY <2>1, <2>2 DEF IsBatch
<1>3. Adds(sender, both, ListedFor(tx) \cap {tx.to}, id, 1)
  BY <1>0, <1>2, AddsToLeveldb
<1>4. b.count \in Int
  BY DEF IsBatch
<1>5. CASE tx.from = tx.to
  <2>1. ToBoth(b, tx, id, isForging, ok, value) = sender
    BY <1>5 DEF ToBoth
  <2>2. ListedFor(tx) \cap {tx.from} = ListedFor(tx)
    BY <1>5 DEF ListedFor
  <2>3. Adds(b, sender, ListedFor(tx), id, 1)
    BY <1>1, <2>2
  <2>4. sender.count \in (b.count - 2)..b.count
    <3>1. sender.count \in (b.count - 1)..b.count
      BY <1>1, Zenon DEF Adds
    <3> QED
      BY <1>4, <3>1
  <2> HIDE DEF sender
  <2> QED
    BY <2>1, <2>3, <2>4, Zenon DEF Adds
<1>6. CASE tx.from # tx.to
  <2>1. ToBoth(b, tx, id, isForging, ok, value) = both
    BY <1>6 DEF ToBoth
  <2> DEFINE V == ListedFor(tx) \cap {tx.from}
             W == ListedFor(tx) \cap {tx.to}
  <2>2. V \cup W = ListedFor(tx) /\ V \cap W = {}
    BY <1>6 DEF ListedFor
  <2> HIDE DEF sender, both, V, W
  <2>3. Adds(b, both, V \cup W, id, 1 + 1)
    BY <1>1, <1>3, <1>4, <2>2, AddsTwice DEF V, W
  <2> QED
    BY <2>1, <2>2, <2>3
<1> QED
  BY <1>5, <1>6

\* A delegation takes a key, its rows come after it.
LEMMA AddsMoney ==
    ASSUME NEW b, IsBatch(b), b.count >= 3, NEW tx, NEW id, NEW isForging
    PROVE  Adds(b, ProcessMoney(b, tx, id, isForging), ListedFor(tx), id, 3)
<1> DEFINE money == ProcessMoney(b, tx, id, isForging)
<1>1. b.count \in Int /\ b.count - 1 >= 2 /\ b.count - 1 \in (b.count - 1)..b.count
      /\ b.count \in (b.count - 1)..b.count
  BY DEF IsBatch
<1>2. ASSUME NEW c, DOMAIN c = BatchFields, c.rows = b.rows,
             c.count \in {b.count, b.count - 1}, NEW ok, NEW value
      PROVE  Adds(b, ToBoth(c, tx, id, isForging, ok, value), ListedFor(tx), id, 3)
  <2>1. Adds(b, c, {}, id, 1)
    BY <1>1, <1>2, AddsNothing
  <2>2. IsBatch(c) /\ c.count >= 2
    <3>1. CounterModulus \in Nat
      BY LedgerAssumption
    <3> QED
      BY <1>1, <1>2, <3>1 DEF IsBatch
  <2>3. Adds(c, ToBoth(c, tx, id, isForging, ok, value), ListedFor(tx), id, 2)
    BY <2>2, AddsToBoth
  <2> DEFINE d == ToBoth(c, tx, id, isForging, ok, value)
             W == ListedFor(tx)
  <2>4. Adds(c, d, W, id, 2)
    BY <2>3
  <2>5. Adds(b, d, {} \cup W, id, 1 + 2)
    <3> HIDE DEF d, W
    <3> QED
      BY <1>1, <2>1, <2>4, AddsTwice
  <2>6. {} \cup W = W /\ 1 + 2 = 3
    OBVIOUS
  <2> QED
    BY <2>5, <2>6, Zenon
<1>3. CASE Modules \cap {"balance", "txs", "addr_txs"} = {}
  <2>1. money = b
    BY <1>3 DEF ProcessMoney
  <2>2. ListedFor(tx) = {}
    BY <1>3 DEF ListedFor
  <2>3. DOMAIN b = BatchFields /\ b.count \in (b.count - 3)..b.count
    BY DEF IsBatch
  <2>4. Adds(b, b, {}, id, 3)
    BY <1>1, <2>3, AddsNothing
  <2> QED
    BY <2>1, <2>2, <2>4, Zenon
<1>4. CASE Modules \cap {"balance", "txs", "addr_txs"} # {} /\ tx.op = "delegate"
  <2> DEFINE c == Delegate(b, tx, id)
  <2>1. money = ToBoth(c, tx, id, isForging, ~NotSuccess(tx), 0)
    BY <1>4 DEF ProcessMoney
  <2>2. (b.count - 1) % CounterModulus = b.count - 1
    <3>1. 1 \in 0..b.count /\ b.count \in 0..(CounterModulus - 1)
      BY DEF IsBatch
    <3> QED
      BY <3>1, CountsDown
  <2>3. c = b \/ \E p, f : c = [b EXCEPT !.put = p, !.cache = f, !.count = CountDown(@)]
    BY Zenon DEF Delegate
  <2>4. DOMAIN c = BatchFields /\ c.rows = b.rows /\ c.count \in {b.count, b.count - 1}
    <3> HIDE DEF c
    <3> QED
      BY <2>2, <2>3 DEF IsBatch, BatchFields, CountDown
  <2>5. Adds(b, ToBoth(c, tx, id, isForging, ~NotSuccess(tx), 0), ListedFor(tx), id, 3)
    <3> HIDE DEF c
    <3> QED
      BY <1>2, <2>4
  <2> QED
    BY <2>1, <2>5, Zenon
<1>5. CASE Modules \cap {"balance", "txs", "addr_txs"} # {} /\ tx.op = "undelegate"
           /\ ToUndelegate(b, <<tx.from, tx.to>>) # {}
  <2> DEFINE e == CHOOSE d \in ToUndelegate(b, <<tx.from, tx.to>>) : TRUE
             c == Undelegate(b, tx, e)
  <2>1. money = ToBoth(c, tx, id, isForging, TRUE, e.value)
    BY <1>5 DEF ProcessMoney
  <2>2. \E x, p, f : c = [b EXCEPT !.deleted = x, !.put = p, !.cache = f]
    BY Zenon DEF Undelegate
  <2>3. DOMAIN c = BatchFields /\ c.rows = b.rows /\ c.count \in {b.count, b.count - 1}
    <3> HIDE DEF c
    <3> QED
      BY <2>2 DEF IsBatch, BatchFields
  <2>4. Adds(b, ToBoth(c, tx, id, isForging, TRUE, e.value), ListedFor(tx), id, 3)
    <3> HIDE DEF c, e
    <3> QED
      BY <1>2, <2>3
  <2> QED
    BY <2>1, <2>4, Zenon
<1>6. CASE /\ Modules \cap {"balance", "txs", "addr_txs"} # {}
           /\ tx.op # "delegate"
           /\ ~(tx.op = "undelegate" /\ ToUndelegate(b, <<tx.from, tx.to>>) # {})
  <2>1. money = ToBoth(b, tx, id, isForging, TRUE, 0)
    BY <1>6 DEF ProcessMoney
  <2>2. DOMAIN b = BatchFields /\ b.count \in {b.count, b.count - 1}
    BY DEF IsBatch
  <2>3. Adds(b, ToBoth(b, tx, id, isForging, TRUE, 0), ListedFor(tx), id, 3)
    BY <1>2, <2>2
  <2> QED
    BY <2>1, <2>3, Zenon
<1> QED
  BY <1>3, <1>4, <1>5, <1>6, Zenon

\* A finite set as a sequence.
LEMMA SetToSeqType ==
    ASSUME NEW S, IsFiniteSet(S)
    PROVE  Cardinality(S) \in Nat /\ SetToSeq(S) \in [1..Cardinality(S) -> S]
<1>1. Cardinality(S) \in Nat /\ ExistsBijection(1..Cardinality(S), S)
  BY FS_CardinalityType
<1>2. PICK f \in Bijection(1..Cardinality(S), S) : TRUE
  BY <1>1 DEF ExistsBijection
<1>3. f \in Injection(1..Cardinality(S), S)
  BY <1>2 DEF Bijection
<1>4. f \in [1..Cardinality(S) -> S] /\ IsInjective(f)
  BY <1>3 DEF Injection
<1>5. SetToSeq(S) = CHOOSE g \in [1..Cardinality(S) -> S] : IsInjective(g)
  BY DEF SetToSeq
<1> QED
  BY <1>1, <1>4, <1>5, Zenon

LEMMA TokenRowsType ==
    ASSUME NEW tx \in Transaction
    PROVE  Len(TokenRows(tx)) \in Nat /\ DOMAIN TokenRows(tx) = 1..Len(TokenRows(tx))
<1>1. CASE tx.op = "create"
  <2> DEFINE given == {w \in DOMAIN tx.dist : tx.dist[w] # 0}
             s == SetToSeq(given)
             n == Cardinality(given)
  <2>1. given \subseteq Wallet
    BY DEF Transaction
  <2>2. IsFiniteSet(given)
    BY <2>1, FS_Subset, LedgerAssumption
  <2>3. n \in Nat /\ s \in [1..n -> given]
    BY <2>2, SetToSeqType
  <2>4. TokenRows(tx) = <<tx.target>> \o s
    BY <1>1 DEF TokenRows
  <2>5. s \in Seq(given \cup {tx.target}) /\ <<tx.target>> \in Seq(given \cup {tx.target})
    <3> HIDE DEF s, n, given
    <3> QED
      BY <2>3, SeqOfFunction
  <2>6. <<tx.target>> \o s \in Seq(given \cup {tx.target})
    <3> HIDE DEF s, n, given
    <3> QED
      BY <2>5
  <2> HIDE DEF s, n, given
  <2> QED
    BY <2>4, <2>6
<1>2. CASE tx.op # "create"
  <2>1. TokenRows(tx) \in {<<tx.from, tx.target>>, <<tx.target>>, <<tx.from>>}
    BY <1>2 DEF TokenRows
  <2> QED
    BY <2>1
<1> QED
  BY <1>1, <1>2

LEMMA AddsToken ==
    ASSUME NEW b, IsBatch(b), NEW tx \in Transaction, NEW id,
           Len(TokenRows(tx)) <= b.count
    PROVE  Adds(b, ProcessToken(b, tx, id), {}, id, Len(TokenRows(tx)))
<1> DEFINE n == Len(TokenRows(tx))
           marked == TokenRecord(b, tx)
           rows == AddRows(marked, "tokens", TokenRows(tx), id)
           record == IF "txs" \in Modules /\ ~NotSuccess(tx) THEN rows ELSE b
           c == ProcessToken(b, tx, id)
<1>1. n \in Nat /\ DOMAIN TokenRows(tx) = 1..n
  BY TokenRowsType
<1>2. b.count \in Int /\ DOMAIN b = BatchFields /\ b.count \in (b.count - n)..b.count
  BY <1>1 DEF IsBatch
<1>3. marked = b \/ \E f : marked = [b EXCEPT !.tokens = f]
  BY Zenon DEF TokenRecord, SetTokenRecord
<1>4. IsBatch(marked) /\ marked.rows = b.rows /\ marked.count = b.count
  <2> HIDE DEF marked
  <2> QED
    BY <1>3 DEF IsBatch, BatchFields
<1>5. Adds(marked, rows, {}, id, n)
  <2>1. n <= marked.count
    BY <1>4
  <2> HIDE DEF marked
  <2> QED
    BY <1>1, <1>4, <2>1, AddTokenRows
<1>6. Adds(b, rows, {}, id, n)
  <2> HIDE DEF marked, rows, n
  <2> QED
    BY <1>4, <1>5, Zenon DEF Adds
<1>7. Adds(b, b, {}, id, n)
  <2> HIDE DEF n
  <2> QED
    BY <1>1, <1>2, AddsNothing
<1>8. Adds(b, record, {}, id, n)
  BY <1>6, <1>7, Zenon
<1>9. c \in {b, record} \/ \E f : c = [record EXCEPT !.balances = f]
  BY Zenon DEF ProcessToken
<1>10. CASE c = b
  BY <1>7, <1>10, Zenon
<1>11. CASE c = record \/ \E f : c = [record EXCEPT !.balances = f]
  <2> HIDE DEF record, c, n
  <2>1. DOMAIN record = BatchFields
    BY <1>8, Zenon DEF Adds
  <2>2. DOMAIN c = BatchFields /\ c.rows = record.rows /\ c.count = record.count
    BY <1>11, <2>1 DEF BatchFields
  <2>3. Adds(b, c, {}, id, n)
    BY <1>8, <2>2, Zenon DEF Adds
  <2> QED
    BY <2>3 DEF c, n
<1> QED
  BY <1>9, <1>10, <1>11, Zenon

\* A transaction uses at most this many keys.
KeysFor(tx) == 3 + Len(TokenRows(tx))

LEMMA AddsTx ==
    ASSUME NEW b, IsBatch(b), NEW tx \in Transaction, NEW id, NEW isForging,
           KeysFor(tx) <= b.count
    PROVE  Adds(b, ProcessTx(b, tx, id, isForging), ListedFor(tx), id, KeysFor(tx))
<1> DEFINE n == Len(TokenRows(tx))
           W == ListedFor(tx)
           c == ProcessMoney(b, tx, id, isForging)
           d == ProcessToken(c, tx, id)
           e == ProcessTx(b, tx, id, isForging)
<1>1. n \in Nat /\ b.count \in Int /\ b.count >= 3 + n /\ b.count >= 3
  BY TokenRowsType DEF IsBatch, KeysFor
<1>2. Adds(b, c, W, id, 3)
  BY <1>1, AddsMoney
<1>3. IsBatch(c) /\ n <= c.count
  <2>1. DOMAIN c = BatchFields /\ c.count \in (b.count - 3)..b.count
    BY <1>2, Zenon DEF Adds
  <2>2. CounterModulus \in Nat
    BY LedgerAssumption
  <2> HIDE DEF c, n
  <2> QED
    BY <1>1, <2>1, <2>2 DEF IsBatch
<1>4. Adds(c, d, {}, id, n)
  <2> HIDE DEF c
  <2> QED
    BY <1>3, AddsToken
<1>5. Adds(b, d, W \cup {}, id, 3 + n)
  <2> HIDE DEF c, d, W, n
  <2> QED
    BY <1>1, <1>2, <1>4, AddsTwice
<1>6. Adds(b, d, W, id, 3 + n)
  <2>1. W \cup {} = W
    OBVIOUS
  <2> QED
    BY <1>5, <2>1, Zenon
<1>7. e = d \/ \E f : e = [d EXCEPT !.common = f]
  BY Zenon DEF ProcessTx, ProcessCommon
<1>8. DOMAIN e = BatchFields /\ e.rows = d.rows /\ e.count = d.count
  <2>1. DOMAIN d = BatchFields
    BY <1>6, Zenon DEF Adds
  <2> HIDE DEF e, d
  <2> QED
    BY <1>7, <2>1 DEF BatchFields
<1>9. Adds(b, e, W, id, 3 + n)
  <2> HIDE DEF e, d, W, n
  <2> QED
    BY <1>6, <1>8, Zenon DEF Adds
<1> QED
  BY <1>9, Zenon DEF KeysFor

(***************************************************************************)
(* The inductive invariant.                                                *)
(***************************************************************************)

Later(x, y) == x[1] > y[1] \/ (x[1] = y[1] /\ x[2] > y[2])

At(c, id) == c[id[1]].txs[id[2]]

\* The rows R are the histories of the transactions ids of the chain c: no two have the same
\* key, a lower key is that of a later transaction, and each address has each of
\* its transactions once.
RowsOf(c, R, ids) ==
    /\ \A r \in R : r.key \in Nat /\ r.tx \in ids
    /\ \A r, q \in R : r.key = q.key => r = q
    /\ \A r, q \in R : r.key < q.key => r.tx = q.tx \/ Later(r.tx, q.tx)
    /\ \A r, q \in TxRows(R) : r.tx = q.tx /\ r.address = q.address => r = q
    /\ \A id \in ids : \A w \in ListedFor(At(c, id)) :
          \E r \in TxRows(R) : r.tx = id /\ r.address = w
    /\ \A r \in TxRows(R) : r.address \in ListedFor(At(c, r.tx))

\* The transactions of the block at hand that are done.
DoneTxs == {<<working, i>> : i \in 1..(next - 1)}

PlaceOK ==
    /\ chain \in Chains
    /\ db.number \in 0..Len(chain)
    /\ fed \in Nat /\ queue \in Seq(1..Len(chain))
    /\ working \in 0..Len(chain)
    /\ working = 0 => next = 0
    /\ working # 0 =>
          /\ db.number < working
          /\ next \in 1..(Len(chain[working].txs) + 1)
          /\ chain[working].type = "state" => next = 1
    /\ applied \subseteq 1..db.number

\* The keys of the database are above those of the batch, and the counter is
\* below both, also after a restart.
CounterOK ==
    /\ IsBatch(batch)
    /\ db.countVal \in 0..(CounterModulus - 1)
    /\ db.rows # {} => db.countVal > 0
    /\ \A r \in db.rows : r.key > db.countVal /\ r.key > batch.count
    /\ \A q \in batch.rows : q.key > batch.count
    /\ \A r \in db.rows, q \in batch.rows : r.key > q.key

LdInv ==
    /\ PlaceOK
    /\ CounterOK
    /\ RowsOf(chain, db.rows, AppliedTxs)
    /\ RowsOf(chain, batch.rows, DoneTxs)

\* The counter of 64 bits does not run out: there is a key for all that the next
\* transaction writes.
CounterLasts ==
    /\ batch.count > 0
    /\ HasNextTx => KeysFor(ThisTx) < batch.count

(***************************************************************************)
(* Rows and the transactions they are of.                                  *)
(***************************************************************************)

LEMMA RowsOfJoin ==
    ASSUME NEW c, NEW R, NEW Q, NEW I, NEW J, RowsOf(c, R, I), RowsOf(c, Q, J), I \cap J = {},
           \A r \in R, q \in Q : r.key > q.key,
           \A x \in I, y \in J : Later(y, x)
    PROVE  RowsOf(c, R \cup Q, I \cup J)
<1> DEFINE S == R \cup Q
<1>1. \A r \in R : r.key \in Nat /\ r.tx \in I
  BY DEF RowsOf
<1>2. \A r \in Q : r.key \in Nat /\ r.tx \in J
  BY DEF RowsOf
<1>3. \A r \in S : r.key \in Nat /\ r.tx \in I \cup J
  BY <1>1, <1>2
<1>4. ASSUME NEW r \in S, NEW q \in S, r.key = q.key
      PROVE  r = q
  <2>1. CASE (r \in R /\ q \in R) \/ (r \in Q /\ q \in Q)
    BY <1>4, <2>1, Zenon DEF RowsOf
  <2>2. CASE (r \in R /\ q \in Q) \/ (r \in Q /\ q \in R)
    BY <1>1, <1>2, <1>4, <2>2
  <2> QED
    BY <2>1, <2>2
<1>5. ASSUME NEW r \in S, NEW q \in S, r.key < q.key
      PROVE  r.tx = q.tx \/ Later(r.tx, q.tx)
  <2>1. CASE (r \in R /\ q \in R) \/ (r \in Q /\ q \in Q)
    BY <1>5, <2>1, Zenon DEF RowsOf
  <2>2. CASE r \in Q /\ q \in R
    BY <1>1, <1>2, <2>2, Zenon
  <2>3. CASE r \in R /\ q \in Q
    <3>1. q.key < r.key /\ r.key \in Nat /\ q.key \in Nat
      BY <1>1, <1>2, <2>3
    <3> QED
      BY <1>5, <3>1
  <2> QED
    BY <2>1, <2>2, <2>3
<1>6. \A r \in TxRows(S) : r \in TxRows(R) \/ r \in TxRows(Q)
  BY DEF TxRows
<1>7. TxRows(R) \subseteq TxRows(S) /\ TxRows(Q) \subseteq TxRows(S)
      /\ TxRows(R) \subseteq R /\ TxRows(Q) \subseteq Q
  BY DEF TxRows
<1>8. ASSUME NEW r \in TxRows(S), NEW q \in TxRows(S), r.tx = q.tx, r.address = q.address
      PROVE  r = q
  <2>1. CASE (r \in TxRows(R) /\ q \in TxRows(R)) \/ (r \in TxRows(Q) /\ q \in TxRows(Q))
    BY <1>8, <2>1, Zenon DEF RowsOf
  <2>2. CASE (r \in TxRows(R) /\ q \in TxRows(Q)) \/ (r \in TxRows(Q) /\ q \in TxRows(R))
    <3>1. r.tx \in I /\ r.tx \in J
      BY <1>1, <1>2, <1>7, <1>8, <2>2
    <3> QED
      BY <3>1
  <2> QED
    BY <1>6, <2>1, <2>2, Zenon
<1>9. ASSUME NEW id \in I \cup J, NEW w \in ListedFor(At(c, id))
      PROVE  \E r \in TxRows(S) : r.tx = id /\ r.address = w
  <2>1. CASE id \in I
    <3>1. \E r \in TxRows(R) : r.tx = id /\ r.address = w
      BY <2>1, Zenon DEF RowsOf
    <3> QED
      BY <1>7, <3>1
  <2>2. CASE id \in J
    <3>1. \E r \in TxRows(Q) : r.tx = id /\ r.address = w
      BY <2>2, Zenon DEF RowsOf
    <3> QED
      BY <1>7, <3>1
  <2> QED
    BY <2>1, <2>2
<1>10. \A r \in TxRows(S) : r.address \in ListedFor(At(c, r.tx))
  BY <1>6, Zenon DEF RowsOf
<1> HIDE DEF S
<1>11. RowsOf(c, S, I \cup J)
  BY <1>3, <1>4, <1>5, <1>8, <1>9, <1>10, Zenon DEF RowsOf
<1> QED
  BY <1>11 DEF S

LEMMA RowsOfOne ==
    ASSUME NEW c, NEW N, NEW hi, NEW lo \in Nat, NEW id,
           NewRows(N, hi, lo, ListedFor(At(c, id)), id), hi \in Nat
    PROVE  RowsOf(c, N, {id})
<1>1. \A r \in N : r.key \in Nat /\ r.tx \in {id} /\ r.tx = id
  BY DEF NewRows
<1>2. \A r, q \in N : r.key = q.key => r = q
  BY DEF NewRows
<1>3. \A r, q \in TxRows(N) : r.address = q.address => r = q
  BY DEF NewRows
<1>4. TxRows(N) \subseteq N
  BY DEF TxRows
<1>5. {r.address : r \in TxRows(N)} = ListedFor(At(c, id))
  BY DEF NewRows
<1>6. \A r \in TxRows(N) : r.address \in ListedFor(At(c, r.tx))
  BY <1>1, <1>4, <1>5
<1>7. \A w \in ListedFor(At(c, id)) : \E r \in TxRows(N) : r.tx = id /\ r.address = w
  BY <1>1, <1>4, <1>5
<1> QED
  BY <1>1, <1>2, <1>3, <1>6, <1>7 DEF RowsOf

LEMMA RowsOfNone == \A c : RowsOf(c, {}, {})
BY DEF RowsOf, TxRows

(***************************************************************************)
(* The steps.                                                              *)
(***************************************************************************)

LEMMA ChainFacts ==
    ASSUME NEW c \in Chains
    PROVE  /\ Len(c) \in Nat /\ DOMAIN c = 1..Len(c)
           /\ \A n \in 1..Len(c) :
                /\ c[n].txs \in Seq(Transaction)
                /\ Len(c[n].txs) \in Nat /\ DOMAIN c[n].txs = 1..Len(c[n].txs)
<1> DEFINE T == Seq(Transaction)
           B == [type : {"simple", "forging", "state"}, txs : T]
<1>1. c \in Seq(B)
  BY LedgerAssumption
<1>2. Len(c) \in Nat /\ DOMAIN c = 1..Len(c) /\ \A n \in 1..Len(c) : c[n] \in B
  <2> HIDE DEF B
  <2> QED
    BY <1>1
<1>3. \A n \in 1..Len(c) : c[n].txs \in T
  <2> HIDE DEF T
  <2> QED
    BY <1>2
<1> QED
  BY <1>2, <1>3

\* NewBatch has the fields of a batch and no rows.
LEMMA NewBatchFacts ==
    ASSUME NEW c \in 0..(CounterModulus - 1)
    PROVE  /\ IsBatch(NewBatch(c)) /\ NewBatch(c).rows = {} /\ NewBatch(c).count = c
<1>1. DOMAIN NewBatch(c) = BatchFields
  BY DEF NewBatch, BatchFields
<1>2. NewBatch(c).rows = {} /\ NewBatch(c).count = c
  BY DEF NewBatch
<1> QED
  BY <1>1, <1>2 DEF IsBatch

LEMMA InitStep == LdInit => LdInv
<1> SUFFICES ASSUME LdInit PROVE LdInv
  OBVIOUS
<1>1. /\ chain \in Chains /\ db = EmptyDb /\ queue = <<>> /\ fed = 0 /\ working = 0 /\ next = 0
      /\ batch = NewBatch(StoreCounter(0)) /\ applied = {}
  BY DEF LdInit
<1>2. db.number = 0 /\ db.countVal = 0 /\ db.rows = {}
  BY <1>1 DEF EmptyDb
<1>3. StoreCounter(0) \in 0..(CounterModulus - 1) /\ 0 \in 0..(CounterModulus - 1)
  BY LedgerAssumption DEF StoreCounter
<1>4. IsBatch(batch) /\ batch.rows = {}
  BY <1>1, <1>3, NewBatchFacts
<1>5. PlaceOK
  BY <1>1, <1>2, ChainFacts DEF PlaceOK
<1>6. CounterOK
  BY <1>2, <1>3, <1>4 DEF CounterOK
<1>7. DoneTxs = {}
  BY <1>1 DEF DoneTxs
<1>8. AppliedTxs = {}
  BY <1>1 DEF AppliedTxs
<1> QED
  BY <1>2, <1>4, <1>5, <1>6, <1>7, <1>8, RowsOfNone DEF LdInv

\* The feeding thread and a skipped block touch neither database nor batch.
LEMMA FeedStep ==
    ASSUME LdInv, UNCHANGED <<chain, db, working, next, batch, applied>>,
           fed' \in Nat, queue' \in Seq(1..Len(chain))
    PROVE  LdInv'
<1>1. PlaceOK'
  BY DEF LdInv, PlaceOK
<1>2. CounterOK'
  BY DEF LdInv, CounterOK, IsBatch
<1>3. DoneTxs' = DoneTxs
  BY DEF DoneTxs
<1>4. AppliedTxs' = AppliedTxs
  BY DEF AppliedTxs
<1>5. RowsOf(chain, db.rows, AppliedTxs)' /\ RowsOf(chain, batch.rows, DoneTxs)'
  BY <1>3, <1>4 DEF LdInv
<1> QED
  BY <1>1, <1>2, <1>5 DEF LdInv

\* The worker takes up a block, or none, with an empty batch.
LEMMA FreshStep ==
    ASSUME LdInv, UNCHANGED <<chain, db, applied>>,
           NEW c \in 0..(CounterModulus - 1), batch' = NewBatch(c),
           db.rows # {} => c <= batch.count \/ c <= db.countVal,
           fed' \in Nat, queue' \in Seq(1..Len(chain)),
           \/ working' = 0 /\ next' = 0
           \/ working' \in 1..Len(chain) /\ db.number < working' /\ next' = 1
    PROVE  LdInv'
<1>0. chain \in Chains /\ \A n \in 1..Len(chain) : Len(chain[n].txs) \in Nat
  BY ChainFacts DEF LdInv, PlaceOK
<1>1. PlaceOK'
  <2>1. 0 \in 0..Len(chain)
    BY <1>0, ChainFacts
  <2>2. CASE working' = 0 /\ next' = 0
    BY <2>1, <2>2 DEF LdInv, PlaceOK
  <2>3. CASE working' \in 1..Len(chain) /\ db.number < working' /\ next' = 1
    <3>1. 1 \in 1..(Len(chain[working'].txs) + 1) /\ working' # 0 /\ working' \in 0..Len(chain)
      BY <1>0, <2>3
    <3> QED
      BY <2>3, <3>1 DEF LdInv, PlaceOK
  <2> QED
    BY <2>2, <2>3
<1>2. IsBatch(batch)' /\ batch'.rows = {} /\ batch'.count = c
  BY NewBatchFacts DEF IsBatch
<1>3. \A r \in db.rows : r.key > c
  <2>1. \A r \in db.rows : r.key \in Nat /\ r.key > db.countVal /\ r.key > batch.count
    BY DEF LdInv, CounterOK, RowsOf
  <2>2. batch.count \in Nat /\ db.countVal \in Nat
    BY DEF LdInv, CounterOK, IsBatch
  <2> QED
    BY <2>1, <2>2
<1>4. CounterOK'
  BY <1>2, <1>3 DEF LdInv, CounterOK
<1>5. DoneTxs' = {}
  BY DEF DoneTxs
<1>6. AppliedTxs' = AppliedTxs
  BY DEF AppliedTxs
<1>7. RowsOf(chain, db.rows, AppliedTxs)' /\ RowsOf(chain, batch.rows, DoneTxs)'
  BY <1>2, <1>5, <1>6, RowsOfNone DEF LdInv
<1> QED
  BY <1>1, <1>4, <1>7 DEF LdInv

LEMMA NextTxStep ==
    ASSUME LdInv, CounterLasts, NextTx
    PROVE  LdInv'
<1> DEFINE tx == ThisTx
           id == <<working, next>>
           k == KeysFor(tx)
<1>1. /\ working # 0 /\ chain[working].type # "state" /\ next <= Len(chain[working].txs)
      /\ batch' = ProcessTx(batch, tx, id, chain[working].type = "forging")
      /\ next' = next + 1
      /\ UNCHANGED <<chain, db, queue, fed, working, applied>>
  BY DEF NextTx, HasNextTx
<1>2. /\ chain \in Chains /\ working \in 1..Len(chain)
      /\ Len(chain[working].txs) \in Nat /\ next \in 1..Len(chain[working].txs)
      /\ chain[working].txs \in Seq(Transaction)
  BY <1>1, ChainFacts DEF LdInv, PlaceOK
<1>3. tx \in Transaction /\ tx = At(chain, id)
  BY <1>2 DEF ThisTx, At
<1>4. IsBatch(batch) /\ batch.count \in Nat /\ k < batch.count /\ k \in Nat
  <2>1. IsBatch(batch) /\ batch.count \in Nat
    BY DEF LdInv, CounterOK, IsBatch
  <2>2. k < batch.count
    BY DEF CounterLasts, NextTx
  <2>3. k \in Nat
    BY <1>3, TokenRowsType DEF KeysFor
  <2> QED
    BY <2>1, <2>2, <2>3
<1>5. Adds(batch, batch', ListedFor(tx), id, k)
  <2>1. KeysFor(tx) <= batch.count
    BY <1>4
  <2> HIDE DEF tx, id
  <2> QED
    BY <1>1, <1>3, <1>4, <2>1, AddsTx
<1>6. /\ DOMAIN batch' = BatchFields
      /\ batch'.count \in Nat /\ batch'.count <= batch.count
  <2>1. DOMAIN batch' = BatchFields /\ batch'.count \in (batch.count - k)..batch.count
    BY <1>5, Zenon DEF Adds
  <2> HIDE DEF k
  <2> QED
    BY <1>4, <2>1
<1>7. PICK N : batch'.rows = batch.rows \cup N
               /\ NewRows(N, batch.count, batch'.count, ListedFor(tx), id)
  BY <1>5, Zenon DEF Adds
<1>8. RowsOf(chain, N, {id})
  <2> HIDE DEF id, tx
  <2> QED
    BY <1>3, <1>4, <1>6, <1>7, RowsOfOne
<1>9. \A r \in N : r.key \in (batch'.count + 1)..batch.count
  BY <1>7 DEF NewRows
<1>10. DoneTxs' = DoneTxs \cup {id} /\ DoneTxs \cap {id} = {}
       /\ \A x \in DoneTxs, y \in {id} : Later(y, x)
  <2>1. DoneTxs' = DoneTxs \cup {id}
    <3>1. working' = working /\ next' = next + 1 /\ next \in Int
      BY <1>1, <1>2
    <3>2. 1..(next' - 1) = (1..(next - 1)) \cup {next}
      BY <1>2, <3>1
    <3>3. \A x : x \in DoneTxs' <=> \E i \in 1..(next' - 1) : x = <<working', i>>
      BY Zenon DEF DoneTxs
    <3>4. \A x : x \in DoneTxs' <=> \E i \in (1..(next - 1)) \cup {next} : x = <<working, i>>
      BY <3>1, <3>2, <3>3, Zenon
    <3>5. \A x : x \in DoneTxs <=> \E i \in 1..(next - 1) : x = <<working, i>>
      BY DEF DoneTxs
    <3> QED
      BY <3>4, <3>5
  <2>2. ASSUME NEW x \in DoneTxs
        PROVE  x # id /\ Later(id, x)
    <3>1. PICK i \in 1..(next - 1) : x = <<working, i>>
      BY DEF DoneTxs
    <3>2. i < next /\ i # next
      BY <1>2
    <3> QED
      BY <3>1, <3>2 DEF Later
  <2> QED
    BY <2>1, <2>2
<1>11. \A r \in batch.rows : r.key \in Nat /\ r.key > batch.count
  BY DEF LdInv, RowsOf, CounterOK
<1>12. \A r \in batch.rows, q \in N : r.key > q.key
  BY <1>4, <1>6, <1>9, <1>11
<1>13. RowsOf(chain, batch'.rows, DoneTxs')
  <2>1. RowsOf(chain, batch.rows, DoneTxs)
    BY DEF LdInv
  <2>2. RowsOf(chain, batch.rows \cup N, DoneTxs \cup {id})
    <3> HIDE DEF id
    <3> QED
      BY <1>8, <1>10, <1>12, <2>1, RowsOfJoin
  <2> QED
    BY <1>7, <1>10, <2>2, Zenon
<1>14. AppliedTxs' = AppliedTxs
  BY <1>1 DEF AppliedTxs
<1>15. PlaceOK'
  BY <1>1, <1>2 DEF LdInv, PlaceOK
<1>16. CounterOK'
  <2>1. IsBatch(batch)'
    <3>1. CounterModulus \in Nat /\ batch.count \in 0..(CounterModulus - 1)
      BY <1>4, LedgerAssumption DEF IsBatch
    <3> QED
      BY <1>6, <3>1 DEF IsBatch
  <2>2. \A r \in db.rows : r.key \in Nat /\ r.key > batch.count /\ r.key > db.countVal
    BY DEF LdInv, RowsOf, CounterOK
  <2>3. \A r \in db.rows : r.key > batch'.count
    BY <1>4, <1>6, <2>2
  <2>4. \A r \in batch'.rows : r.key > batch'.count
    <3>1. \A r \in batch.rows : r.key > batch'.count
      BY <1>4, <1>6, <1>11
    <3>2. \A r \in N : r.key > batch'.count
      BY <1>6, <1>9
    <3> QED
      BY <1>7, <3>1, <3>2
  <2>5. \A r \in db.rows, q \in batch'.rows : r.key > q.key
    <3>1. \A r \in db.rows, q \in batch.rows : r.key > q.key
      BY DEF LdInv, CounterOK
    <3>2. \A r \in db.rows, q \in N : r.key > q.key
      BY <1>4, <1>6, <1>9, <2>2
    <3> QED
      BY <1>7, <3>1, <3>2
  <2> QED
    BY <1>1, <2>1, <2>2, <2>3, <2>4, <2>5 DEF LdInv, CounterOK
<1>17. RowsOf(chain, db.rows, AppliedTxs)' /\ RowsOf(chain, batch.rows, DoneTxs)'
  BY <1>1, <1>13, <1>14 DEF LdInv
<1> QED
  BY <1>15, <1>16, <1>17 DEF LdInv

\* The transactions of a complete block are applied with it.
LEMMA AppliedGrow ==
    ASSUME LdInv, Complete, chain' = chain, applied' = applied \cup {working}
    PROVE  /\ AppliedTxs' = AppliedTxs \cup DoneTxs
           /\ AppliedTxs \cap DoneTxs = {}
           /\ \A x \in AppliedTxs, y \in DoneTxs : Later(y, x)
<1>1. /\ working \in 1..Len(chain) /\ db.number < working /\ db.number \in Nat
      /\ applied \subseteq 1..db.number /\ chain \in Chains
  BY ChainFacts DEF LdInv, PlaceOK, Complete
<1>2. DoneTxs = IF chain[working].type = "state" THEN {}
                ELSE {<<working, i>> : i \in DOMAIN chain[working].txs}
  <2>1. CASE chain[working].type = "state"
    <3>1. next = 1
      BY <1>1, <2>1 DEF LdInv, PlaceOK
    <3> QED
      BY <2>1, <3>1 DEF DoneTxs
  <2>2. CASE chain[working].type # "state"
    <3>1. next > Len(chain[working].txs) /\ next \in 1..(Len(chain[working].txs) + 1)
      BY <1>1, <2>2 DEF LdInv, PlaceOK, Complete
    <3>2. Len(chain[working].txs) \in Nat /\ DOMAIN chain[working].txs = 1..Len(chain[working].txs)
      BY <1>1, ChainFacts
    <3>3. next - 1 = Len(chain[working].txs)
      BY <3>1, <3>2
    <3> QED
      BY <2>2, <3>2, <3>3 DEF DoneTxs
  <2> QED
    BY <2>1, <2>2
<1>3. \A x : x \in AppliedTxs <=>
        \E n \in applied : chain[n].type # "state" /\ \E i \in DOMAIN chain[n].txs : x = <<n, i>>
  BY DEF AppliedTxs
<1>4. \A x : x \in AppliedTxs' <=>
        \E n \in applied' : chain[n].type # "state" /\ \E i \in DOMAIN chain[n].txs : x = <<n, i>>
  BY DEF AppliedTxs
<1>5. \A x : x \in DoneTxs <=>
        chain[working].type # "state" /\ \E i \in DOMAIN chain[working].txs : x = <<working, i>>
  BY <1>2
<1>6. AppliedTxs' = AppliedTxs \cup DoneTxs
  BY <1>3, <1>4, <1>5
<1>7. ASSUME NEW x \in AppliedTxs, NEW y \in DoneTxs
      PROVE  x # y /\ Later(y, x)
  <2>1. PICK n \in applied : \E i \in DOMAIN chain[n].txs : x = <<n, i>>
    BY <1>3
  <2>2. PICK j \in DOMAIN chain[working].txs : y = <<working, j>>
    BY <1>5
  <2>3. n < working /\ n # working
    BY <1>1
  <2> QED
    BY <2>1, <2>2, <2>3 DEF Later
<1> QED
  BY <1>6, <1>7

LEMMA SaveStep ==
    ASSUME LdInv, CounterLasts, Save
    PROVE  LdInv'
<1>1. /\ Complete /\ working # 0
      /\ db'.number = working /\ db'.countVal = batch.count
      /\ db'.rows = db.rows \cup batch.rows
      /\ applied' = applied \cup {working} /\ working' = 0 /\ next' = 0
      /\ UNCHANGED <<chain, queue, fed>>
  BY DEF Save, Complete
<1>2. IsBatch(batch)' /\ batch'.rows = {} /\ batch'.count = batch.count
  <2>1. \E f : batch' = [NewBatch(batch.count) EXCEPT !.common = f]
    BY DEF Save
  <2>2. IsBatch(NewBatch(batch.count)) /\ NewBatch(batch.count).rows = {}
        /\ NewBatch(batch.count).count = batch.count
    BY NewBatchFacts DEF LdInv, CounterOK, IsBatch
  <2> HIDE DEF NewBatch
  <2> QED
    BY <2>1, <2>2 DEF IsBatch, BatchFields
<1>3. AppliedTxs' = AppliedTxs \cup DoneTxs /\ AppliedTxs \cap DoneTxs = {}
      /\ \A x \in AppliedTxs, y \in DoneTxs : Later(y, x)
  BY <1>1, AppliedGrow
<1>4. \A r \in db.rows, q \in batch.rows : r.key > q.key
  BY DEF LdInv, CounterOK
<1>5. RowsOf(chain, db.rows \cup batch.rows, AppliedTxs \cup DoneTxs)
  <2>1. RowsOf(chain, db.rows, AppliedTxs) /\ RowsOf(chain, batch.rows, DoneTxs)
    BY DEF LdInv
  <2> QED
    BY <1>3, <1>4, <2>1, RowsOfJoin
<1>6. DoneTxs' = {}
  BY <1>1 DEF DoneTxs
<1>7. RowsOf(chain, db.rows, AppliedTxs)' /\ RowsOf(chain, batch.rows, DoneTxs)'
  BY <1>1, <1>2, <1>3, <1>5, <1>6, RowsOfNone
<1>8. PlaceOK'
  <2>1. working \in 0..Len(chain) /\ db.number \in Nat /\ db.number < working
        /\ applied \subseteq 1..db.number /\ Len(chain) \in Nat
    BY <1>1, ChainFacts DEF LdInv, PlaceOK
  <2>2. applied' \subseteq 1..working /\ 0 \in 0..Len(chain)
    BY <1>1, <2>1
  <2> QED
    BY <1>1, <2>1, <2>2 DEF LdInv, PlaceOK
<1>9. CounterOK'
  <2>1. batch.count \in 0..(CounterModulus - 1) /\ batch.count > 0
    BY DEF LdInv, CounterOK, IsBatch, CounterLasts
  <2>2. \A r \in db'.rows : r.key > batch.count
    BY <1>1 DEF LdInv, CounterOK
  <2> QED
    BY <1>1, <1>2, <2>1, <2>2 DEF CounterOK
<1> QED
  BY <1>7, <1>8, <1>9 DEF LdInv

LEMMA NextStep ==
    ASSUME LdInv, CounterLasts, [LdNext]_ldVars
    PROVE  LdInv'
<1>1. /\ fed \in Nat /\ queue \in Seq(1..Len(chain)) /\ Len(chain) \in Nat
      /\ working \in 0..Len(chain) /\ db.number \in 0..Len(chain)
  BY ChainFacts DEF LdInv, PlaceOK
<1>2. batch.count \in 0..(CounterModulus - 1) /\ batch.count <= batch.count
  BY DEF LdInv, CounterOK, IsBatch
<1>3. CASE Process
  <2>1. fed + 1 \in 1..Len(chain) /\ fed' = fed + 1
    BY <1>1, <1>3 DEF Process
  <2>2. queue' = queue \/ queue' = <<fed + 1>>
    BY <1>3 DEF Process
  <2>3. <<fed + 1>> \in Seq(1..Len(chain))
    BY <2>1
  <2>4. UNCHANGED <<chain, db, working, next, batch, applied>>
    BY <1>3 DEF Process
  <2>5. fed' \in Nat
    BY <1>1, <2>1
  <2>6. queue' \in Seq(1..Len(chain))
    BY <1>1, <2>2, <2>3, Zenon
  <2> QED
    BY <2>4, <2>5, <2>6, FeedStep
<1>4. CASE Skip
  <2>1. UNCHANGED <<chain, db, fed, working, next, batch, applied>>
        /\ queue # <<>> /\ queue' = Tail(queue)
    BY <1>4 DEF Skip
  <2>2. queue' \in Seq(1..Len(chain))
    BY <1>1, <2>1
  <2> QED
    BY <1>1, <2>1, <2>2, FeedStep
<1>5. CASE Begin
  <2>1. /\ UNCHANGED <<chain, db, fed, applied>>
        /\ queue # <<>> /\ queue' = Tail(queue)
        /\ working' = Head(queue) /\ next' = 1 /\ Head(queue) > db.number
        /\ batch' = NewBatch(batch.count)
    BY <1>5 DEF Begin
  <2>2. queue' \in Seq(1..Len(chain)) /\ Head(queue) \in 1..Len(chain)
    BY <1>1, <2>1
  <2>3. working' \in 1..Len(chain) /\ db.number < working'
    BY <1>1, <2>1, <2>2
  <2> QED
    BY <1>1, <1>2, <2>1, <2>2, <2>3, FreshStep
<1>6. CASE NextTx
  BY <1>6, NextTxStep
<1>7. CASE TxFails \/ StateRefused \/ SaveFails
  <2>1. /\ UNCHANGED <<chain, db, fed, queue, applied>>
        /\ working' = 0 /\ next' = 0 /\ batch' = NewBatch(batch.count)
    BY <1>7 DEF TxFails, StateRefused, SaveFails, Idle
  <2> QED
    BY <1>1, <1>2, <2>1, FreshStep
<1>8. CASE Save
  BY <1>8, SaveStep
<1>9. CASE Restart
  <2>1. /\ UNCHANGED <<chain, db, applied>>
        /\ queue' = <<>> /\ fed' \in 0..db.number
        /\ working' = 0 /\ next' = 0 /\ batch' = NewBatch(StoreCounter(db.countVal))
    BY <1>9 DEF Restart
  <2>2. queue' \in Seq(1..Len(chain)) /\ fed' \in Nat
    BY <1>1, <2>1
  <2>3. db.countVal \in 0..(CounterModulus - 1) /\ CounterModulus \in Nat \ {0}
    BY LedgerAssumption DEF LdInv, CounterOK
  <2>4. StoreCounter(db.countVal) \in 0..(CounterModulus - 1)
    BY <2>3 DEF StoreCounter
  <2>5. ASSUME db.rows # {}
        PROVE  StoreCounter(db.countVal) <= db.countVal
    <3>1. db.countVal > 0
      BY <2>5 DEF LdInv, CounterOK
    <3>2. 1 \in 0..db.countVal
      BY <2>3, <3>1
    <3>3. StoreCounter(db.countVal) = db.countVal - 1
      BY <2>3, <3>2, CountsDown DEF StoreCounter
    <3> QED
      BY <2>3, <3>3
  <2> QED
    BY <2>1, <2>2, <2>4, <2>5, FreshStep
<1>10. CASE AllDone \/ UNCHANGED ldVars
  BY <1>1, <1>10, FeedStep DEF AllDone, ldVars
<1> QED
  BY <1>3, <1>4, <1>5, <1>6, <1>7, <1>8, <1>9, <1>10 DEF LdNext

\* As long as the counter in the keys lasts, the rows of the database are those
\* of the written blocks, and failed batches and restarts leave it below them.
THEOREM LedgerInvariant == LdSpec /\ []CounterLasts => []LdInv
<1>1. LdInv /\ CounterLasts /\ [LdNext]_ldVars => LdInv'
  BY NextStep
<1> QED
  BY InitStep, <1>1, PTL DEF LdSpec

\* The history of a wallet, read in the order of the keys, has each of its
\* transactions once, the latest first, as long as the counter lasts.
THEOREM HistoriesComplete == LdSpec /\ []CounterLasts => []HistoryComplete
<1>1. LdInv => HistoryComplete
  <2> SUFFICES ASSUME LdInv, "addr_txs" \in Modules, NEW w \in Wallet
               PROVE  /\ {r.tx : r \in {r \in db.rows : r.list = "txs" /\ r.address = w}}
                           = {id \in AppliedTxs : /\ w \in {TxAt(id).from, TxAt(id).to}
                                                  /\ TxAt(id).status # "nodeTest"}
                      /\ \A r, q \in {r \in db.rows : r.list = "txs" /\ r.address = w} :
                            r # q /\ r.key <= q.key => Later(r.tx, q.tx)
    BY Zenon DEF HistoryComplete, Later
  <2> DEFINE rows == {r \in db.rows : r.list = "txs" /\ r.address = w}
             own == {id \in AppliedTxs : /\ w \in {TxAt(id).from, TxAt(id).to}
                                         /\ TxAt(id).status # "nodeTest"}
  <2>1. RowsOf(chain, db.rows, AppliedTxs)
    BY DEF LdInv
  <2>2. w # InitialWallet
    BY LedgerAssumption
  <2>3. \A id : w \in ListedFor(At(chain, id)) <=>
                  /\ w \in {TxAt(id).from, TxAt(id).to}
                  /\ TxAt(id).status # "nodeTest"
    BY <2>2 DEF ListedFor, At, TxAt
  <2>4. \A r : r \in rows <=> r \in TxRows(db.rows) /\ r.address = w
    BY DEF TxRows
  <2>5. \A r \in rows : r.tx \in own
    <3> TAKE r \in rows
    <3>1. r.tx \in AppliedTxs
      BY <2>1 DEF RowsOf
    <3>2. w \in ListedFor(At(chain, r.tx))
      BY <2>1, <2>4 DEF RowsOf
    <3> QED
      BY <2>3, <3>1, <3>2
  <2>6. \A id \in own : \E r \in rows : r.tx = id
    <3> TAKE id \in own
    <3>1. w \in ListedFor(At(chain, id)) /\ id \in AppliedTxs
      BY <2>3
    <3>2. PICK r \in TxRows(db.rows) : r.tx = id /\ r.address = w
      BY <2>1, <3>1, Zenon DEF RowsOf
    <3> QED
      BY <2>4, <3>2
  <2>7. {r.tx : r \in rows} = own
    <3> HIDE DEF rows, own
    <3> QED
      BY <2>5, <2>6
  <2>8. ASSUME NEW r \in rows, NEW q \in rows, r # q, r.key <= q.key
        PROVE  Later(r.tx, q.tx)
    <3>1. r \in db.rows /\ q \in db.rows /\ r.key \in Nat /\ q.key \in Nat
      BY <2>1 DEF RowsOf
    <3>2. r.key # q.key
      BY <2>1, <2>8, <3>1, Zenon DEF RowsOf
    <3>3. r.key < q.key
      BY <2>8, <3>1, <3>2
    <3>4. r.tx # q.tx
      <4>1. r \in TxRows(db.rows) /\ q \in TxRows(db.rows) /\ r.address = q.address
        BY <2>4
      <4> QED
        BY <2>1, <2>8, <4>1, Zenon DEF RowsOf
    <3> QED
      BY <2>1, <3>1, <3>3, <3>4, Zenon DEF RowsOf
  <2> QED
    BY <2>7, <2>8
<1> QED
  BY <1>1, LedgerInvariant, PTL

(***************************************************************************)
(* Sums modulo the width of size_t.                                        *)
(***************************************************************************)

Multiples == {k * Modulus : k \in Int}

\* a and b are the same number of that width.
Same(a, b) == a - b \in Multiples

LEMMA MultiplesClosed ==
    /\ 0 \in Multiples /\ Multiples \subseteq Int
    /\ \A m, n \in Multiples : m + n \in Multiples /\ m - n \in Multiples
<1>1. Modulus \in Nat
  BY LedgerAssumption
<1>2. 0 \in Multiples
  <2>1. 0 = 0 * Modulus
    BY <1>1
  <2> QED
    BY <2>1 DEF Multiples
<1>3. Multiples \subseteq Int
  BY <1>1 DEF Multiples
<1>4. ASSUME NEW m \in Multiples, NEW n \in Multiples
      PROVE  m + n \in Multiples /\ m - n \in Multiples
  <2>1. PICK k \in Int : m = k * Modulus
    BY DEF Multiples
  <2>2. PICK j \in Int : n = j * Modulus
    BY DEF Multiples
  <2>3. m + n = (k + j) * Modulus /\ m - n = (k - j) * Modulus
    BY <1>1, <2>1, <2>2
  <2>4. k + j \in Int /\ k - j \in Int
    OBVIOUS
  <2> QED
    BY <2>3, <2>4 DEF Multiples
<1> QED
  BY <1>2, <1>3, <1>4

LEMMA RemainderSame ==
    ASSUME NEW a \in Int
    PROVE  a % Modulus \in 0..(Modulus - 1) /\ Same(a % Modulus, a)
<1>1. Modulus \in Nat /\ Modulus > 0
  BY LedgerAssumption
<1>2. a % Modulus \in 0..(Modulus - 1) /\ a \div Modulus \in Int
  BY <1>1
<1>3. a = Modulus * (a \div Modulus) + (a % Modulus)
  BY <1>1
<1>4. PICK q \in Int, r \in Int : q = a \div Modulus /\ r = a % Modulus
  BY <1>2
<1>5. r - a = (0 - q) * Modulus
  BY <1>1, <1>3, <1>4
<1>6. 0 - q \in Int
  OBVIOUS
<1> QED
  BY <1>2, <1>4, <1>5, <1>6 DEF Same, Multiples

\* Different remainders are not the same.
LEMMA RemaindersUnique ==
    ASSUME NEW r \in 0..(Modulus - 1), NEW s \in 0..(Modulus - 1), Same(r, s)
    PROVE  r = s
<1>1. Modulus \in Nat /\ Modulus > 0
  BY LedgerAssumption
<1>2. PICK k \in Int : r - s = k * Modulus
  BY DEF Same, Multiples
<1>3. ASSUME k >= 1 PROVE FALSE
  <2>1. k - 1 \in Nat
    BY <1>3
  <2>2. k * Modulus = (k - 1) * Modulus + Modulus /\ (k - 1) * Modulus \in Nat
    BY <1>1, <2>1
  <2> QED
    BY <1>1, <1>2, <2>2
<1>4. ASSUME k <= -1 PROVE FALSE
  <2>1. 0 - k - 1 \in Nat
    BY <1>4
  <2>2. k * Modulus = 0 - ((0 - k - 1) * Modulus) - Modulus /\ (0 - k - 1) * Modulus \in Nat
    BY <1>1, <2>1
  <2> QED
    BY <1>1, <1>2, <2>2
<1>5. k = 0
  BY <1>3, <1>4
<1>6. k * Modulus = 0
  BY <1>1, <1>5
<1> QED
  BY <1>2, <1>6

LEMMA SameRemainder ==
    ASSUME NEW a \in Int, NEW b \in Int, Same(a, b)
    PROVE  a % Modulus = b % Modulus
<1>1. PICK r \in 0..(Modulus - 1) : r = a % Modulus /\ Same(r, a)
  BY RemainderSame
<1>2. PICK s \in 0..(Modulus - 1) : s = b % Modulus /\ Same(s, b)
  BY RemainderSame
<1>3. PICK i \in Multiples : i = r - a
  BY <1>1 DEF Same
<1>4. PICK j \in Multiples : j = s - b
  BY <1>2 DEF Same
<1>5. PICK k \in Multiples : k = a - b
  BY DEF Same
<1>6. i \in Int /\ j \in Int /\ k \in Int /\ i + k \in Multiples /\ (i + k) - j \in Multiples
  BY MultiplesClosed
<1>7. r - s = (i + k) - j
  BY <1>3, <1>4, <1>5, <1>6, LedgerAssumption
<1>8. Same(r, s)
  BY <1>6, <1>7 DEF Same
<1> QED
  BY <1>1, <1>2, <1>8, RemaindersUnique

\* The difference of the two sums of an element.
Net(e) == e.received - e.spent

LEMMA SameAgain ==
    ASSUME NEW a \in Int
    PROVE  Same(a, a)
<1>1. a - a = 0
  OBVIOUS
<1> QED
  BY <1>1, MultiplesClosed DEF Same

LEMMA ElementFacts ==
    ASSUME NEW e \in Element
    PROVE  /\ e.received \in Nat /\ e.spent \in Nat /\ Net(e) \in Int
           /\ ElementBalance(e) \in 0..(Modulus - 1) /\ Same(ElementBalance(e), Net(e))
           /\ Restarted(e) \in Element /\ Same(Net(Restarted(e)), Net(e))
<1>1. e.received \in Nat /\ e.spent \in Nat /\ Net(e) \in Int
  BY DEF Element, Net
<1>2. ElementBalance(e) \in 0..(Modulus - 1) /\ Same(ElementBalance(e), Net(e))
  BY <1>1, RemainderSame DEF ElementBalance, Net
<1>3. 0 \in 0..(Modulus - 1) /\ ElementBalance(e) - 0 = ElementBalance(e)
  BY <1>2, LedgerAssumption
<1> QED
  BY <1>1, <1>2, <1>3 DEF Restarted, Net, Element

\* A sum that restarts before it overflows keeps the difference.
LEMMA ReceiveFacts ==
    ASSUME NEW e \in Element, NEW v \in Nat
    PROVE  ReceiveValue(e, v) \in Element /\ Same(Net(ReceiveValue(e, v)), Net(e) + v)
<1> DEFINE f == IF e.received >= (Modulus - 1) - v THEN Restarted(e) ELSE e
<1>1. f \in Element /\ Same(Net(f), Net(e))
  <2>1. Same(Net(e), Net(e))
    BY ElementFacts, SameAgain
  <2> QED
    BY <2>1, ElementFacts
<1>2. f.received \in Nat /\ f.spent \in Nat /\ Net(f) \in Int /\ Net(e) \in Int
  BY <1>1, ElementFacts
<1>3. PICK r \in 0..(Modulus - 1) : r = (f.received + v) % Modulus /\ Same(r, f.received + v)
  BY <1>2, RemainderSame
<1>4. ReceiveValue(e, v) = [f EXCEPT !.received = r]
  BY <1>3 DEF ReceiveValue
<1> HIDE DEF f
<1>5. [f EXCEPT !.received = r] \in Element
  BY <1>1, <1>3 DEF Element
<1>6. Net([f EXCEPT !.received = r]) = r - f.spent
  BY <1>1 DEF Net, Element
<1>7. PICK i \in Multiples : i = Net(f) - Net(e)
  BY <1>1 DEF Same
<1>8. PICK j \in Multiples : j = r - (f.received + v)
  BY <1>3 DEF Same
<1>9. i \in Int /\ j \in Int /\ i + j \in Multiples /\ r \in Int
  BY MultiplesClosed, LedgerAssumption
<1>10. (r - f.spent) - (Net(e) + v) = i + j
  BY <1>2, <1>7, <1>8, <1>9 DEF Net
<1> QED
  BY <1>4, <1>5, <1>6, <1>9, <1>10 DEF Same

LEMMA SpentFacts ==
    ASSUME NEW e \in Element, NEW v \in Nat
    PROVE  SpentValue(e, v) \in Element /\ Same(Net(SpentValue(e, v)), Net(e) - v)
<1> DEFINE f == IF e.spent >= (Modulus - 1) - v THEN Restarted(e) ELSE e
<1>1. f \in Element /\ Same(Net(f), Net(e))
  <2>1. Same(Net(e), Net(e))
    BY ElementFacts, SameAgain
  <2> QED
    BY <2>1, ElementFacts
<1>2. f.received \in Nat /\ f.spent \in Nat /\ Net(f) \in Int /\ Net(e) \in Int
  BY <1>1, ElementFacts
<1>3. PICK r \in 0..(Modulus - 1) : r = (f.spent + v) % Modulus /\ Same(r, f.spent + v)
  BY <1>2, RemainderSame
<1>4. SpentValue(e, v) = [f EXCEPT !.spent = r]
  BY <1>3 DEF SpentValue
<1> HIDE DEF f
<1>5. [f EXCEPT !.spent = r] \in Element
  BY <1>1, <1>3 DEF Element
<1>6. Net([f EXCEPT !.spent = r]) = f.received - r
  BY <1>1 DEF Net, Element
<1>7. PICK i \in Multiples : i = Net(f) - Net(e)
  BY <1>1 DEF Same
<1>8. PICK j \in Multiples : j = r - (f.spent + v)
  BY <1>3 DEF Same
<1>9. i \in Int /\ j \in Int /\ i - j \in Multiples /\ r \in Int
  BY MultiplesClosed, LedgerAssumption
<1>10. (f.received - r) - (Net(e) - v) = i - j
  BY <1>2, <1>7, <1>8, <1>9 DEF Net
<1> QED
  BY <1>4, <1>5, <1>6, <1>9, <1>10 DEF Same

\* Two steps, and a change of both sides.
LEMMA SameChain ==
    ASSUME NEW a \in Int, NEW b \in Int, NEW c \in Int, NEW d \in Int,
           Same(a, b + c), Same(b, d)
    PROVE  Same(a, d + c)
<1>1. PICK i \in Multiples : i = a - (b + c)
  BY DEF Same
<1>2. PICK j \in Multiples : j = b - d
  BY DEF Same
<1>3. i \in Int /\ j \in Int /\ i + j \in Multiples
  BY MultiplesClosed
<1>4. a - (d + c) = i + j
  BY <1>1, <1>2, <1>3
<1> QED
  BY <1>3, <1>4 DEF Same

\* operator+= adds the differences.
LEMMA PlusElementFacts ==
    ASSUME NEW e \in Element, NEW f \in Element
    PROVE  /\ PlusElement(e, f) \in Element /\ Same(Net(PlusElement(e, f)), Net(e) + Net(f))
           /\ PlusDelegate(e, f) \in Element /\ Same(Net(PlusDelegate(e, f)), Net(e) + Net(f))
<1>1. f.received \in Nat /\ f.spent \in Nat /\ Net(e) \in Int /\ Net(f) \in Int
  BY ElementFacts
<1>2. PICK g \in Element : g = ReceiveValue(e, f.received) /\ Same(Net(g), Net(e) + f.received)
  BY <1>1, ReceiveFacts
<1>3. PICK h \in Element : h = SpentValue(e, f.spent) /\ Same(Net(h), Net(e) - f.spent)
  BY <1>1, SpentFacts
<1>4. PICK p \in Element : p = PlusElement(e, f) /\ Same(Net(p), Net(g) - f.spent)
  BY <1>1, <1>2, SpentFacts DEF PlusElement
<1>5. PICK q \in Element : q = PlusDelegate(e, f) /\ Same(Net(q), Net(h) + f.received)
  BY <1>1, <1>3, ReceiveFacts DEF PlusDelegate
<1>6. Net(g) \in Int /\ Net(h) \in Int /\ Net(p) \in Int /\ Net(q) \in Int
  BY ElementFacts
<1>7. Net(f) = f.received - f.spent
  BY DEF Net
<1>8. Same(Net(p), Net(e) + Net(f))
  <2>1. Net(g) - f.spent = Net(g) + (0 - f.spent) /\ 0 - f.spent \in Int
        /\ Net(e) + f.received \in Int
    BY <1>1, <1>6
  <2>2. Same(Net(p), Net(g) + (0 - f.spent))
    BY <1>4, <2>1
  <2>4. Same(Net(p), (Net(e) + f.received) + (0 - f.spent))
    <3>1. PICK m \in Int : m = 0 - f.spent
      BY <2>1
    <3>2. PICK k \in Int : k = Net(e) + f.received
      BY <2>1
    <3>3. Same(Net(p), Net(g) + m) /\ Same(Net(g), k)
      BY <1>2, <2>2, <3>1, <3>2
    <3>4. Same(Net(p), k + m)
      BY <1>6, <3>3, SameChain
    <3> QED
      BY <3>1, <3>2, <3>4
  <2>3. (Net(e) + f.received) + (0 - f.spent) = Net(e) + Net(f)
    <3> DEFINE x == Net(e) y == f.received z == f.spent
    <3>1. x \in Int /\ y \in Nat /\ z \in Nat
      BY <1>1
    <3> HIDE DEF x, y, z
    <3>2. (x + y) + (0 - z) = x + (y - z)
      BY <3>1
    <3> QED
      BY <1>7, <3>2 DEF x, y, z
  <2> QED
    BY <2>3, <2>4
<1>9. Same(Net(q), Net(e) + Net(f))
  <2>1. Net(e) - f.spent \in Int /\ f.received \in Int
    BY <1>1
  <2>2. Same(Net(q), (Net(e) - f.spent) + f.received)
    <3>1. PICK m \in Int : m = f.received
      BY <2>1
    <3>2. PICK k \in Int : k = Net(e) - f.spent
      BY <2>1
    <3>3. Same(Net(q), Net(h) + m) /\ Same(Net(h), k)
      BY <1>3, <1>5, <3>1, <3>2
    <3>4. Same(Net(q), k + m)
      BY <1>6, <3>3, SameChain
    <3> QED
      BY <3>1, <3>2, <3>4
  <2>3. (Net(e) - f.spent) + f.received = Net(e) + Net(f)
    <3> DEFINE x == Net(e) y == f.received z == f.spent
    <3>1. x \in Int /\ y \in Nat /\ z \in Nat
      BY <1>1
    <3> HIDE DEF x, y, z
    <3>2. (x - z) + y = x + (y - z)
      BY <3>1
    <3> QED
      BY <1>7, <3>2 DEF x, y, z
  <2> QED
    BY <2>2, <2>3
<1> QED
  BY <1>4, <1>5, <1>8, <1>9

\* From e to f the difference grows by v.
Moved(e, f, v) == f \in Element /\ v \in Int /\ Same(Net(f), Net(e) + v)

LEMMA MovedNothing ==
    ASSUME NEW e \in Element
    PROVE  Moved(e, e, 0)
<1>1. Net(e) \in Int /\ Net(e) + 0 = Net(e)
  BY ElementFacts
<1> QED
  BY <1>1, SameAgain DEF Moved

LEMMA MovedReceive ==
    ASSUME NEW e \in Element, NEW v \in Nat
    PROVE  Moved(e, ReceiveValue(e, v), v)
BY ReceiveFacts DEF Moved

LEMMA MovedSpent ==
    ASSUME NEW e \in Element, NEW v \in Nat
    PROVE  Moved(e, SpentValue(e, v), 0 - v)
<1>1. Net(e) \in Int /\ Net(e) - v = Net(e) + (0 - v) /\ 0 - v \in Int
  BY ElementFacts
<1> QED
  BY <1>1, SpentFacts DEF Moved

\* An amount that is reduced to the width first.
LEMMA MovedSpentRemainder ==
    ASSUME NEW e \in Element, NEW v \in Nat
    PROVE  Moved(e, SpentValue(e, v % Modulus), 0 - v)
<1>1. PICK r \in 0..(Modulus - 1) : r = v % Modulus /\ Same(r, v)
  BY RemainderSame
<1>2. r \in Nat
  BY LedgerAssumption
<1>3. PICK f \in Element : f = SpentValue(e, v % Modulus) /\ Same(Net(f), Net(e) - r)
  BY <1>1, <1>2, SpentFacts
<1>4. Net(e) \in Int /\ Net(f) \in Int
  BY ElementFacts
<1>5. PICK i \in Multiples : i = Net(f) - (Net(e) - r)
  BY <1>3 DEF Same
<1>6. PICK j \in Multiples : j = r - v
  BY <1>1 DEF Same
<1>7. i \in Int /\ j \in Int /\ i - j \in Multiples
  BY MultiplesClosed
<1>8. Net(f) - (Net(e) + (0 - v)) = i - j /\ 0 - v \in Int
  BY <1>2, <1>4, <1>5, <1>6, <1>7
<1> QED
  BY <1>3, <1>7, <1>8 DEF Same, Moved

LEMMA MovedTwice ==
    ASSUME NEW e \in Element, NEW f, NEW g, NEW u, NEW v, Moved(e, f, u), Moved(f, g, v)
    PROVE  Moved(e, g, u + v)
<1>1. f \in Element /\ g \in Element /\ u \in Int /\ v \in Int
  BY DEF Moved
<1>2. Net(e) \in Int /\ Net(f) \in Int /\ Net(g) \in Int
  BY <1>1, ElementFacts
<1>3. Same(Net(g), Net(f) + v) /\ Same(Net(f), Net(e) + u) /\ Net(e) + u \in Int
  BY <1>1, <1>2 DEF Moved
<1>4. Same(Net(g), (Net(e) + u) + v)
  BY <1>1, <1>2, <1>3, SameChain
<1>5. (Net(e) + u) + v = Net(e) + (u + v) /\ u + v \in Int
  BY <1>1, <1>2
<1> QED
  BY <1>1, <1>4, <1>5 DEF Moved

LEMMA MovedPlus ==
    ASSUME NEW e \in Element, NEW f \in Element
    PROVE  Moved(e, PlusElement(e, f), Net(f)) /\ Moved(e, PlusDelegate(e, f), Net(f))
BY PlusElementFacts, ElementFacts DEF Moved

(***************************************************************************)
(* What a transaction does to a balance.                                   *)
(***************************************************************************)

\* What the transfer of a transaction takes from w and gives to it.
Paid(tx, w) == IF tx.from = w /\ ~NoBalance(tx) THEN 0 - (tx.value + tx.fee) ELSE 0
Got(tx, w) == IF tx.to = w /\ ~NoBalance(tx) THEN tx.value ELSE 0

\* What it adds to the delegations of its pair.
Lent(tx, ok, value) ==
    IF ~ok THEN 0 ELSE IF tx.op = "delegate" THEN tx.amount
    ELSE IF tx.op = "undelegate" THEN 0 - value ELSE 0

Forged(tx, w, isForging) == IF isForging /\ tx.to = w THEN tx.value ELSE 0

MoneyOf(x, tx, w, n, isForging, ok, value) ==
    LET plain == PlusWithoutDelegate(x, tx, w, n, isForging)
    IN  IF tx.op \in {"delegate", "undelegate"}
        THEN PlusWithDelegate(plain, tx, w, ok, value) ELSE plain

LEMMA BalanceFacts ==
    ASSUME NEW x \in Balance
    PROVE  /\ x.balance \in Element /\ x.delegate \in Element /\ x.delegated \in Element
           /\ x.countSpent \in Nat /\ x.blockNumber \in Nat
           /\ x.reserved \in 0..(Modulus - 1) /\ x.forged \in 0..(Modulus - 1)
           /\ x.reserved \in Nat /\ x.forged \in Nat
           /\ x.tokens \in [Token -> Element]
           /\ DOMAIN x = {"balance", "countSpent", "blockNumber", "delegate", "delegated",
                          "reserved", "forged", "tokens"}
<1>1. Modulus \in Nat
  BY LedgerAssumption
<1> QED
  BY <1>1 DEF Balance

LEMMA TxFacts ==
    ASSUME NEW tx \in Transaction
    PROVE  /\ tx.value \in Nat /\ tx.fee \in Nat /\ tx.amount \in Nat
           /\ tx.from \in Party /\ tx.to \in Party /\ tx.target \in Party
           /\ tx.dist \in [Wallet -> Nat]
BY DEF Transaction

LEMMA PlainFacts ==
    ASSUME NEW x \in Balance, NEW tx \in Transaction, NEW w, NEW n \in Nat, NEW isForging,
           NEW y, y = PlusWithoutDelegate(x, tx, w, n, isForging)
    PROVE  /\ y \in Balance
           /\ Moved(x.balance, y.balance, Paid(tx, w) + Got(tx, w))
           /\ y.countSpent = x.countSpent + (IF tx.from = w THEN 1 ELSE 0)
           /\ y.blockNumber = IF x.blockNumber >= n THEN x.blockNumber ELSE n
           /\ y.delegate = x.delegate /\ y.delegated = x.delegated /\ y.tokens = x.tokens
           /\ y.reserved = IF tx.op = "delegate" /\ tx.from = w
                           THEN (x.reserved + tx.amount) % Modulus ELSE x.reserved
           /\ Same(y.forged, x.forged + Forged(tx, w, isForging))
<1> DEFINE paid == IF tx.from = w /\ ~NoBalance(tx)
                   THEN SpentValue(x.balance, (tx.value + tx.fee) % Modulus)
                   ELSE x.balance
           moved == IF tx.to = w /\ ~NoBalance(tx) THEN ReceiveValue(paid, tx.value) ELSE paid
           from == IF tx.from = w THEN 1 ELSE 0
           top == Max({x.blockNumber, n})
           reserved == IF tx.op = "delegate"
                       THEN (x.reserved + from * tx.amount) % Modulus ELSE x.reserved
           forged == IF isForging /\ tx.to = w
                     THEN (x.forged + tx.value) % Modulus ELSE x.forged
<1>1. y = [x EXCEPT !.balance = moved, !.countSpent = x.countSpent + from,
                    !.blockNumber = top, !.reserved = reserved, !.forged = forged]
  BY DEF PlusWithoutDelegate
<1>2. tx.value \in Nat /\ tx.fee \in Nat /\ tx.amount \in Nat /\ tx.value + tx.fee \in Nat
  BY TxFacts
<1>3. Moved(x.balance, paid, Paid(tx, w))
  <2>1. x.balance \in Element
    BY BalanceFacts
  <2>2. Moved(x.balance, SpentValue(x.balance, (tx.value + tx.fee) % Modulus),
              0 - (tx.value + tx.fee))
    BY <1>2, <2>1, MovedSpentRemainder
  <2> QED
    BY <2>1, <2>2, MovedNothing, Zenon DEF Paid
<1>4. Moved(paid, moved, Got(tx, w))
  <2>1. paid \in Element
    BY <1>3 DEF Moved
  <2> HIDE DEF paid
  <2>2. Moved(paid, ReceiveValue(paid, tx.value), tx.value)
    BY <1>2, <2>1, MovedReceive
  <2> QED
    BY <2>1, <2>2, MovedNothing, Zenon DEF Got
<1>5. Moved(x.balance, moved, Paid(tx, w) + Got(tx, w))
  <2> HIDE DEF paid, moved
  <2> QED
    BY <1>3, <1>4, BalanceFacts, MovedTwice
<1>6. moved \in Element
  BY <1>5 DEF Moved
<1>7. from \in Nat /\ x.countSpent + from \in Nat /\ x.countSpent \in Nat
  BY BalanceFacts
<1>8. top \in Nat /\ top = IF x.blockNumber >= n THEN x.blockNumber ELSE n
  BY BalanceFacts, MaxOfTwo
<1>9. reserved \in 0..(Modulus - 1)
      /\ reserved = IF tx.op = "delegate" /\ tx.from = w
                    THEN (x.reserved + tx.amount) % Modulus ELSE x.reserved
  <2>1. x.reserved \in 0..(Modulus - 1) /\ x.reserved \in Nat
    BY BalanceFacts
  <2>2. CASE tx.op = "delegate" /\ tx.from = w
    <3>1. reserved = (x.reserved + tx.amount) % Modulus
      <4>1. from * tx.amount = tx.amount
        BY <1>2, <2>2
      <4> HIDE DEF from
      <4> QED
        BY <2>2, <4>1
    <3> QED
      BY <1>2, <2>1, <2>2, <3>1, RemainderSame
  <2>3. CASE ~(tx.op = "delegate" /\ tx.from = w)
    <3>1. reserved = x.reserved
      <4>1. CASE tx.op = "delegate"
        <5>1. from * tx.amount = 0
          BY <1>2, <2>3, <4>1
        <5>2. reserved = (x.reserved + 0) % Modulus
          <6> HIDE DEF from
          <6> QED
            BY <4>1, <5>1
        <5>3. (x.reserved + 0) % Modulus = x.reserved
          BY <2>1, LedgerAssumption
        <5> QED
          BY <5>2, <5>3
      <4>2. CASE tx.op # "delegate"
        BY <4>2
      <4> QED
        BY <4>1, <4>2
    <3> QED
      BY <2>1, <2>3, <3>1
  <2> QED
    BY <2>2, <2>3
<1>10. forged \in 0..(Modulus - 1) /\ Same(forged, x.forged + Forged(tx, w, isForging))
  <2>1. x.forged \in 0..(Modulus - 1) /\ x.forged \in Nat
    BY BalanceFacts
  <2>2. (x.forged + tx.value) % Modulus \in 0..(Modulus - 1)
        /\ Same((x.forged + tx.value) % Modulus, x.forged + tx.value)
    BY <1>2, <2>1, RemainderSame
  <2>3. Same(x.forged, x.forged + 0)
    <3>1. x.forged + 0 = x.forged
      BY <2>1
    <3> QED
      BY <2>1, <3>1, SameAgain
  <2> QED
    BY <2>1, <2>2, <2>3, Zenon DEF Forged
<1> HIDE DEF paid, moved, from, top, reserved, forged
<1>11. y \in Balance
  BY <1>1, <1>6, <1>7, <1>8, <1>9, <1>10 DEF Balance
<1>12. /\ y.balance = moved /\ y.countSpent = x.countSpent + from /\ y.blockNumber = top
       /\ y.reserved = reserved /\ y.forged = forged /\ y.delegate = x.delegate
       /\ y.delegated = x.delegated /\ y.tokens = x.tokens
  BY <1>1 DEF Balance
<1> QED
  BY <1>5, <1>8, <1>9, <1>10, <1>11, <1>12, Zenon DEF from

LEMMA LentFacts ==
    ASSUME NEW x \in Balance, NEW tx \in Transaction, tx.op \in {"delegate", "undelegate"},
           NEW w, NEW ok, NEW value \in Nat,
           NEW y, y = PlusWithDelegate(x, tx, w, ok, value)
    PROVE  /\ y \in Balance
           /\ Moved(x.balance, y.balance,
                    IF tx.from = w THEN 0 - Lent(tx, ok, value) ELSE 0)
           /\ Moved(x.delegate, y.delegate,
                    IF tx.from = w THEN 0 - Lent(tx, ok, value) ELSE 0)
           /\ Moved(x.delegated, y.delegated,
                    IF tx.to = w THEN Lent(tx, ok, value) ELSE 0)
           /\ y.reserved = IF tx.op = "delegate" /\ tx.from = w
                           THEN (x.reserved - tx.amount) % Modulus ELSE x.reserved
           /\ y.countSpent = x.countSpent /\ y.blockNumber = x.blockNumber
           /\ y.forged = x.forged /\ y.tokens = x.tokens
<1> DEFINE out == ok /\ tx.from = w
           in == ok /\ tx.to = w
           give == tx.op = "delegate"
           Given(e) == CASE out /\ give -> SpentValue(e, tx.amount)
                         [] out /\ ~give -> ReceiveValue(e, value)
                         [] OTHER -> e
           taken == CASE in /\ give -> ReceiveValue(x.delegated, tx.amount)
                      [] in /\ ~give -> SpentValue(x.delegated, value)
                      [] OTHER -> x.delegated
           reserved == IF tx.from = w /\ give
                       THEN (x.reserved - tx.amount) % Modulus ELSE x.reserved
           A == Lent(tx, ok, value)
<1>1. y = [x EXCEPT !.balance = Given(x.balance), !.delegate = Given(x.delegate),
                    !.delegated = taken, !.reserved = reserved]
  BY DEF PlusWithDelegate
<1>2. tx.amount \in Nat
  BY TxFacts
<1>3. /\ ~ok => A = 0
      /\ ok /\ give => A = tx.amount
      /\ ok /\ ~give => A = 0 - value
  BY DEF Lent
<1>4. 0 - 0 = 0 /\ 0 - (0 - value) = value
  OBVIOUS
<1>5. ASSUME NEW e \in Element
      PROVE  Moved(e, Given(e), IF tx.from = w THEN 0 - A ELSE 0)
  <2>1. Moved(e, SpentValue(e, tx.amount), 0 - tx.amount)
    BY <1>2, MovedSpent
  <2>2. Moved(e, ReceiveValue(e, value), value)
    BY MovedReceive
  <2>3. Moved(e, e, 0)
    BY MovedNothing
  <2> HIDE DEF A
  <2>4. CASE out /\ give
    <3>1. Given(e) = SpentValue(e, tx.amount) /\ A = tx.amount /\ tx.from = w
      BY <1>3, <2>4
    <3> QED
      BY <2>1, <3>1
  <2>5. CASE out /\ ~give
    <3>1. Given(e) = ReceiveValue(e, value) /\ 0 - A = value /\ tx.from = w
      BY <1>3, <1>4, <2>5
    <3> QED
      BY <2>2, <3>1
  <2>6. CASE ~out
    <3>1. Given(e) = e /\ (tx.from = w => 0 - A = 0)
      BY <1>3, <1>4, <2>6
    <3> QED
      BY <2>3, <3>1
  <2> QED
    BY <2>4, <2>5, <2>6
<1>6. Moved(x.delegated, taken, IF tx.to = w THEN A ELSE 0)
  <2>0. x.delegated \in Element
    BY BalanceFacts
  <2>1. Moved(x.delegated, ReceiveValue(x.delegated, tx.amount), tx.amount)
    BY <1>2, <2>0, MovedReceive
  <2>2. Moved(x.delegated, SpentValue(x.delegated, value), 0 - value)
    BY <2>0, MovedSpent
  <2>3. Moved(x.delegated, x.delegated, 0)
    BY <2>0, MovedNothing
  <2> HIDE DEF A
  <2>4. CASE in /\ give
    <3>1. taken = ReceiveValue(x.delegated, tx.amount) /\ A = tx.amount /\ tx.to = w
      BY <1>3, <2>4
    <3> QED
      BY <2>1, <3>1
  <2>5. CASE in /\ ~give
    <3>1. taken = SpentValue(x.delegated, value) /\ A = 0 - value /\ tx.to = w
      BY <1>3, <2>5
    <3> QED
      BY <2>2, <3>1
  <2>6. CASE ~in
    <3>1. taken = x.delegated /\ (tx.to = w => A = 0)
      BY <1>3, <2>6
    <3> QED
      BY <2>3, <3>1
  <2> QED
    BY <2>4, <2>5, <2>6
<1>7. reserved \in 0..(Modulus - 1)
  BY <1>2, BalanceFacts, RemainderSame
<1>8. /\ Moved(x.balance, Given(x.balance), IF tx.from = w THEN 0 - A ELSE 0)
      /\ Moved(x.delegate, Given(x.delegate), IF tx.from = w THEN 0 - A ELSE 0)
  BY <1>5, BalanceFacts
<1>9. PICK p \in Element, q \in Element, t \in Element :
        p = Given(x.balance) /\ q = Given(x.delegate) /\ t = taken
  BY <1>6, <1>8 DEF Moved
<1>10. y = [x EXCEPT !.balance = p, !.delegate = q, !.delegated = t, !.reserved = reserved]
  BY <1>1, <1>9
<1>11. y \in Balance
  <2> HIDE DEF reserved
  <2> QED
    BY <1>7, <1>10 DEF Balance
<1>12. /\ y.balance = p /\ y.delegate = q /\ y.delegated = t /\ y.reserved = reserved
       /\ y.countSpent = x.countSpent /\ y.blockNumber = x.blockNumber
       /\ y.forged = x.forged /\ y.tokens = x.tokens
  <2> HIDE DEF reserved
  <2> QED
    BY <1>10 DEF Balance
<1> HIDE DEF Given, taken
<1> QED
  BY <1>6, <1>8, <1>9, <1>11, <1>12, Zenon

\* The whole of what toLeveldb does to a balance.
MoneyDelta(x, y, tx, w, n, isForging, ok, value) ==
    LET out == IF tx.from = w THEN 0 - Lent(tx, ok, value) ELSE 0
    IN  /\ y \in Balance
        /\ Moved(x.balance, y.balance, (Paid(tx, w) + Got(tx, w)) + out)
        /\ Moved(x.delegate, y.delegate, out)
        /\ Moved(x.delegated, y.delegated, IF tx.to = w THEN Lent(tx, ok, value) ELSE 0)
        /\ y.reserved = x.reserved
        /\ y.countSpent = x.countSpent + (IF tx.from = w THEN 1 ELSE 0)
        /\ y.blockNumber = (IF x.blockNumber >= n THEN x.blockNumber ELSE n)
        /\ y.tokens = x.tokens
        /\ Same(y.forged, x.forged + Forged(tx, w, isForging))

LEMMA MoneyFacts ==
    ASSUME NEW x \in Balance, NEW tx \in Transaction, NEW w, NEW n \in Nat, NEW isForging,
           NEW ok, NEW value \in Nat, NEW y, y = MoneyOf(x, tx, w, n, isForging, ok, value)
    PROVE  MoneyDelta(x, y, tx, w, n, isForging, ok, value)
<1> DEFINE p == PlusWithoutDelegate(x, tx, w, n, isForging)
           G == Paid(tx, w) + Got(tx, w)
           out == IF tx.from = w THEN 0 - Lent(tx, ok, value) ELSE 0
           in == IF tx.to = w THEN Lent(tx, ok, value) ELSE 0
<1>1. /\ p \in Balance
      /\ Moved(x.balance, p.balance, G)
      /\ p.countSpent = x.countSpent + (IF tx.from = w THEN 1 ELSE 0)
      /\ p.blockNumber = (IF x.blockNumber >= n THEN x.blockNumber ELSE n)
      /\ p.delegate = x.delegate /\ p.delegated = x.delegated /\ p.tokens = x.tokens
      /\ p.reserved = IF tx.op = "delegate" /\ tx.from = w
                      THEN (x.reserved + tx.amount) % Modulus ELSE x.reserved
      /\ Same(p.forged, x.forged + Forged(tx, w, isForging))
  BY PlainFacts
<1>2. x.delegate \in Element /\ x.delegated \in Element /\ x.balance \in Element
      /\ x.reserved \in 0..(Modulus - 1) /\ x.reserved \in Nat /\ tx.amount \in Nat
  BY BalanceFacts, TxFacts
<1>3. CASE tx.op \in {"delegate", "undelegate"}
  <2>1. y = PlusWithDelegate(p, tx, w, ok, value)
    BY <1>3 DEF MoneyOf
  <2> HIDE DEF p
  <2>2. /\ y \in Balance
        /\ Moved(p.balance, y.balance, out)
        /\ Moved(p.delegate, y.delegate, out)
        /\ Moved(p.delegated, y.delegated, in)
        /\ y.reserved = IF tx.op = "delegate" /\ tx.from = w
                        THEN (p.reserved - tx.amount) % Modulus ELSE p.reserved
        /\ y.countSpent = p.countSpent /\ y.blockNumber = p.blockNumber
        /\ y.forged = p.forged /\ y.tokens = p.tokens
    BY <1>1, <1>3, <2>1, LentFacts
  <2>3. Moved(x.balance, y.balance, G + out)
    <3> HIDE DEF G, out
    <3> QED
      BY <1>1, <1>2, <2>2, MovedTwice
  <2>4. y.reserved = x.reserved
    <3>1. CASE tx.op = "delegate" /\ tx.from = w
      <4>1. PICK r \in 0..(Modulus - 1) :
              r = (x.reserved + tx.amount) % Modulus /\ Same(r, x.reserved + tx.amount)
        BY <1>2, RemainderSame
      <4>2. r \in Int
        BY LedgerAssumption
      <4>3. PICK s \in 0..(Modulus - 1) :
              s = (r - tx.amount) % Modulus /\ Same(s, r - tx.amount)
        BY <1>2, <4>2, RemainderSame
      <4>4. s \in Int
        BY LedgerAssumption
      <4>5. PICK i \in Multiples : i = r - (x.reserved + tx.amount)
        BY <4>1 DEF Same
      <4>6. PICK j \in Multiples : j = s - (r - tx.amount)
        BY <4>3 DEF Same
      <4>7. i \in Int /\ j \in Int /\ i + j \in Multiples
        BY MultiplesClosed
      <4>8. s - x.reserved = i + j
        BY <1>2, <4>2, <4>4, <4>5, <4>6, <4>7
      <4>9. Same(s, x.reserved)
        BY <4>7, <4>8 DEF Same
      <4>10. s = x.reserved
        BY <1>2, <4>9, RemaindersUnique
      <4> QED
        BY <1>1, <2>2, <3>1, <4>1, <4>3, <4>10
    <3>2. CASE ~(tx.op = "delegate" /\ tx.from = w)
      BY <1>1, <2>2, <3>2
    <3> QED
      BY <3>1, <3>2
  <2> HIDE DEF G, out, in
  <2>5. /\ Moved(x.delegate, y.delegate, out)
        /\ Moved(x.delegated, y.delegated, in)
        /\ y.countSpent = x.countSpent + (IF tx.from = w THEN 1 ELSE 0)
        /\ y.blockNumber = (IF x.blockNumber >= n THEN x.blockNumber ELSE n)
        /\ y.tokens = x.tokens
        /\ Same(y.forged, x.forged + Forged(tx, w, isForging))
    BY <1>1, <2>2, Zenon
  <2> QED
    BY <2>2, <2>3, <2>4, <2>5, Zenon DEF G, out, in, MoneyDelta
<1>4. CASE tx.op \notin {"delegate", "undelegate"}
  <2>1. y = p
    BY <1>4 DEF MoneyOf
  <2>2. out = 0 /\ in = 0 /\ p.reserved = x.reserved
    <3>1. Lent(tx, ok, value) = 0 /\ tx.op # "delegate"
      BY <1>4, Zenon DEF Lent
    <3>2. 0 - 0 = 0
      OBVIOUS
    <3> HIDE DEF p
    <3> QED
      BY <1>1, <3>1, <3>2
  <2>3. Moved(x.delegate, x.delegate, 0) /\ Moved(x.delegated, x.delegated, 0)
    BY <1>2, MovedNothing
  <2>4. G + 0 = G
    <3>1. G \in Int
      BY <1>1 DEF Moved
    <3> QED
      BY <3>1
  <2> HIDE DEF p, G, out, in
  <2>5. /\ y \in Balance /\ Moved(x.balance, y.balance, G + out)
        /\ Moved(x.delegate, y.delegate, out) /\ Moved(x.delegated, y.delegated, in)
        /\ y.reserved = x.reserved
        /\ y.countSpent = x.countSpent + (IF tx.from = w THEN 1 ELSE 0)
        /\ y.blockNumber = (IF x.blockNumber >= n THEN x.blockNumber ELSE n)
        /\ y.tokens = x.tokens
        /\ Same(y.forged, x.forged + Forged(tx, w, isForging))
    BY <1>1, <2>1, <2>2, <2>3, <2>4, Zenon
  <2> QED
    BY <2>5, Zenon DEF G, out, in, MoneyDelta
<1> QED
  BY <1>3, <1>4, Zenon

(***************************************************************************)
(* What a transaction does to the balances of a batch.                     *)
(***************************************************************************)

LEMMA StoreFacts ==
    ASSUME NEW f, NEW k, NEW v
    PROVE  /\ DOMAIN Store(f, k, v) = DOMAIN f \cup {k}
           /\ Store(f, k, v)[k] = v
           /\ \A x \in DOMAIN f : x # k => Store(f, k, v)[x] = f[x]
BY DEF Store

LEMMA StoreIn ==
    ASSUME NEW f, NEW k, NEW v, NEW w
    PROVE  BalanceIn(Store(f, k, v), w) = IF w = k THEN v ELSE BalanceIn(f, w)
<1>1. /\ DOMAIN Store(f, k, v) = DOMAIN f \cup {k}
      /\ Store(f, k, v)[k] = v
      /\ \A x \in DOMAIN f : x # k => Store(f, k, v)[x] = f[x]
  BY DEF Store
<1> QED
  BY <1>1 DEF BalanceIn

\* The balances are of wallets, each with its type.
Balances(f) == DOMAIN f \subseteq Wallet /\ \A w \in Wallet : BalanceIn(f, w) \in Balance

LEMMA StoreBalances ==
    ASSUME NEW f, Balances(f), NEW w \in Wallet, NEW v \in Balance
    PROVE  Balances(Store(f, w, v))
<1>1. DOMAIN Store(f, w, v) \subseteq Wallet
  <2>1. DOMAIN Store(f, w, v) = DOMAIN f \cup {w}
    BY StoreFacts, Zenon
  <2> QED
    BY <2>1 DEF Balances
<1>2. \A u \in Wallet : BalanceIn(Store(f, w, v), u) \in Balance
  <2> TAKE u \in Wallet
  <2>1. BalanceIn(Store(f, w, v), u) = IF u = w THEN v ELSE BalanceIn(f, u)
    BY StoreIn
  <2> QED
    BY <2>1 DEF Balances
<1> QED
  BY <1>1, <1>2 DEF Balances

LEMMA ZeroFacts ==
    /\ ZeroElement \in Element /\ Net(ZeroElement) = 0
    /\ ZeroBalance \in Balance
    /\ Balances(Empty) /\ \A w : BalanceIn(Empty, w) = ZeroBalance
<1>1. 0 \in 0..(Modulus - 1)
  BY LedgerAssumption
<1>2. ZeroElement \in Element /\ Net(ZeroElement) = 0
  BY <1>1 DEF ZeroElement, Element, Net
<1>3. [t \in Token |-> ZeroElement] \in [Token -> Element]
  BY <1>2
<1>4. ZeroBalance \in Balance
  <2> HIDE DEF ZeroElement
  <2> QED
    BY <1>1, <1>2, <1>3 DEF ZeroBalance, Balance
<1>5. \A w : BalanceIn(Empty, w) = ZeroBalance
  BY DEF Empty, BalanceIn
<1> QED
  BY <1>2, <1>4, <1>5 DEF Balances, Empty

\* The fields of the batch that toLeveldb leaves alone.
Keeps(b, c) ==
    /\ c.put = b.put /\ c.deleted = b.deleted /\ c.cache = b.cache
    /\ c.tokens = b.tokens /\ c.common = b.common

LEMMA KeepsTwice ==
    ASSUME NEW b, NEW c, NEW d, Keeps(b, c), Keeps(c, d)
    PROVE  Keeps(b, d)
BY DEF Keeps

Touches(tx, w) ==
    "balance" \in Modules /\ tx.status # "nodeTest" /\ w # InitialWallet

LEMMA ToLeveldbBalances ==
    ASSUME NEW b, DOMAIN b = BatchFields, NEW tx, NEW w, NEW id, NEW isForging, NEW ok,
           NEW value, NEW c, c = ToLeveldb(b, tx, w, id, isForging, ok, value)
    PROVE  /\ Keeps(b, c) /\ DOMAIN c = BatchFields
           /\ c.balances = IF Touches(tx, w)
                THEN Store(b.balances, w,
                           MoneyOf(BalanceIn(b.balances, w), tx, w, id[1], isForging, ok, value))
                ELSE b.balances
<1> DEFINE rows == AddRows(b, "txs", <<w>>, id)
           listed == IF "addr_txs" \in Modules THEN rows ELSE b
           new == MoneyOf(BalanceIn(b.balances, w), tx, w, id[1], isForging, ok, value)
<1>1. \E r, k : rows = [b EXCEPT !.rows = r, !.count = k]
  BY Zenon DEF AddRows
<1>2. Keeps(b, rows) /\ DOMAIN rows = BatchFields /\ rows.balances = b.balances
  <2> HIDE DEF rows
  <2> QED
    BY <1>1 DEF Keeps, BatchFields
<1>3. Keeps(b, listed) /\ DOMAIN listed = BatchFields /\ listed.balances = b.balances
  <2> HIDE DEF rows
  <2> QED
    BY <1>2 DEF Keeps
<1>4. CASE w = InitialWallet \/ tx.status = "nodeTest"
  <2>1. c = b
    BY <1>4, Zenon DEF ToLeveldb
  <2> QED
    BY <1>4, <2>1 DEF Keeps, Touches
<1>5. CASE w # InitialWallet /\ tx.status # "nodeTest" /\ "balance" \in Modules
  <2>1. c = [listed EXCEPT !.balances = Store(@, w, new)]
    BY <1>5, Zenon DEF ToLeveldb, MoneyOf
  <2> HIDE DEF listed, new
  <2>2. c.balances = Store(b.balances, w, new) /\ DOMAIN c = BatchFields
    BY <1>3, <2>1 DEF BatchFields
  <2>3. Keeps(b, c)
    BY <1>3, <2>1 DEF Keeps, BatchFields
  <2> QED
    BY <1>5, <2>2, <2>3 DEF Touches, new
<1>6. CASE w # InitialWallet /\ tx.status # "nodeTest" /\ "balance" \notin Modules
  <2>1. c = listed
    BY <1>6, Zenon DEF ToLeveldb
  <2> HIDE DEF listed
  <2> QED
    BY <1>3, <1>6, <2>1 DEF Touches
<1> QED
  BY <1>4, <1>5, <1>6

LEMMA ToBothBalances ==
    ASSUME NEW b, DOMAIN b = BatchFields, Balances(b.balances), NEW tx \in Transaction,
           NEW id, id[1] \in Nat, NEW isForging, NEW ok, NEW value \in Nat,
           NEW c, c = ToBoth(b, tx, id, isForging, ok, value)
    PROVE  /\ Keeps(b, c) /\ DOMAIN c = BatchFields /\ Balances(c.balances)
           /\ \A w \in Wallet : BalanceIn(c.balances, w) =
                IF Touches(tx, w) /\ w \in {tx.from, tx.to}
                THEN MoneyOf(BalanceIn(b.balances, w), tx, w, id[1], isForging, ok, value)
                ELSE BalanceIn(b.balances, w)
           /\ "balance" \notin Modules => c.balances = b.balances
<1> DEFINE N(f, w) == MoneyOf(BalanceIn(f, w), tx, w, id[1], isForging, ok, value)
           s == ToLeveldb(b, tx, tx.from, id, isForging, ok, value)
           r == ToLeveldb(s, tx, tx.to, id, isForging, ok, value)
<1>1. tx.from \in Party /\ tx.to \in Party /\ InitialWallet \notin Wallet
  BY TxFacts, LedgerAssumption
<1>2. ASSUME NEW f, Balances(f), NEW w \in Wallet
      PROVE  Balances(Store(f, w, N(f, w)))
  <2>1. BalanceIn(f, w) \in Balance
    BY <1>2 DEF Balances
  <2>2. N(f, w) \in Balance
    <3>1. PICK x \in Balance : x = BalanceIn(f, w)
      BY <2>1
    <3>2. PICK y : y = MoneyOf(x, tx, w, id[1], isForging, ok, value)
      OBVIOUS
    <3>3. MoneyDelta(x, y, tx, w, id[1], isForging, ok, value)
      BY <3>2, MoneyFacts
    <3> QED
      BY <3>1, <3>2, <3>3 DEF MoneyDelta
  <2> HIDE DEF N
  <2> QED
    BY <1>2, <2>2, StoreBalances
<1>3. /\ Keeps(b, s) /\ DOMAIN s = BatchFields
      /\ s.balances = IF Touches(tx, tx.from)
           THEN Store(b.balances, tx.from, N(b.balances, tx.from)) ELSE b.balances
  BY ToLeveldbBalances
<1>4. Balances(s.balances)
  <2> HIDE DEF s, N
  <2>1. Touches(tx, tx.from) => tx.from \in Wallet
    BY <1>1 DEF Touches, Party
  <2> QED
    BY <1>2, <1>3, <2>1
<1>5. /\ Keeps(s, r) /\ DOMAIN r = BatchFields
      /\ r.balances = IF Touches(tx, tx.to)
           THEN Store(s.balances, tx.to, N(s.balances, tx.to)) ELSE s.balances
  <2> HIDE DEF s
  <2> QED
    BY <1>3, ToLeveldbBalances
<1>6. Balances(r.balances)
  <2> HIDE DEF r, s, N
  <2>1. Touches(tx, tx.to) => tx.to \in Wallet
    BY <1>1 DEF Touches, Party
  <2> QED
    BY <1>2, <1>4, <1>5, <2>1
<1>7. \A w \in Wallet : BalanceIn(s.balances, w) =
        IF Touches(tx, w) /\ w = tx.from THEN N(b.balances, w) ELSE BalanceIn(b.balances, w)
  <2> HIDE DEF s, N
  <2> TAKE w \in Wallet
  <2>1. BalanceIn(Store(b.balances, tx.from, N(b.balances, tx.from)), w) =
          IF w = tx.from THEN N(b.balances, tx.from) ELSE BalanceIn(b.balances, w)
    BY StoreIn
  <2> QED
    BY <1>3, <2>1
<1>8. "balance" \notin Modules => s.balances = b.balances /\ r.balances = b.balances
  <2> HIDE DEF r, s, N
  <2> QED
    BY <1>3, <1>5 DEF Touches
<1>9. CASE tx.from = tx.to
  <2>1. c = s
    BY <1>9, Zenon DEF ToBoth
  <2> HIDE DEF s, N
  <2>2. /\ Keeps(b, c) /\ DOMAIN c = BatchFields /\ Balances(c.balances)
        /\ \A w \in Wallet : BalanceIn(c.balances, w) =
            IF Touches(tx, w) /\ w \in {tx.from, tx.to}
            THEN N(b.balances, w) ELSE BalanceIn(b.balances, w)
    BY <1>3, <1>4, <1>7, <1>9, <2>1
  <2>3. "balance" \notin Modules => c.balances = b.balances
    BY <1>8, <2>1
  <2> QED
    BY <2>2, <2>3 DEF N
<1>10. CASE tx.from # tx.to
  <2>1. c = r
    BY <1>10, Zenon DEF ToBoth
  <2>2. BalanceIn(s.balances, tx.to) = BalanceIn(b.balances, tx.to)
    <3> HIDE DEF s, N
    <3>1. BalanceIn(Store(b.balances, tx.from, N(b.balances, tx.from)), tx.to)
            = BalanceIn(b.balances, tx.to)
      BY <1>10, StoreIn
    <3> QED
      BY <1>3, <3>1
  <2>3. N(s.balances, tx.to) = N(b.balances, tx.to)
    BY <2>2, Zenon
  <2> HIDE DEF s, r, N
  <2>4. /\ Keeps(b, c) /\ DOMAIN c = BatchFields /\ Balances(c.balances)
        /\ \A w \in Wallet : BalanceIn(c.balances, w) =
            IF Touches(tx, w) /\ w \in {tx.from, tx.to}
            THEN N(b.balances, w) ELSE BalanceIn(b.balances, w)
    <3>1. Keeps(b, c) /\ DOMAIN c = BatchFields /\ Balances(c.balances)
      BY <1>3, <1>5, <1>6, <2>1, KeepsTwice
    <3>2. \A w \in Wallet : BalanceIn(c.balances, w) =
            IF Touches(tx, tx.to) /\ w = tx.to THEN N(s.balances, tx.to)
            ELSE BalanceIn(s.balances, w)
      <4> TAKE w \in Wallet
      <4>1. BalanceIn(Store(s.balances, tx.to, N(s.balances, tx.to)), w) =
              IF w = tx.to THEN N(s.balances, tx.to) ELSE BalanceIn(s.balances, w)
        BY StoreIn
      <4> QED
        BY <1>5, <2>1, <4>1
    <3> QED
      BY <1>7, <1>10, <2>3, <3>1, <3>2
  <2>5. "balance" \notin Modules => c.balances = b.balances
    BY <1>8, <2>1
  <2> QED
    BY <2>4, <2>5 DEF N
<1> QED
  BY <1>9, <1>10

\* From x to y only the amount of token t changes, by v.
TokenMoved(x, y, t, v) ==
    /\ y \in Balance
    /\ y.balance = x.balance /\ y.delegate = x.delegate /\ y.delegated = x.delegated
    /\ y.countSpent = x.countSpent /\ y.blockNumber = x.blockNumber
    /\ y.reserved = x.reserved /\ y.forged = x.forged
    /\ \A s \in Token \ {t} : y.tokens[s] = x.tokens[s]
    /\ Moved(x.tokens[t], y.tokens[t], v)

LEMMA TokenMovedNothing ==
    ASSUME NEW x \in Balance, NEW t \in Token
    PROVE  TokenMoved(x, x, t, 0)
<1>1. x.tokens[t] \in Element
  BY BalanceFacts
<1> QED
  BY <1>1, MovedNothing DEF TokenMoved

LEMMA TokenMovedTwice ==
    ASSUME NEW x \in Balance, NEW y, NEW z, NEW t \in Token, NEW u, NEW v,
           TokenMoved(x, y, t, u), TokenMoved(y, z, t, v)
    PROVE  TokenMoved(x, z, t, u + v)
<1>1. x.tokens[t] \in Element
  BY BalanceFacts
<1>2. Moved(x.tokens[t], z.tokens[t], u + v)
  BY <1>1, MovedTwice DEF TokenMoved
<1> QED
  BY <1>2 DEF TokenMoved

\* Between f and g the wallets change by what v says.
TokensMoved(f, g, t, v) ==
    /\ Balances(g)
    /\ \A w \in Wallet : TokenMoved(BalanceIn(f, w), BalanceIn(g, w), t, v[w])

LEMMA TokensMovedTwice ==
    ASSUME NEW f, Balances(f), NEW g, NEW h, NEW t \in Token, NEW u, NEW v,
           TokensMoved(f, g, t, u), TokensMoved(g, h, t, v)
    PROVE  TokensMoved(f, h, t, [w \in Wallet |-> u[w] + v[w]])
<1>1. ASSUME NEW w \in Wallet
      PROVE  TokenMoved(BalanceIn(f, w), BalanceIn(h, w), t, u[w] + v[w])
  <2>1. BalanceIn(f, w) \in Balance
    BY DEF Balances
  <2>2. TokenMoved(BalanceIn(f, w), BalanceIn(g, w), t, u[w])
        /\ TokenMoved(BalanceIn(g, w), BalanceIn(h, w), t, v[w])
    BY DEF TokensMoved
  <2> QED
    BY <2>1, <2>2, TokenMovedTwice
<1> QED
  BY <1>1 DEF TokensMoved

\* The balance with the amount of a token replaced.
LEMMA TokenReplaced ==
    ASSUME NEW x \in Balance, NEW t \in Token, NEW e, NEW v, Moved(x.tokens[t], e, v)
    PROVE  TokenMoved(x, [x EXCEPT !.tokens = [@ EXCEPT ![t] = e]], t, v)
<1> DEFINE tokens == [x.tokens EXCEPT ![t] = e]
           y == [x EXCEPT !.tokens = tokens]
<1>1. x.tokens \in [Token -> Element] /\ e \in Element
  BY BalanceFacts DEF Moved
<1>2. tokens \in [Token -> Element] /\ tokens[t] = e
      /\ \A s \in Token \ {t} : tokens[s] = x.tokens[s]
  BY <1>1
<1>3. y = [x EXCEPT !.tokens = [@ EXCEPT ![t] = e]]
  OBVIOUS
<1> HIDE DEF tokens
<1>4. y \in Balance
  BY <1>2 DEF Balance
<1>5. /\ y.balance = x.balance /\ y.delegate = x.delegate /\ y.delegated = x.delegated
      /\ y.countSpent = x.countSpent /\ y.blockNumber = x.blockNumber
      /\ y.reserved = x.reserved /\ y.forged = x.forged /\ y.tokens = tokens
  BY DEF Balance
<1> HIDE DEF y
<1>6. TokenMoved(x, y, t, v)
  BY <1>2, <1>4, <1>5 DEF TokenMoved
<1> QED
  BY <1>3, <1>6

\* One wallet gets v, unless the operation has failed.
OnlyFor(tx, w, v) == [u \in Wallet |-> IF u = w /\ ~NotSuccess(tx) THEN v ELSE 0]

LEMMA SetTokensFacts ==
    ASSUME NEW f, Balances(f), NEW tx, tx.to \in Token, NEW w \in Wallet,
           NEW e, NEW v, Moved(BalanceIn(f, w).tokens[tx.to], e, v)
    PROVE  TokensMoved(f, SetTokens(f, tx, w, e), tx.to, OnlyFor(tx, w, v))
<1> DEFINE x == BalanceIn(f, w)
           y == IF NotSuccess(tx) THEN x ELSE [x EXCEPT !.tokens = [@ EXCEPT ![tx.to] = e]]
           g == SetTokens(f, tx, w, e)
<1>1. x \in Balance
  BY DEF Balances
<1>2. g = Store(f, w, y)
  BY DEF SetTokens
<1>3. TokenMoved(x, y, tx.to, IF ~NotSuccess(tx) THEN v ELSE 0)
  <2>1. TokenMoved(x, x, tx.to, 0)
    BY <1>1, TokenMovedNothing
  <2>2. TokenMoved(x, [x EXCEPT !.tokens = [@ EXCEPT ![tx.to] = e]], tx.to, v)
    BY <1>1, TokenReplaced
  <2> QED
    BY <2>1, <2>2
<1>4. y \in Balance
  BY <1>3 DEF TokenMoved
<1> HIDE DEF y, g
<1>5. Balances(g)
  BY <1>2, <1>4, StoreBalances
<1>6. ASSUME NEW u \in Wallet
      PROVE  TokenMoved(BalanceIn(f, u), BalanceIn(g, u), tx.to, OnlyFor(tx, w, v)[u])
  <2>1. BalanceIn(g, u) = IF u = w THEN y ELSE BalanceIn(f, u)
    BY <1>2, StoreIn
  <2>2. CASE u = w
    <3>1. OnlyFor(tx, w, v)[u] = IF ~NotSuccess(tx) THEN v ELSE 0
      BY <2>2 DEF OnlyFor
    <3> QED
      BY <1>3, <2>1, <2>2, <3>1, Zenon
  <2>3. CASE u # w
    <3>1. OnlyFor(tx, w, v)[u] = 0
      BY <2>3 DEF OnlyFor
    <3>2. BalanceIn(f, u) \in Balance
      BY DEF Balances
    <3>3. TokenMoved(BalanceIn(f, u), BalanceIn(f, u), tx.to, 0)
      BY <3>2, TokenMovedNothing
    <3> QED
      BY <2>1, <2>3, <3>1, <3>3
  <2> QED
    BY <2>2, <2>3
<1> QED
  BY <1>5, <1>6 DEF TokensMoved, g

LEMMA AddTokensFacts ==
    ASSUME NEW f, Balances(f), NEW tx, tx.to \in Token, NEW w \in Wallet, NEW v \in Nat
    PROVE  TokensMoved(f, AddTokens(f, tx, w, v), tx.to, OnlyFor(tx, w, v))
<1> DEFINE old == BalanceIn(f, w).tokens[tx.to]
<1>1. BalanceIn(f, w) \in Balance
  BY DEF Balances
<1>2. old \in Element
  BY <1>1, BalanceFacts
<1>3. Moved(old, ReceiveValue(old, v), v)
  BY <1>2, MovedReceive
<1>4. TokensMoved(f, SetTokens(f, tx, w, ReceiveValue(old, v)), tx.to, OnlyFor(tx, w, v))
  BY <1>3, SetTokensFacts
<1> QED
  BY <1>4, Zenon DEF AddTokens

LEMMA MoveTokensFacts ==
    ASSUME NEW f, Balances(f), NEW tx, tx.to \in Token, NEW w \in Wallet, NEW to, NEW v \in Nat
    PROVE  TokensMoved(f, MoveTokens(f, tx, w, to, v), tx.to,
                       OnlyFor(tx, w, (IF tx.from = w THEN 0 - v ELSE 0)
                                        + (IF to = w THEN v ELSE 0)))
<1> DEFINE old == BalanceIn(f, w).tokens[tx.to]
           paid == IF tx.from = w THEN SpentValue(old, v) ELSE old
           new == IF to = w THEN ReceiveValue(paid, v) ELSE paid
           p == IF tx.from = w THEN 0 - v ELSE 0
           q == IF to = w THEN v ELSE 0
<1>1. BalanceIn(f, w) \in Balance
  BY DEF Balances
<1>2. old \in Element
  BY <1>1, BalanceFacts
<1>3. Moved(old, paid, p)
  <2>1. Moved(old, SpentValue(old, v), 0 - v) /\ Moved(old, old, 0)
    BY <1>2, MovedSpent, MovedNothing
  <2> QED
    BY <2>1
<1>4. paid \in Element
  BY <1>3 DEF Moved
<1>5. Moved(paid, new, q)
  <2> HIDE DEF paid
  <2>1. Moved(paid, ReceiveValue(paid, v), v) /\ Moved(paid, paid, 0)
    BY <1>4, MovedReceive, MovedNothing
  <2> QED
    BY <2>1
<1>6. MoveTokens(f, tx, w, to, v) = SetTokens(f, tx, w, new)
  BY Zenon DEF MoveTokens
<1> HIDE DEF paid, new, p, q
<1>7. Moved(old, new, p + q)
  BY <1>2, <1>3, <1>5, MovedTwice
<1>8. TokensMoved(f, SetTokens(f, tx, w, new), tx.to, OnlyFor(tx, w, p + q))
  BY <1>7, SetTokensFacts
<1> QED
  BY <1>6, <1>8 DEF p, q

\* What a successful operation adds to the amount of its token that w holds.
TokenAdds(tx, w) ==
    CASE tx.op = "create" ->
           tx.dist[w] + (IF tx.target = w THEN tx.amount - SumFunction(tx.dist) ELSE 0)
      [] tx.op = "add" -> IF tx.target = w THEN tx.amount ELSE 0
      [] tx.op = "move" -> (IF tx.target = w THEN tx.amount ELSE 0)
                            - (IF tx.from = w THEN tx.amount ELSE 0)
      [] tx.op = "burn" -> IF tx.from = w THEN 0 - tx.amount ELSE 0
      [] OTHER -> 0

TokensOf(tx) == [w \in Wallet |-> IF NotSuccess(tx) THEN 0 ELSE TokenAdds(tx, w)]

LEMMA TokensMovedAs ==
    ASSUME NEW f, Balances(f), NEW g, NEW t \in Token, NEW u, NEW v, TokensMoved(f, g, t, u),
           \A w \in Wallet : v[w] \in Int /\ Same(u[w], v[w])
    PROVE  TokensMoved(f, g, t, v)
<1>1. ASSUME NEW w \in Wallet
      PROVE  TokenMoved(BalanceIn(f, w), BalanceIn(g, w), t, v[w])
  <2> DEFINE e == BalanceIn(f, w).tokens[t]
             d == BalanceIn(g, w).tokens[t]
  <2>1. TokenMoved(BalanceIn(f, w), BalanceIn(g, w), t, u[w])
    BY DEF TokensMoved
  <2>2. BalanceIn(f, w) \in Balance
    BY DEF Balances
  <2>3. e \in Element /\ d \in Element /\ u[w] \in Int /\ Same(Net(d), Net(e) + u[w])
    BY <2>1, <2>2, BalanceFacts DEF TokenMoved, Moved
  <2>4. Net(e) \in Int /\ Net(d) \in Int /\ v[w] \in Int
    BY <2>3, ElementFacts
  <2>5. PICK i \in Multiples : i = Net(d) - (Net(e) + u[w])
    BY <2>3 DEF Same
  <2>6. PICK j \in Multiples : j = u[w] - v[w]
    BY DEF Same
  <2>7. i \in Int /\ j \in Int /\ i + j \in Multiples
    BY MultiplesClosed
  <2>8. Net(d) - (Net(e) + v[w]) = i + j
    BY <2>3, <2>4, <2>5, <2>6, <2>7
  <2>9. Moved(e, d, v[w])
    BY <2>3, <2>4, <2>7, <2>8 DEF Moved, Same
  <2> QED
    BY <2>1, <2>9 DEF TokenMoved
<1> QED
  BY <1>1 DEF TokensMoved

LEMMA TokensMovedNothing ==
    ASSUME NEW f, Balances(f), NEW t \in Token, NEW v, \A w \in Wallet : v[w] = 0
    PROVE  TokensMoved(f, f, t, v)
<1>1. ASSUME NEW w \in Wallet
      PROVE  TokenMoved(BalanceIn(f, w), BalanceIn(f, w), t, v[w])
  <2>1. BalanceIn(f, w) \in Balance /\ v[w] = 0
    BY DEF Balances
  <2> QED
    BY <2>1, TokenMovedNothing
<1> QED
  BY <1>1 DEF TokensMoved

LEMMA GiveTokensFacts ==
    ASSUME NEW f, Balances(f), NEW tx \in Transaction, tx.to \in Token,
           NEW given, given = {w \in DOMAIN tx.dist : tx.dist[w] # 0}
    PROVE  TokensMoved(f, GiveTokens(f, tx, given), tx.to,
                       [w \in Wallet |-> IF NotSuccess(tx) THEN 0 ELSE tx.dist[w]])
<1> DEFINE g == GiveTokens(f, tx, given)
           v == [w \in Wallet |-> IF NotSuccess(tx) THEN 0 ELSE tx.dist[w]]
<1>1. tx.dist \in [Wallet -> Nat] /\ given \subseteq Wallet
  BY TxFacts
<1>2. DOMAIN g = DOMAIN f \cup given
      /\ (\A w \in given : g[w] = AddTokens(f, tx, w, tx.dist[w])[w])
      /\ \A w \in DOMAIN f \ given : g[w] = f[w]
  BY DEF GiveTokens
<1> HIDE DEF g
<1>3. ASSUME NEW w \in given
      PROVE  TokenMoved(BalanceIn(f, w), BalanceIn(g, w), tx.to, v[w])
  <2> DEFINE h == AddTokens(f, tx, w, tx.dist[w])
  <2>1. w \in Wallet /\ tx.dist[w] \in Nat
    BY <1>1
  <2>2. TokensMoved(f, h, tx.to, OnlyFor(tx, w, tx.dist[w]))
    BY <2>1, AddTokensFacts
  <2>3. TokenMoved(BalanceIn(f, w), BalanceIn(h, w), tx.to, OnlyFor(tx, w, tx.dist[w])[w])
    BY <2>1, <2>2 DEF TokensMoved
  <2>4. OnlyFor(tx, w, tx.dist[w])[w] = v[w]
    BY <2>1 DEF OnlyFor
  <2>5. w \in DOMAIN h
    <3>1. PICK y : h = Store(f, w, y)
      BY Zenon DEF AddTokens, SetTokens
    <3> HIDE DEF h
    <3> QED
      BY <3>1 DEF Store
  <2>6. BalanceIn(h, w) = g[w] /\ BalanceIn(g, w) = g[w]
    <3>1. g[w] = h[w] /\ w \in DOMAIN g
      BY <1>2
    <3> HIDE DEF h
    <3> QED
      BY <2>5, <3>1 DEF BalanceIn
  <2> HIDE DEF v, h
  <2> QED
    BY <2>3, <2>4, <2>6
<1>4. ASSUME NEW w \in Wallet \ given
      PROVE  TokenMoved(BalanceIn(f, w), BalanceIn(g, w), tx.to, v[w])
  <2>1. BalanceIn(g, w) = BalanceIn(f, w)
    BY <1>2 DEF BalanceIn
  <2>2. v[w] = 0
    BY <1>1
  <2>3. BalanceIn(f, w) \in Balance
    BY DEF Balances
  <2> HIDE DEF v
  <2> QED
    BY <2>1, <2>2, <2>3, TokenMovedNothing
<1> HIDE DEF v
<1>5. \A w \in Wallet : TokenMoved(BalanceIn(f, w), BalanceIn(g, w), tx.to, v[w])
  BY <1>3, <1>4
<1>6. Balances(g)
  BY <1>1, <1>2, <1>5 DEF Balances, TokenMoved
<1>7. TokensMoved(f, g, tx.to, v)
  BY <1>5, <1>6 DEF TokensMoved
<1> QED
  BY <1>7 DEF g, v

LEMMA TokenFacts ==
    ASSUME NEW f, Balances(f), NEW tx \in Transaction, tx.to \in Token,
           tx.from \in Wallet, tx.target \in Wallet
    PROVE  TokensMoved(f, TokenBalances(f, tx), tx.to, TokensOf(tx))
<1> DEFINE t == tx.to
           a == tx.amount
           z == TokensOf(tx)
           r == TokenBalances(f, tx)
<1>1. /\ a \in Nat /\ tx.dist \in [Wallet -> Nat] /\ IsFiniteSet(Wallet)
      /\ InitialWallet \notin Wallet
  BY TxFacts, LedgerAssumption
<1>2. SumFunction(tx.dist) \in Int
  <2>1. DOMAIN tx.dist = Wallet /\ \A w \in Wallet : tx.dist[w] \in Int
    BY <1>1
  <2>2. SumFunctionOnSet(tx.dist, Wallet) \in Int
    BY <1>1, <2>1, SumType
  <2> QED
    BY <2>1, <2>2 DEF SumFunction
<1>3. CASE tx.op = "create"
  <2> DEFINE given == {w \in DOMAIN tx.dist : tx.dist[w] # 0}
             d == a - SumFunction(tx.dist)
             rest == d % Modulus
             g == GiveTokens(f, tx, given)
             u == [w \in Wallet |-> IF NotSuccess(tx) THEN 0 ELSE tx.dist[w]]
             o == OnlyFor(tx, tx.target, rest)
             s == [w \in Wallet |-> u[w] + o[w]]
  <2>1. r = AddTokens(g, tx, tx.target, rest)
    BY <1>3 DEF TokenBalances
  <2>2. TokensMoved(f, g, t, u)
    BY GiveTokensFacts
  <2>3. d \in Int
    BY <1>1, <1>2
  <2>4. rest \in Nat /\ Same(rest, d)
    <3>1. rest \in 0..(Modulus - 1) /\ Same(rest, d) /\ Modulus \in Nat
      BY <2>3, RemainderSame, LedgerAssumption
    <3> HIDE DEF rest
    <3> QED
      BY <3>1
  <2>5. Balances(g)
    BY <2>2 DEF TokensMoved
  <2>6. TokensMoved(g, r, t, o)
    <3> HIDE DEF g, rest
    <3> QED
      BY <2>1, <2>4, <2>5, AddTokensFacts
  <2>7. TokensMoved(f, r, t, s)
    <3> HIDE DEF g, r, u, o
    <3> QED
      BY <2>2, <2>6, TokensMovedTwice
  <2>8. ASSUME NEW w \in Wallet
        PROVE  z[w] \in Int /\ Same(s[w], z[w])
    <3>1. z[w] = IF NotSuccess(tx) THEN 0
                 ELSE tx.dist[w] + (IF tx.target = w THEN d ELSE 0)
      BY <1>3 DEF TokensOf, TokenAdds
    <3>2. u[w] = IF NotSuccess(tx) THEN 0 ELSE tx.dist[w]
      OBVIOUS
    <3>3. o[w] = IF w = tx.target /\ ~NotSuccess(tx) THEN rest ELSE 0
      BY DEF OnlyFor
    <3>4. s[w] = u[w] + o[w] /\ tx.dist[w] \in Nat
      BY <1>1
    <3> HIDE DEF z, s, u, o, d, rest
    <3>5. CASE NotSuccess(tx)
      <4>1. z[w] = 0 /\ s[w] = 0
        BY <3>1, <3>2, <3>3, <3>4, <3>5
      <4> QED
        BY <4>1, SameAgain
    <3>6. CASE ~NotSuccess(tx) /\ w # tx.target
      <4>1. z[w] = tx.dist[w] /\ s[w] = tx.dist[w]
        BY <3>1, <3>2, <3>3, <3>4, <3>6
      <4> QED
        BY <3>4, <4>1, SameAgain
    <3>7. CASE ~NotSuccess(tx) /\ w = tx.target
      <4>1. z[w] = tx.dist[w] + d /\ s[w] = tx.dist[w] + rest
        BY <3>1, <3>2, <3>3, <3>4, <3>7
      <4>2. s[w] - z[w] = rest - d /\ z[w] \in Int
        BY <2>3, <2>4, <3>4, <4>1
      <4> QED
        BY <2>4, <4>2 DEF Same
    <3> QED
      BY <3>5, <3>6, <3>7
  <2> HIDE DEF r, s, z
  <2>9. TokensMoved(f, r, t, z)
    BY <2>7, <2>8, TokensMovedAs
  <2> QED
    BY <2>9 DEF r, z
<1>4. CASE tx.op = "add"
  <2>1. r = AddTokens(f, tx, tx.target, a)
    BY <1>4 DEF TokenBalances
  <2>2. z = OnlyFor(tx, tx.target, a)
    BY <1>4 DEF TokensOf, TokenAdds, OnlyFor
  <2> QED
    BY <1>1, <2>1, <2>2, AddTokensFacts
<1>5. CASE tx.op = "burn"
  <2>1. r = MoveTokens(f, tx, tx.from, InitialWallet, a)
    BY <1>5 DEF TokenBalances
  <2>2. TokensMoved(f, r, t, OnlyFor(tx, tx.from, (IF tx.from = tx.from THEN 0 - a ELSE 0)
                                        + (IF InitialWallet = tx.from THEN a ELSE 0)))
    <3> HIDE DEF r
    <3> QED
      BY <1>1, <2>1, MoveTokensFacts
  <2>3. (IF tx.from = tx.from THEN 0 - a ELSE 0)
          + (IF InitialWallet = tx.from THEN a ELSE 0) = 0 - a
    BY <1>1
  <2>4. z = OnlyFor(tx, tx.from, 0 - a)
    BY <1>5 DEF TokensOf, TokenAdds, OnlyFor
  <2> HIDE DEF r, z
  <2>5. TokensMoved(f, r, t, z)
    BY <2>2, <2>3, <2>4
  <2> QED
    BY <2>5 DEF r, z
<1>6. CASE tx.op = "move" /\ tx.from # tx.target
  <2> DEFINE g == MoveTokens(f, tx, tx.target, tx.target, a)
             p == OnlyFor(tx, tx.target, a)
             q == OnlyFor(tx, tx.from, 0 - a)
             s == [w \in Wallet |-> p[w] + q[w]]
  <2>1. r = MoveTokens(g, tx, tx.from, tx.target, a)
    BY <1>6 DEF TokenBalances
  <2>2. TokensMoved(f, g, t, p)
    <3>1. TokensMoved(f, g, t, OnlyFor(tx, tx.target, (IF tx.from = tx.target THEN 0 - a ELSE 0)
                                          + (IF tx.target = tx.target THEN a ELSE 0)))
      BY <1>1, MoveTokensFacts
    <3>2. (IF tx.from = tx.target THEN 0 - a ELSE 0)
            + (IF tx.target = tx.target THEN a ELSE 0) = a
      BY <1>1, <1>6
    <3> QED
      BY <3>1, <3>2
  <2>3. Balances(g)
    BY <2>2 DEF TokensMoved
  <2>4. TokensMoved(g, r, t, q)
    <3> HIDE DEF g, r
    <3>1. TokensMoved(g, r, t, OnlyFor(tx, tx.from, (IF tx.from = tx.from THEN 0 - a ELSE 0)
                                          + (IF tx.target = tx.from THEN a ELSE 0)))
      BY <1>1, <2>1, <2>3, MoveTokensFacts
    <3>2. (IF tx.from = tx.from THEN 0 - a ELSE 0)
            + (IF tx.target = tx.from THEN a ELSE 0) = 0 - a
      BY <1>1, <1>6
    <3> QED
      BY <3>1, <3>2
  <2>5. TokensMoved(f, r, t, s)
    <3> HIDE DEF g, r, p, q
    <3> QED
      BY <2>2, <2>4, TokensMovedTwice
  <2>6. s = z
    <3>1. \A w \in Wallet : p[w] + q[w] = z[w]
      BY <1>1, <1>6 DEF TokensOf, TokenAdds, OnlyFor
    <3>2. z = [w \in Wallet |-> z[w]]
      BY DEF TokensOf
    <3> HIDE DEF p, q, z
    <3> QED
      BY <3>1, <3>2
  <2> HIDE DEF r, s, z
  <2>7. TokensMoved(f, r, t, z)
    BY <2>5, <2>6
  <2> QED
    BY <2>7 DEF r, z
<1>7. CASE tx.op = "move" /\ tx.from = tx.target
  <2>1. r = MoveTokens(f, tx, tx.target, tx.target, a)
    BY <1>7 DEF TokenBalances
  <2>2. TokensMoved(f, r, t, OnlyFor(tx, tx.target, (IF tx.from = tx.target THEN 0 - a ELSE 0)
                                        + (IF tx.target = tx.target THEN a ELSE 0)))
    <3> HIDE DEF r
    <3> QED
      BY <1>1, <2>1, MoveTokensFacts
  <2>3. (IF tx.from = tx.target THEN 0 - a ELSE 0)
          + (IF tx.target = tx.target THEN a ELSE 0) = 0
    BY <1>1, <1>7
  <2>4. z = OnlyFor(tx, tx.target, 0)
    BY <1>1, <1>7 DEF TokensOf, TokenAdds, OnlyFor
  <2> HIDE DEF r, z
  <2>5. TokensMoved(f, r, t, z)
    BY <2>2, <2>3, <2>4
  <2> QED
    BY <2>5 DEF r, z
<1>8. CASE tx.op \notin {"create", "add", "burn", "move"}
  <2>1. r = f
    BY <1>8 DEF TokenBalances
  <2>2. \A w \in Wallet : z[w] = 0
    BY <1>8 DEF TokensOf, TokenAdds
  <2> HIDE DEF r, z
  <2>3. TokensMoved(f, r, t, z)
    BY <2>1, <2>2, TokensMovedNothing
  <2> QED
    BY <2>3 DEF r, z
<1> QED
  BY <1>3, <1>4, <1>5, <1>6, <1>7, <1>8

(***************************************************************************)
(* The delegations in the database and in a batch.                         *)
(***************************************************************************)

Pairs == Party \X Party

\* Finitely many delegations, each under a key of its own.
DelegateRows(D) ==
    /\ IsFiniteSet(D)
    /\ \A d \in D : d.pair \in Pairs /\ d.key \in Nat /\ d.value \in Nat
    /\ \A d, e \in D : d.key = e.key => d = e

\* What is delegated when the batch b is written to a database with the rows D.
InForce(D, b) == {d \in D \cup b.put : d.key \notin b.deleted}

\* The keys of the delegations of a pair that the batch holds, in the order in
\* which they were made.
CacheMatches(b, p) ==
    LET c == CacheOf(b, p)
    IN  /\ c \in Seq(Nat)
        /\ \A i, j \in 1..Len(c) : i < j => c[i] > c[j]
        /\ \A i \in 1..Len(c) : \E d \in b.put : d.pair = p /\ d.key = c[i]
        /\ \A d \in b.put : d.pair = p => \E i \in 1..Len(c) : c[i] = d.key

BatchRows(D, b) ==
    /\ DelegateRows(D \cup b.put)
    /\ \A d \in D \cup b.put : d.key > b.count
    /\ b.deleted \subseteq Nat /\ \A k \in b.deleted : k > b.count
    /\ \A d \in b.put : d.key \notin b.deleted
    /\ \A d \in b.put, e \in D : d.key < e.key
    /\ \A p \in Pairs : CacheMatches(b, p)

\* The delegations G are F and a new one that tx makes.
Lends(F, G, tx, id) ==
    \E r : /\ G = F \cup {r} /\ r.pair = <<tx.from, tx.to>> /\ r.value = tx.amount
          /\ r.hash = id /\ r.key \in Nat /\ \A d \in F : r.key < d.key

\* What a transaction does to the delegations in force: a new one, the latest of
\* its pair less, or nothing.
RowsMoved(F, G, tx, id, ok, value) ==
    \/ tx.op = "delegate" /\ ok /\ Lends(F, G, tx, id)
    \/ /\ tx.op = "undelegate" /\ ok
       /\ \E r \in F : /\ G = F \ {r} /\ r.pair = <<tx.from, tx.to>> /\ r.value = value
                       /\ \A d \in F : d.pair = <<tx.from, tx.to>> => r.key <= d.key
    \/ /\ G = F /\ Lent(tx, ok, value) = 0
       /\ tx.op = "delegate" => ~ok
       /\ tx.op = "undelegate" /\ ok => \A d \in F : d.pair # <<tx.from, tx.to>>

LEMMA InForceRows ==
    ASSUME NEW D, NEW b, BatchRows(D, b)
    PROVE  /\ DelegateRows(InForce(D, b))
           /\ \A d \in InForce(D, b) : d.key > b.count
           /\ b.put \subseteq InForce(D, b)
<1>1. InForce(D, b) \subseteq D \cup b.put
  BY DEF InForce
<1>2. IsFiniteSet(InForce(D, b))
  BY <1>1, FS_Subset DEF BatchRows, DelegateRows
<1>3. b.put \subseteq InForce(D, b)
  BY DEF BatchRows, InForce
<1> QED
  BY <1>1, <1>2, <1>3 DEF BatchRows, DelegateRows

\* ToUndelegate finds the latest delegation of the pair that is in force.
LEMMA LatestFound ==
    ASSUME NEW b, BatchRows(db.delegates, b), NEW pair \in Pairs
    PROVE  /\ \A d \in ToUndelegate(b, pair) :
                /\ d \in InForce(db.delegates, b) /\ d.pair = pair
                /\ \A e \in InForce(db.delegates, b) : e.pair = pair => d.key <= e.key
                /\ CacheOf(b, pair) # <<>> => d \in b.put /\ d.key = Last(CacheOf(b, pair))
                /\ CacheOf(b, pair) = <<>> => d \in db.delegates
           /\ ToUndelegate(b, pair) = {} =>
                \A e \in InForce(db.delegates, b) : e.pair # pair
<1> DEFINE D == db.delegates
           own == CacheOf(b, pair)
           n == Len(own)
           found == ToUndelegate(b, pair)
<1>1. /\ own \in Seq(Nat)
      /\ \A i, j \in 1..n : i < j => own[i] > own[j]
      /\ \A i \in 1..n : \E d \in b.put : d.pair = pair /\ d.key = own[i]
      /\ \A d \in b.put : d.pair = pair => \E i \in 1..n : own[i] = d.key
  BY DEF BatchRows, CacheMatches
<1>2. /\ \A d \in D \cup b.put : d.key \in Nat
      /\ \A d, e \in D \cup b.put : d.key = e.key => d = e
      /\ \A d \in b.put, e \in D : d.key < e.key
      /\ b.put \subseteq InForce(D, b) /\ InForce(D, b) \subseteq D \cup b.put
  BY InForceRows DEF BatchRows, DelegateRows, InForce
<1>3. CASE own # <<>>
  <2>1. n \in Nat \ {0} /\ n \in 1..n /\ Last(own) = own[n] /\ own[n] \in Nat
    <3>1. n \in Nat /\ n # 0
      BY <1>1, <1>3, EmptySeq
    <3>2. n \in 1..n
      BY <3>1
    <3>3. own[n] \in Nat
      BY <1>1, <3>2
    <3>4. Last(own) = own[n]
      BY DEF Last
    <3> QED
      BY <3>1, <3>2, <3>3, <3>4
  <2> HIDE DEF n, own
  <2>2. found = {d \in b.put : d.key = own[n]}
    BY <1>3, <2>1 DEF ToUndelegate, own
  <2>3. PICK r \in b.put : r.pair = pair /\ r.key = own[n]
    BY <1>1, <2>1
  <2>4. found = {r}
    BY <1>2, <2>2, <2>3
  <2>5. ASSUME NEW e \in InForce(D, b), e.pair = pair
        PROVE  r.key <= e.key
    <3>1. r.key \in Nat /\ e.key \in Nat
      BY <1>2
    <3>2. CASE e \in b.put
      <4>1. PICK i \in 1..n : own[i] = e.key
        BY <1>1, <2>5, <3>2
      <4>2. i < n => own[i] > own[n]
        BY <1>1, <2>1, <4>1
      <4>3. i = n \/ i < n
        BY <2>1
      <4> QED
        BY <2>3, <3>1, <4>1, <4>2, <4>3
    <3>3. CASE e \in D
      BY <1>2, <3>1, <3>3
    <3> QED
      BY <1>2, <3>2, <3>3
  <2> HIDE DEF found
  <2>6. /\ \A d \in found :
             /\ d \in InForce(D, b) /\ d.pair = pair
             /\ \A e \in InForce(D, b) : e.pair = pair => d.key <= e.key
             /\ own # <<>> => d \in b.put /\ d.key = Last(own)
             /\ own = <<>> => d \in D
        /\ found # {}
    BY <1>2, <1>3, <2>1, <2>3, <2>4, <2>5
  <2> QED
    BY <2>6 DEF found, own
<1>4. CASE own = <<>>
  <2> DEFINE rows == {d \in D : d.key \notin b.deleted}
             keys == DelegateKeys(pair, rows)
  <2>1. found = {d \in D : keys # {} /\ d.key = Min(keys)}
    BY <1>4 DEF ToUndelegate
  <2>2. keys \subseteq Nat
    BY <1>2 DEF DelegateKeys
  <2>3. \A k : k \in keys <=> \E d \in D : d.key = k /\ d.pair = pair /\ d.key \notin b.deleted
    BY DEF DelegateKeys
  <2>4. \A e \in InForce(D, b) : e.pair = pair => e \in D /\ e.key \in keys
    <3>1. \A e \in b.put : e.pair # pair
      <4>1. n = 0
        BY <1>4
      <4> QED
        BY <1>1, <4>1
    <3> HIDE DEF keys
    <3> QED
      BY <2>3, <3>1 DEF InForce
  <2>5. keys # {} => Min(keys) \in keys /\ \A k \in keys : Min(keys) <= k
    <3> HIDE DEF keys
    <3> QED
      BY <2>2, MinOfSet
  <2> HIDE DEF keys, found
  <2>6. ASSUME NEW d \in found
        PROVE  /\ d \in InForce(D, b) /\ d.pair = pair /\ d \in D
               /\ \A e \in InForce(D, b) : e.pair = pair => d.key <= e.key
    <3>1. d \in D /\ keys # {} /\ d.key = Min(keys)
      BY <2>1
    <3>2. d.key \in keys
      BY <2>5, <3>1
    <3>3. PICK x \in D : x.key = d.key /\ x.pair = pair /\ x.key \notin b.deleted
      BY <2>3, <3>2
    <3>4. x = d
      BY <1>2, <3>1, <3>3
    <3> QED
      BY <2>4, <2>5, <3>1, <3>3, <3>4 DEF InForce
  <2>7. found = {} => keys = {}
    BY <2>1, <2>3, <2>5
  <2>8. found = {} => \A e \in InForce(D, b) : e.pair # pair
    BY <2>4, <2>7
  <2>9. /\ \A d \in found :
             /\ d \in InForce(D, b) /\ d.pair = pair
             /\ \A e \in InForce(D, b) : e.pair = pair => d.key <= e.key
             /\ own # <<>> => d \in b.put /\ d.key = Last(own)
             /\ own = <<>> => d \in D
    BY <1>4, <2>6
  <2> QED
    BY <2>8, <2>9 DEF found, own
<1> QED
  BY <1>3, <1>4

LEMMA StoreCache ==
    \A b, c, pair, s, p : c.cache = Store(b.cache, pair, s) =>
        CacheOf(c, p) = IF p = pair THEN s ELSE CacheOf(b, p)
BY DEF Store, CacheOf

\* The fields that the delegations leave alone.
Besides(b, c) ==
    /\ DOMAIN c = BatchFields /\ c.rows = b.rows /\ c.balances = b.balances
    /\ c.tokens = b.tokens /\ c.common = b.common

LEMMA Delegated ==
    ASSUME NEW D, NEW b, DOMAIN b = BatchFields, BatchRows(D, b),
           b.count \in 1..(CounterModulus - 1), NEW tx \in Transaction, ~NotSuccess(tx), NEW id,
           NEW c, c = Delegate(b, tx, id)
    PROVE  /\ Besides(b, c) /\ c.count = b.count - 1
           /\ BatchRows(D, c)
           /\ Lends(InForce(D, b), InForce(D, c), tx, id)
<1> DEFINE k == b.count
           pair == <<tx.from, tx.to>>
           own == CacheOf(b, pair)
           new == Append(own, k)
           r == [pair |-> pair, key |-> k, value |-> tx.amount, hash |-> id]
<1>1. c = [b EXCEPT !.put = @ \cup {r}, !.cache = Store(@, pair, new), !.count = CountDown(@)]
  BY DEF Delegate
<1>2. k \in Nat \ {0} /\ tx.amount \in Nat /\ pair \in Pairs
  BY TxFacts, LedgerAssumption DEF Pairs
<1>3. CountDown(k) = k - 1
  <2>1. k \in 0..(CounterModulus - 1) /\ 1 \in 0..k
    BY <1>2, LedgerAssumption
  <2> QED
    BY <2>1, CountsDown DEF CountDown
<1>4. r.pair = pair /\ r.key = k /\ r.value = tx.amount /\ r.hash = id
  OBVIOUS
<1> HIDE DEF r, new
<1>5. /\ DOMAIN c = BatchFields /\ c.put = b.put \cup {r} /\ c.deleted = b.deleted
      /\ c.cache = Store(b.cache, pair, new) /\ c.count = k - 1
      /\ c.rows = b.rows /\ c.balances = b.balances /\ c.tokens = b.tokens
      /\ c.common = b.common
  BY <1>1, <1>3 DEF BatchFields
<1>6. /\ DelegateRows(D \cup b.put)
      /\ \A d \in D \cup b.put : d.key > k
      /\ b.deleted \subseteq Nat /\ \A j \in b.deleted : j > k
      /\ \A d \in b.put : d.key \notin b.deleted
      /\ \A d \in b.put, e \in D : d.key < e.key
      /\ \A p \in Pairs : CacheMatches(b, p)
  BY DEF BatchRows
<1>7. \A d \in D \cup b.put : d.key \in Nat /\ d.key # k
  BY <1>2, <1>6 DEF DelegateRows
<1>8. k \notin b.deleted
  BY <1>2, <1>6
<1>9. DelegateRows(D \cup c.put)
  <2>1. D \cup c.put = (D \cup b.put) \cup {r}
    BY <1>5
  <2>2. IsFiniteSet((D \cup b.put) \cup {r})
    BY <1>6, FS_AddElement DEF DelegateRows
  <2>3. \A d \in (D \cup b.put) \cup {r} :
          d.pair \in Pairs /\ d.key \in Nat /\ d.value \in Nat
    <3> HIDE DEF pair
    <3> QED
      BY <1>2, <1>4, <1>6 DEF DelegateRows
  <2>4. \A d, e \in (D \cup b.put) \cup {r} : d.key = e.key => d = e
    BY <1>4, <1>6, <1>7 DEF DelegateRows
  <2> QED
    BY <2>1, <2>2, <2>3, <2>4 DEF DelegateRows
<1>10. ASSUME NEW p \in Pairs
       PROVE  CacheMatches(c, p)
  <2> HIDE DEF pair
  <2>1. CacheOf(c, p) = IF p = pair THEN new ELSE CacheOf(b, p)
    <3> HIDE DEF new
    <3>1. c.cache = Store(b.cache, pair, new)
      BY <1>5
    <3> QED
      BY <3>1, StoreCache
  <2>2. CacheMatches(b, p)
    BY <1>6
  <2>3. CASE p # pair
    <3>1. CacheOf(c, p) = CacheOf(b, p)
      BY <2>1, <2>3
    <3>2. r.pair # p
      BY <1>4, <2>3
    <3>3. PICK q : q = CacheOf(b, p)
      OBVIOUS
    <3>4. /\ q \in Seq(Nat) /\ \A i, j \in 1..Len(q) : i < j => q[i] > q[j]
          /\ \A i \in 1..Len(q) : \E d \in b.put : d.pair = p /\ d.key = q[i]
          /\ \A d \in b.put : d.pair = p => \E i \in 1..Len(q) : q[i] = d.key
      BY <2>2, <3>3, Zenon DEF CacheMatches
    <3>5. \A i \in 1..Len(q) : \E d \in c.put : d.pair = p /\ d.key = q[i]
      BY <1>5, <3>4, Zenon
    <3>6. \A d \in c.put : d.pair = p => \E i \in 1..Len(q) : q[i] = d.key
      BY <1>5, <3>2, <3>4, Zenon
    <3> QED
      <4>1. CacheOf(c, p) = q
        BY <3>1, <3>3
      <4> QED
        BY <3>4, <3>5, <3>6, <4>1 DEF CacheMatches
  <2>4. CASE p = pair
    <3> DEFINE n == Len(own)
    <3>1. /\ own \in Seq(Nat) /\ n \in Nat
          /\ \A i, j \in 1..n : i < j => own[i] > own[j]
          /\ \A i \in 1..n : \E d \in b.put : d.pair = pair /\ d.key = own[i]
          /\ \A d \in b.put : d.pair = pair => \E i \in 1..n : own[i] = d.key
      BY <2>2, <2>4 DEF CacheMatches
    <3>2. /\ new \in Seq(Nat) /\ Len(new) = n + 1 /\ new[n + 1] = k
          /\ \A i \in 1..n : new[i] = own[i]
      <4> HIDE DEF own, k
      <4> QED
        BY <1>2, <3>1 DEF new
    <3>3. CacheOf(c, p) = new
      BY <2>1, <2>4
    <3> HIDE DEF own, n
    <3>4. \A i \in 1..n : own[i] \in Nat /\ own[i] > k
      <4> TAKE i \in 1..n
      <4>1. PICK d \in b.put : d.pair = pair /\ d.key = own[i]
        BY <3>1
      <4> QED
        BY <1>6, <1>7, <4>1
    <3>5. \A i \in 1..(n + 1) : i \in 1..n \/ i = n + 1
      BY <3>1
    <3>6. \A i, j \in 1..(n + 1) : i < j => new[i] > new[j]
      <4> SUFFICES ASSUME NEW i \in 1..(n + 1), NEW j \in 1..(n + 1), i < j
                   PROVE  new[i] > new[j]
        OBVIOUS
      <4>1. i \in 1..n
        BY <3>1
      <4>2. CASE j \in 1..n
        <5>1. new[i] = own[i] /\ new[j] = own[j]
          BY <3>2, <4>1, <4>2
        <5>2. \A x, y \in 1..n : x < y => own[x] > own[y]
          BY <3>1
        <5> QED
          BY <4>1, <4>2, <5>1, <5>2
      <4>3. CASE j = n + 1
        BY <3>2, <3>4, <4>1, <4>3
      <4> QED
        BY <3>5, <4>2, <4>3
    <3>7. \A i \in 1..(n + 1) : \E d \in c.put : d.pair = p /\ d.key = new[i]
      <4> TAKE i \in 1..(n + 1)
      <4>1. CASE i \in 1..n
        <5>1. PICK d \in b.put : d.pair = pair /\ d.key = own[i]
          BY <3>1, <4>1
        <5>2. new[i] = own[i] /\ d \in c.put
          BY <1>5, <3>2, <4>1
        <5> QED
          BY <2>4, <5>1, <5>2
      <4>2. CASE i = n + 1
        BY <1>4, <1>5, <2>4, <3>2, <4>2
      <4> QED
        BY <3>5, <4>1, <4>2
    <3>8. \A d \in c.put : d.pair = p => \E i \in 1..(n + 1) : new[i] = d.key
      <4> SUFFICES ASSUME NEW d \in c.put, d.pair = p
                   PROVE  \E i \in 1..(n + 1) : new[i] = d.key
        OBVIOUS
      <4>1. CASE d \in b.put
        <5>1. PICK i \in 1..n : own[i] = d.key
          BY <2>4, <3>1, <4>1
        <5>2. i \in 1..(n + 1) /\ new[i] = d.key
          BY <3>1, <3>2, <5>1
        <5> QED
          BY <5>2
      <4>2. CASE d = r
        <5>1. n + 1 \in 1..(n + 1)
          BY <3>1
        <5> QED
          BY <1>4, <3>2, <4>2, <5>1
      <4> QED
        BY <1>5, <4>1, <4>2
    <3>9. Len(new) = n + 1 /\ new \in Seq(Nat)
      BY <3>2
    <3> HIDE DEF new
    <3> QED
      BY <3>3, <3>6, <3>7, <3>8, <3>9 DEF CacheMatches
  <2> QED
    BY <2>3, <2>4
<1>11. BatchRows(D, c)
  <2>1. \A d \in D \cup c.put : d.key > k - 1
    BY <1>2, <1>4, <1>5, <1>6, <1>7
  <2>2. \A j \in c.deleted : j > k - 1
    BY <1>2, <1>5, <1>6
  <2>3. \A d \in c.put : d.key \notin c.deleted
    BY <1>4, <1>5, <1>6, <1>8
  <2>4. \A d \in c.put, e \in D : d.key < e.key
    BY <1>2, <1>4, <1>5, <1>6, <1>7
  <2> QED
    BY <1>5, <1>6, <1>9, <1>10, <2>1, <2>2, <2>3, <2>4 DEF BatchRows
<1>12. InForce(D, c) = InForce(D, b) \cup {r}
  BY <1>4, <1>5, <1>8 DEF InForce
<1>13. \A d \in InForce(D, b) : r.key < d.key
  BY <1>2, <1>4, <1>6, <1>7 DEF InForce
<1>14. Besides(b, c)
  BY <1>5 DEF Besides
<1>15. r.key \in Nat
  BY <1>2, <1>4
<1>16. Lends(InForce(D, b), InForce(D, c), tx, id)
  BY <1>4, <1>12, <1>13, <1>15, Zenon DEF Lends
<1> QED
  BY <1>5, <1>11, <1>14, <1>16

LEMMA Undelegated ==
    ASSUME NEW b, DOMAIN b = BatchFields, BatchRows(db.delegates, b), b.count \in Nat,
           NEW tx \in Transaction, NEW d \in ToUndelegate(b, <<tx.from, tx.to>>),
           NEW c, c = Undelegate(b, tx, d)
    PROVE  /\ Besides(b, c) /\ c.count = b.count
           /\ BatchRows(db.delegates, c)
           /\ InForce(db.delegates, c) = InForce(db.delegates, b) \ {d}
<1> DEFINE D == db.delegates
           pair == <<tx.from, tx.to>>
           own == CacheOf(b, pair)
           n == Len(own)
<1>1. pair \in Pairs
  BY TxFacts DEF Pairs
<1>2. /\ d \in InForce(D, b) /\ d.pair = pair
      /\ own # <<>> => d \in b.put /\ d.key = Last(own)
      /\ own = <<>> => d \in D
  BY <1>1, LatestFound
<1>3. PICK f : /\ f = IF own = <<>> THEN b.cache ELSE Store(b.cache, pair, Front(own))
               /\ c = [b EXCEPT !.deleted = @ \cup {d.key}, !.put = @ \ {d}, !.cache = f]
  BY Zenon DEF Undelegate
<1>4. /\ DOMAIN c = BatchFields /\ c.put = b.put \ {d} /\ c.deleted = b.deleted \cup {d.key}
      /\ c.cache = f /\ c.count = b.count
      /\ c.rows = b.rows /\ c.balances = b.balances /\ c.tokens = b.tokens
      /\ c.common = b.common
  BY <1>3 DEF BatchFields
<1>5. /\ DelegateRows(D \cup b.put)
      /\ \A e \in D \cup b.put : e.key > b.count
      /\ b.deleted \subseteq Nat /\ \A j \in b.deleted : j > b.count
      /\ \A e \in b.put : e.key \notin b.deleted
      /\ \A e \in b.put, x \in D : e.key < x.key
      /\ \A p \in Pairs : CacheMatches(b, p)
  BY DEF BatchRows
<1>6. /\ d \in D \cup b.put /\ d.key \in Nat
      /\ \A e \in D \cup b.put : e.key = d.key => e = d
  BY <1>2, <1>5 DEF DelegateRows, InForce
<1>7. InForce(D, c) = InForce(D, b) \ {d}
  BY <1>4, <1>6 DEF InForce
<1>8. DelegateRows(D \cup c.put)
  <2>1. D \cup c.put \subseteq D \cup b.put
    BY <1>4
  <2>2. IsFiniteSet(D \cup c.put)
    BY <1>5, <2>1, FS_Subset DEF DelegateRows
  <2> QED
    BY <1>5, <2>1, <2>2 DEF DelegateRows
<1>9. ASSUME NEW p \in Pairs
      PROVE  CacheMatches(c, p)
  <2> HIDE DEF pair
  <2>1. CacheMatches(b, p)
    BY <1>5
  <2>2. CASE own = <<>>
    <3>1. CacheOf(c, p) = CacheOf(b, p)
      BY <1>3, <1>4, <2>2 DEF CacheOf
    <3>2. d \in D /\ d \notin b.put
      <4>1. d \in D
        BY <1>2, <2>2
      <4>2. d \notin b.put
        BY <1>5, <1>6, <4>1
      <4> QED
        BY <4>1, <4>2
    <3>3. c.put = b.put
      BY <1>4, <3>2
    <3> QED
      BY <2>1, <3>1, <3>3 DEF CacheMatches
  <2>3. CASE own # <<>>
    <3>1. CacheOf(c, p) = IF p = pair THEN Front(own) ELSE CacheOf(b, p)
      <4>1. c.cache = Store(b.cache, pair, Front(own))
        BY <1>3, <1>4, <2>3
      <4> QED
        BY <4>1, StoreCache
    <3>2. CASE p # pair
      <4>1. CacheOf(c, p) = CacheOf(b, p) /\ d.pair # p
        BY <1>2, <3>1, <3>2
      <4> QED
        BY <1>4, <2>1, <4>1 DEF CacheMatches
    <3>3. CASE p = pair
      <4> DEFINE s == Front(own)
      <4>1. /\ own \in Seq(Nat) /\ n \in Nat
            /\ \A i, j \in 1..n : i < j => own[i] > own[j]
            /\ \A i \in 1..n : \E e \in b.put : e.pair = pair /\ e.key = own[i]
            /\ \A e \in b.put : e.pair = pair => \E i \in 1..n : own[i] = e.key
        BY <2>1, <3>3 DEF CacheMatches
      <4>2. n # 0 /\ d.key = own[n] /\ d \in b.put
        <5>1. n # 0
          BY <2>3, <4>1, EmptySeq
        <5>2. Last(own) = own[n]
          BY DEF Last
        <5> QED
          BY <1>2, <2>3, <5>1, <5>2
      <4>3. s \in Seq(Nat) /\ Len(s) = n - 1 /\ \A i \in 1..(n - 1) : s[i] = own[i]
        <5>1. s = SubSeq(own, 1, n - 1)
          BY DEF Front
        <5>2. n - 1 \in Int /\ (n - 1) - 1 + 1 = n - 1 /\ (~(1 <= n - 1) => n - 1 = 0)
              /\ \A i \in 1..(n - 1) : 1 + i - 1 = i /\ i \in 1..n
          <6> HIDE DEF own, n
          <6>1. n \in Nat /\ n # 0
            BY <4>1, <4>2, Zenon
          <6> QED
            BY <6>1
        <5>4. \A i \in 1..(n - 1) : own[i] \in Nat
          <6>1. \A i \in 1..n : own[i] \in Nat
            <7>1. own \in Seq(Nat)
              BY <4>1
            <7> HIDE DEF own
            <7> QED
              BY <7>1
          <6> HIDE DEF own, n
          <6> QED
            BY <5>2, <6>1
        <5> HIDE DEF s, own
        <5>3. /\ SubSeq(own, 1, n - 1) \in Seq(Nat)
              /\ Len(SubSeq(own, 1, n - 1)) = IF 1 <= n - 1 THEN (n - 1) - 1 + 1 ELSE 0
              /\ \A i \in 1..((n - 1) - 1 + 1) : SubSeq(own, 1, n - 1)[i] = own[1 + i - 1]
          BY <5>2, <5>4, SubSeqProperties
        <5> QED
          BY <5>1, <5>2, <5>3
      <4>4. CacheOf(c, p) = s
        BY <3>1, <3>3
      <4> HIDE DEF s, own, n
      <4>5. \A i \in 1..(n - 1) : i \in 1..n /\ i < n /\ n \in 1..n
        <5>1. n \in Nat /\ n # 0
          BY <4>1, <4>2, Zenon
        <5> QED
          BY <5>1
      <4>6. \A i \in 1..n : own[i] \in Nat
        BY <1>6, <4>1, <1>5 DEF DelegateRows
      <4>7. \A i, j \in 1..(n - 1) : i < j => s[i] > s[j]
        BY <4>1, <4>3, <4>5
      <4>8. \A i \in 1..(n - 1) : \E e \in c.put : e.pair = p /\ e.key = s[i]
        <5> TAKE i \in 1..(n - 1)
        <5>1. PICK e \in b.put : e.pair = pair /\ e.key = own[i]
          BY <4>1, <4>5
        <5>2. own[i] > own[n] /\ own[i] \in Nat /\ own[n] \in Nat
          BY <4>1, <4>5, <4>6
        <5>3. e # d
          BY <4>2, <5>1, <5>2
        <5> QED
          BY <1>4, <3>3, <4>3, <5>1, <5>3
      <4>9. \A e \in c.put : e.pair = p => \E i \in 1..(n - 1) : s[i] = e.key
        <5> SUFFICES ASSUME NEW e \in c.put, e.pair = p
                     PROVE  \E i \in 1..(n - 1) : s[i] = e.key
          OBVIOUS
        <5>1. PICK i \in 1..n : own[i] = e.key
          BY <1>4, <3>3, <4>1
        <5>2. i # n
          BY <1>4, <1>6, <4>2, <5>1
        <5>3. i \in 1..(n - 1)
          BY <4>1, <4>2, <5>2
        <5> QED
          BY <4>3, <5>1, <5>3
      <4> QED
        BY <4>3, <4>4, <4>7, <4>8, <4>9 DEF CacheMatches
    <3> QED
      BY <3>2, <3>3
  <2> QED
    BY <2>2, <2>3
<1>10. BatchRows(D, c)
  <2>1. \A e \in D \cup c.put : e.key > c.count
    BY <1>4, <1>5
  <2>2. c.deleted \subseteq Nat /\ \A j \in c.deleted : j > c.count
    BY <1>4, <1>5, <1>6
  <2>3. \A e \in c.put : e.key \notin c.deleted
    BY <1>4, <1>5, <1>6
  <2>4. \A e \in c.put, x \in D : e.key < x.key
    BY <1>4, <1>5
  <2> QED
    BY <1>8, <1>9, <2>1, <2>2, <2>3, <2>4 DEF BatchRows
<1>11. Besides(b, c)
  BY <1>4 DEF Besides
<1> QED
  BY <1>4, <1>7, <1>10, <1>11

\* A lower counter, and changes to other fields.
LEMMA BatchRowsKept ==
    ASSUME NEW D, NEW b, NEW c, BatchRows(D, b), b.count \in Int, c.count \in Int,
           c.put = b.put, c.deleted = b.deleted, c.cache = b.cache, c.count <= b.count
    PROVE  BatchRows(D, c) /\ InForce(D, c) = InForce(D, b)
<1>1. c.put = b.put /\ c.deleted = b.deleted /\ c.cache = b.cache
  OBVIOUS
<1>2. \A p : CacheOf(c, p) = CacheOf(b, p)
  BY <1>1 DEF CacheOf
<1>3. \A p \in Pairs : CacheMatches(c, p)
  <2> TAKE p \in Pairs
  <2>1. CacheMatches(b, p)
    BY DEF BatchRows
  <2>2. CacheOf(c, p) = CacheOf(b, p)
    BY <1>2
  <2> QED
    BY <1>1, <2>1, <2>2 DEF CacheMatches
<1>4. \A d \in D \cup b.put : d.key \in Nat
  BY DEF BatchRows, DelegateRows
<1>5. \A d \in D \cup c.put : d.key > c.count
  BY <1>1, <1>4 DEF BatchRows
<1>6. \A k \in c.deleted : k > c.count
  BY <1>1 DEF BatchRows
<1> QED
  BY <1>1, <1>3, <1>5, <1>6 DEF BatchRows, InForce

\* What a transaction does to the balances of its addresses.
MoneyMoved(f, g, tx, n, isForging, ok, value) ==
    /\ Balances(g)
    /\ \A w \in Wallet : BalanceIn(g, w) =
          IF Touches(tx, w) /\ w \in {tx.from, tx.to}
          THEN MoneyOf(BalanceIn(f, w), tx, w, n, isForging, ok, value)
          ELSE BalanceIn(f, w)
    /\ "balance" \notin Modules => g = f

\* From b to c a transaction goes through ProcessMoney.
MoneyDone(D, b, c, tx, id, isForging, ok, value) ==
    /\ DOMAIN c = BatchFields /\ c.tokens = b.tokens /\ c.common = b.common
    /\ BatchRows(D, c)
    /\ RowsMoved(InForce(D, b), InForce(D, c), tx, id, ok, value)
    /\ MoneyMoved(b.balances, c.balances, tx, id[1], isForging, ok, value)
    /\ Modules \cap {"balance", "txs", "addr_txs"} # {} =>
          /\ tx.op = "delegate" => ok = ~NotSuccess(tx)
          /\ tx.op = "undelegate" => ok

LEMMA BothDone ==
    ASSUME NEW D, NEW b, IsBatch(b), b.count >= 2, BatchRows(D, b), Balances(b.balances),
           NEW tx \in Transaction, NEW id, id[1] \in Nat, NEW isForging, NEW ok,
           NEW value \in Nat, NEW c, c = ToBoth(b, tx, id, isForging, ok, value)
    PROVE  /\ DOMAIN c = BatchFields /\ c.tokens = b.tokens /\ c.common = b.common
           /\ BatchRows(D, c) /\ InForce(D, c) = InForce(D, b)
           /\ MoneyMoved(b.balances, c.balances, tx, id[1], isForging, ok, value)
<1>1. DOMAIN b = BatchFields /\ b.count \in Int
  BY DEF IsBatch
<1>2. /\ Keeps(b, c) /\ DOMAIN c = BatchFields /\ Balances(c.balances)
      /\ \A w \in Wallet : BalanceIn(c.balances, w) =
           IF Touches(tx, w) /\ w \in {tx.from, tx.to}
           THEN MoneyOf(BalanceIn(b.balances, w), tx, w, id[1], isForging, ok, value)
           ELSE BalanceIn(b.balances, w)
      /\ "balance" \notin Modules => c.balances = b.balances
  BY <1>1, ToBothBalances
<1>3. Adds(b, c, ListedFor(tx), id, 2)
  BY AddsToBoth
<1>4. c.count \in (b.count - 2)..b.count
  BY <1>3, Zenon DEF Adds
<1>5. c.count \in Int /\ c.count <= b.count
  BY <1>1, <1>4
<1>6. BatchRows(D, c) /\ InForce(D, c) = InForce(D, b)
  <2>1. c.put = b.put /\ c.deleted = b.deleted /\ c.cache = b.cache
    BY <1>2 DEF Keeps
  <2> QED
    BY <1>1, <1>5, <2>1, BatchRowsKept
<1>7. c.tokens = b.tokens /\ c.common = b.common
  BY <1>2 DEF Keeps
<1>8. MoneyMoved(b.balances, c.balances, tx, id[1], isForging, ok, value)
  BY <1>2, Zenon DEF MoneyMoved
<1> QED
  BY <1>2, <1>6, <1>7, <1>8

LEMMA MoneyStep ==
    ASSUME NEW b, IsBatch(b), b.count >= 3, BatchRows(db.delegates, b), Balances(b.balances),
           NEW tx \in Transaction, NEW id, id[1] \in Nat, NEW isForging,
           NEW c, c = ProcessMoney(b, tx, id, isForging)
    PROVE  \E ok \in BOOLEAN, value \in Nat :
               MoneyDone(db.delegates, b, c, tx, id, isForging, ok, value)
<1> DEFINE D == db.delegates
           pair == <<tx.from, tx.to>>
           found == ToUndelegate(b, pair)
<1>1. /\ DOMAIN b = BatchFields /\ b.count \in Int /\ b.count >= 2
      /\ b.count \in 1..(CounterModulus - 1) /\ b.count \in Nat
      /\ b.count - 1 >= 2 /\ b.count - 1 \in 0..(CounterModulus - 1)
  <2>1. CounterModulus \in Nat
    BY LedgerAssumption
  <2> QED
    BY <2>1 DEF IsBatch
<1>2. pair \in Pairs
  BY TxFacts DEF Pairs
<1>3. /\ \A d \in found : /\ d \in InForce(D, b) /\ d.pair = pair
                          /\ \A e \in InForce(D, b) : e.pair = pair => d.key <= e.key
      /\ found = {} => \A e \in InForce(D, b) : e.pair # pair
  <2> HIDE DEF pair
  <2> QED
    BY <1>2, LatestFound
<1>4. CASE Modules \cap {"balance", "txs", "addr_txs"} = {}
  <2>1. c = b
    BY <1>4 DEF ProcessMoney
  <2>2. \A w : ~Touches(tx, w)
    BY <1>4 DEF Touches
  <2>3. MoneyMoved(b.balances, b.balances, tx, id[1], isForging, FALSE, 0)
    BY <2>2 DEF MoneyMoved
  <2>4. RowsMoved(InForce(D, b), InForce(D, b), tx, id, FALSE, 0)
    BY DEF RowsMoved, Lent
  <2>5. MoneyDone(D, b, c, tx, id, isForging, FALSE, 0)
    BY <1>1, <1>4, <2>1, <2>3, <2>4 DEF MoneyDone
  <2> QED
    BY <2>5
<1>5. CASE Modules \cap {"balance", "txs", "addr_txs"} # {} /\ tx.op = "delegate"
           /\ ~NotSuccess(tx)
  <2>0. PICK e : e = Delegate(b, tx, id)
    OBVIOUS
  <2>1. c = ToBoth(e, tx, id, isForging, TRUE, 0)
    BY <1>5, <2>0 DEF ProcessMoney
  <2>2. /\ Besides(b, e) /\ e.count = b.count - 1
        /\ BatchRows(D, e)
        /\ Lends(InForce(D, b), InForce(D, e), tx, id)
    <3>1. ~NotSuccess(tx) /\ DOMAIN b = BatchFields /\ b.count \in 1..(CounterModulus - 1)
      BY <1>1, <1>5
    <3> HIDE DEF D
    <3>2. BatchRows(D, b)
      BY DEF D
    <3> QED
      BY <2>0, <3>1, <3>2, Delegated
  <2>3. IsBatch(e) /\ e.count >= 2 /\ Balances(e.balances)
    BY <1>1, <2>2 DEF IsBatch, Besides
  <2>4. /\ DOMAIN c = BatchFields /\ c.tokens = e.tokens /\ c.common = e.common
        /\ BatchRows(D, c) /\ InForce(D, c) = InForce(D, e)
        /\ MoneyMoved(e.balances, c.balances, tx, id[1], isForging, TRUE, 0)
    BY <2>1, <2>2, <2>3, BothDone
  <2>5. RowsMoved(InForce(D, b), InForce(D, c), tx, id, TRUE, 0)
    BY <1>5, <2>2, <2>4, Zenon DEF RowsMoved
  <2>6. MoneyDone(D, b, c, tx, id, isForging, TRUE, 0)
    BY <1>5, <2>2, <2>4, <2>5 DEF MoneyDone, Besides
  <2> QED
    BY <2>6
<1>6. CASE Modules \cap {"balance", "txs", "addr_txs"} # {} /\ tx.op = "delegate"
           /\ NotSuccess(tx)
  <2>1. c = ToBoth(b, tx, id, isForging, FALSE, 0)
    BY <1>6 DEF ProcessMoney, Delegate
  <2>2. /\ DOMAIN c = BatchFields /\ c.tokens = b.tokens /\ c.common = b.common
        /\ BatchRows(D, c) /\ InForce(D, c) = InForce(D, b)
        /\ MoneyMoved(b.balances, c.balances, tx, id[1], isForging, FALSE, 0)
    BY <1>1, <2>1, BothDone
  <2>3. RowsMoved(InForce(D, b), InForce(D, c), tx, id, FALSE, 0)
    BY <1>6, <2>2 DEF RowsMoved, Lent
  <2>4. MoneyDone(D, b, c, tx, id, isForging, FALSE, 0)
    BY <1>6, <2>2, <2>3 DEF MoneyDone
  <2> QED
    BY <2>4
<1>7. CASE Modules \cap {"balance", "txs", "addr_txs"} # {} /\ tx.op = "undelegate" /\ found # {}
  <2> DEFINE d == CHOOSE d \in found : TRUE
             e == Undelegate(b, tx, d)
  <2>1. c = ToBoth(e, tx, id, isForging, TRUE, d.value)
    BY <1>7 DEF ProcessMoney
  <2>2. d \in found
    BY <1>7
  <2> HIDE DEF d
  <2>3. /\ Besides(b, e) /\ e.count = b.count
        /\ BatchRows(D, e) /\ InForce(D, e) = InForce(D, b) \ {d}
    BY <1>1, <2>2, Undelegated
  <2> HIDE DEF e, found
  <2>4. IsBatch(e) /\ e.count >= 2 /\ Balances(e.balances)
    BY <1>1, <2>3 DEF IsBatch, Besides
  <2>5. d.value \in Nat
    BY <1>3, <2>2, InForceRows DEF DelegateRows
  <2>6. /\ DOMAIN c = BatchFields /\ c.tokens = e.tokens /\ c.common = e.common
        /\ BatchRows(D, c) /\ InForce(D, c) = InForce(D, e)
        /\ MoneyMoved(e.balances, c.balances, tx, id[1], isForging, TRUE, d.value)
    BY <2>1, <2>3, <2>4, <2>5, BothDone
  <2>7. RowsMoved(InForce(D, b), InForce(D, c), tx, id, TRUE, d.value)
    BY <1>3, <1>7, <2>2, <2>3, <2>6, Zenon DEF RowsMoved
  <2>8. MoneyDone(D, b, c, tx, id, isForging, TRUE, d.value)
    BY <1>7, <2>3, <2>6, <2>7 DEF MoneyDone, Besides
  <2> QED
    BY <2>5, <2>8
<1>8. CASE /\ Modules \cap {"balance", "txs", "addr_txs"} # {}
           /\ tx.op # "delegate" /\ ~(tx.op = "undelegate" /\ found # {})
  <2>1. c = ToBoth(b, tx, id, isForging, TRUE, 0)
    BY <1>8 DEF ProcessMoney
  <2>2. /\ DOMAIN c = BatchFields /\ c.tokens = b.tokens /\ c.common = b.common
        /\ BatchRows(D, c) /\ InForce(D, c) = InForce(D, b)
        /\ MoneyMoved(b.balances, c.balances, tx, id[1], isForging, TRUE, 0)
    BY <1>1, <2>1, BothDone
  <2>3. RowsMoved(InForce(D, b), InForce(D, c), tx, id, TRUE, 0)
    <3>1. Lent(tx, TRUE, 0) = 0
      BY <1>8 DEF Lent
    <3> HIDE DEF found
    <3> QED
      BY <1>3, <1>8, <2>2, <3>1 DEF RowsMoved
  <2>4. MoneyDone(D, b, c, tx, id, isForging, TRUE, 0)
    BY <1>8, <2>2, <2>3 DEF MoneyDone
  <2> QED
    BY <2>4
<1> QED
  BY <1>4, <1>5, <1>6, <1>7, <1>8, Zenon

\* A transaction goes through ProcessToken.
TokensDone(b, c, tx) ==
    /\ DOMAIN c = BatchFields
    /\ c.put = b.put /\ c.deleted = b.deleted /\ c.cache = b.cache /\ c.common = b.common
    /\ c.tokens = IF "txs" \in Modules /\ ~NotSuccess(tx) /\ tx.op \in TokenOps
                  THEN TokenRecord(b, tx).tokens ELSE b.tokens
    /\ Balances(c.balances)
    /\ IF "balance" \in Modules /\ tx.op \in TokenOps
       THEN TokensMoved(b.balances, c.balances, tx.to, TokensOf(tx))
       ELSE c.balances = b.balances

LEMMA TokenRecordKeeps ==
    ASSUME NEW b, NEW tx
    PROVE  TokenRecord(b, tx) = b \/ \E f : TokenRecord(b, tx) = [b EXCEPT !.tokens = f]
<1>1. \A t, field, value :
        \/ SetTokenRecord(b, t, field, value) = b
        \/ \E f : SetTokenRecord(b, t, field, value) = [b EXCEPT !.tokens = f]
  BY Zenon DEF SetTokenRecord
<1>2. CASE tx.op = "create"
  BY <1>2, Zenon DEF TokenRecord
<1>3. CASE tx.op \in {"owner", "add", "burn"}
  <2>1. \E t, field, value : TokenRecord(b, tx) = SetTokenRecord(b, t, field, value)
    <3>1. CASE tx.op = "owner"
      BY <3>1 DEF TokenRecord
    <3>2. CASE tx.op = "add"
      BY <3>2 DEF TokenRecord
    <3>3. CASE tx.op = "burn"
      BY <3>3 DEF TokenRecord
    <3> QED
      BY <1>3, <3>1, <3>2, <3>3
  <2>2. PICK t, field, value : TokenRecord(b, tx) = SetTokenRecord(b, t, field, value)
    BY <2>1
  <2> QED
    BY <1>1, <2>2
<1>4. CASE tx.op \notin {"create", "owner", "add", "burn"}
  BY <1>4 DEF TokenRecord
<1> QED
  BY <1>2, <1>3, <1>4, Zenon

LEMMA TokenStep ==
    ASSUME NEW b, DOMAIN b = BatchFields, Balances(b.balances), NEW tx \in Transaction,
           WellFormedTx(tx), NEW id, NEW c, c = ProcessToken(b, tx, id)
    PROVE  TokensDone(b, c, tx)
<1> DEFINE listed == AddRows(TokenRecord(b, tx), "tokens", TokenRows(tx), id)
           record == IF "txs" \in Modules /\ ~NotSuccess(tx) THEN listed ELSE b
<1>1. CASE tx.op \notin TokenOps
  <2>1. c = b
    BY <1>1 DEF ProcessToken
  <2> QED
    BY <1>1, <2>1 DEF TokensDone
<1>2. CASE tx.op \in TokenOps
  <2> DEFINE new == TokenRecord(b, tx)
  <2>1. new = b \/ \E f : new = [b EXCEPT !.tokens = f]
    BY TokenRecordKeeps
  <2>2. PICK r, n : listed = [new EXCEPT !.rows = r, !.count = n]
    BY Zenon DEF AddRows
  <2>3. /\ DOMAIN record = BatchFields
        /\ record.put = b.put /\ record.deleted = b.deleted /\ record.cache = b.cache
        /\ record.common = b.common /\ record.balances = b.balances
        /\ record.tokens = IF "txs" \in Modules /\ ~NotSuccess(tx)
                           THEN TokenRecord(b, tx).tokens ELSE b.tokens
    <3>1. /\ DOMAIN new = BatchFields
          /\ new.put = b.put /\ new.deleted = b.deleted /\ new.cache = b.cache
          /\ new.common = b.common /\ new.balances = b.balances
      <4> HIDE DEF new
      <4> QED
        BY <2>1 DEF BatchFields
    <3>2. TokenRecord(b, tx).tokens = new.tokens
      OBVIOUS
    <3> HIDE DEF new
    <3>3. /\ DOMAIN listed = BatchFields
          /\ listed.put = b.put /\ listed.deleted = b.deleted /\ listed.cache = b.cache
          /\ listed.common = b.common /\ listed.balances = b.balances
          /\ listed.tokens = new.tokens
      <4> HIDE DEF listed
      <4> QED
        BY <2>2, <3>1 DEF BatchFields
    <3> HIDE DEF listed
    <3> QED
      BY <3>2, <3>3
  <2>4. c = IF "balance" \in Modules THEN [record EXCEPT !.balances = TokenBalances(@, tx)]
            ELSE record
    BY <1>2, Zenon DEF ProcessToken
  <2>5. TokensMoved(b.balances, TokenBalances(b.balances, tx), tx.to, TokensOf(tx))
    BY <1>2, TokenFacts DEF WellFormedTx
  <2> HIDE DEF record
  <2>6. CASE "balance" \in Modules
    <3>1. c = [record EXCEPT !.balances = TokenBalances(b.balances, tx)]
      BY <2>3, <2>4, <2>6, Zenon
    <3>2. /\ DOMAIN c = BatchFields
          /\ c.put = b.put /\ c.deleted = b.deleted /\ c.cache = b.cache
          /\ c.common = b.common /\ c.tokens = record.tokens
          /\ c.balances = TokenBalances(b.balances, tx)
      BY <2>3, <3>1 DEF BatchFields
    <3>3. Balances(c.balances)
      BY <2>5, <3>2 DEF TokensMoved
    <3> QED
      BY <1>2, <2>3, <2>5, <2>6, <3>2, <3>3 DEF TokensDone
  <2>7. CASE "balance" \notin Modules
    <3>1. c = record
      BY <2>4, <2>7
    <3> QED
      BY <1>2, <2>3, <2>7, <3>1 DEF TokensDone
  <2> QED
    BY <2>6, <2>7
<1> QED
  BY <1>1, <1>2

\* Rows with the given address at place i of their pair.
RowsAt(F, i, w) == {d \in F : d.pair[i] = w}

LEMMA ValueFacts ==
    ASSUME NEW S, IsFiniteSet(S), \A d \in S : d.value \in Int
    PROVE  /\ ValueOf(S) \in Int
           /\ \A r \in S : ValueOf(S \ {r}) = ValueOf(S) - r.value
<1> DEFINE f == [d \in S |-> d.value]
<1>1. \A d \in S : f[d] \in Int /\ f[d] = d.value
  OBVIOUS
<1>2. ValueOf(S) = SumFunctionOnSet(f, S)
  BY DEF ValueOf
<1>3. ValueOf(S) \in Int
  <2> HIDE DEF f
  <2> QED
    BY <1>1, <1>2, SumType
<1>4. ASSUME NEW r \in S
      PROVE  ValueOf(S \ {r}) = ValueOf(S) - r.value
  <2> DEFINE T == S \ {r}
             g == [d \in T |-> d.value]
  <2>1. \A d \in T : f[d] \in Int /\ f[d] = g[d]
    OBVIOUS
  <2>2. IsFiniteSet(T)
    BY FS_Subset
  <2>3. ValueOf(T) = SumFunctionOnSet(g, T)
    BY DEF ValueOf
  <2> HIDE DEF f, g, T
  <2>4. SumFunctionOnSet(f, T) = SumFunctionOnSet(g, T)
    BY <2>1, <2>2, SumSame
  <2>5. SumFunctionOnSet(f, T) \in Int
    BY <2>1, <2>2, SumType
  <2>6. SumFunctionOnSet(f, S) = f[r] + SumFunctionOnSet(f, S \ {r})
    BY <1>1, SumWithout
  <2>7. f[r] = r.value /\ r.value \in Int
    BY <1>1
  <2>8. SumFunctionOnSet(f, S) = r.value + SumFunctionOnSet(f, T)
    BY <2>6, <2>7 DEF T
  <2>9. ValueOf(T) = ValueOf(S) - r.value
    BY <1>2, <1>3, <2>3, <2>4, <2>5, <2>7, <2>8
  <2> QED
    BY <2>9 DEF T
<1> QED
  BY <1>3, <1>4

\* The delegations of w as the one or the other of a pair are worth more by what
\* the transaction lends.
ValueGrows(F, G, i, w, tx, v) ==
    /\ ValueOf(RowsAt(F, i, w)) \in Int /\ v \in Int
    /\ ValueOf(RowsAt(G, i, w)) =
         ValueOf(RowsAt(F, i, w)) + (IF <<tx.from, tx.to>>[i] = w THEN v ELSE 0)

LEMMA ValueMoved ==
    ASSUME NEW F, NEW G, DelegateRows(F), DelegateRows(G), NEW tx \in Transaction, NEW id,
           NEW ok \in BOOLEAN, NEW value \in Nat, RowsMoved(F, G, tx, id, ok, value),
           NEW i \in {1, 2}, NEW w
    PROVE  ValueGrows(F, G, i, w, tx, Lent(tx, ok, value))
<1> DEFINE pair == <<tx.from, tx.to>>
           A == RowsAt(F, i, w)
           B == RowsAt(G, i, w)
           l == Lent(tx, ok, value)
<1>1. /\ IsFiniteSet(A) /\ IsFiniteSet(B)
      /\ \A d \in A : d.value \in Int
      /\ \A d \in B : d.value \in Int
  <2>1. A \subseteq F /\ B \subseteq G
    BY DEF RowsAt
  <2>2. IsFiniteSet(A) /\ IsFiniteSet(B)
    BY <2>1, FS_Subset DEF DelegateRows
  <2> HIDE DEF A, B
  <2> QED
    BY <2>1, <2>2 DEF DelegateRows
<1>2. /\ ValueOf(A) \in Int /\ ValueOf(B) \in Int
      /\ \A r \in A : ValueOf(A \ {r}) = ValueOf(A) - r.value
      /\ \A r \in B : ValueOf(B \ {r}) = ValueOf(B) - r.value
  <2> HIDE DEF A, B
  <2> QED
    BY <1>1, ValueFacts
<1>3. l \in Int
  BY TxFacts DEF Lent
<1>4. CASE tx.op = "delegate" /\ ok /\ Lends(F, G, tx, id)
  <2>1. PICK r : /\ G = F \cup {r} /\ r.pair = pair /\ r.value = tx.amount
                 /\ r.key \in Nat /\ \A d \in F : r.key < d.key
    BY <1>4 DEF Lends
  <2>2. l = r.value /\ r.value \in Int
    BY <1>4, <2>1, TxFacts DEF Lent
  <2>3. r \notin F
    BY <2>1
  <2> HIDE DEF pair, l, ValueGrows
  <2>4. CASE pair[i] = w
    <3>1. r \in B /\ A = B \ {r}
      BY <2>1, <2>3, <2>4 DEF RowsAt
    <3>2. ValueOf(A) = ValueOf(B) - r.value
      BY <1>2, <3>1
    <3>3. ValueOf(B) = ValueOf(A) + l
      <4> HIDE DEF A, B
      <4> QED
        BY <1>2, <2>2, <3>2
    <3> QED
      BY <1>2, <1>3, <2>4, <3>3 DEF pair, l, ValueGrows
  <2>5. CASE pair[i] # w
    <3>1. A = B
      BY <2>1, <2>5 DEF RowsAt
    <3> QED
      BY <1>2, <1>3, <2>5, <3>1 DEF pair, l, ValueGrows
  <2> QED
    BY <2>4, <2>5
<1>5. CASE tx.op = "undelegate" /\ ok
            /\ \E r \in F : G = F \ {r} /\ r.pair = pair /\ r.value = value
  <2>1. PICK r \in F : G = F \ {r} /\ r.pair = pair /\ r.value = value
    BY <1>5
  <2>2. l = 0 - r.value /\ r.value \in Int
    BY <1>5, <2>1 DEF Lent
  <2> HIDE DEF pair, l, ValueGrows
  <2>4. CASE pair[i] = w
    <3>1. r \in A /\ B = A \ {r}
      BY <2>1, <2>4 DEF RowsAt
    <3>2. ValueOf(B) = ValueOf(A) - r.value
      BY <1>2, <3>1
    <3>3. ValueOf(B) = ValueOf(A) + l
      <4> HIDE DEF A, B
      <4> QED
        BY <1>2, <2>2, <3>2
    <3> QED
      BY <1>2, <1>3, <2>4, <3>3 DEF pair, l, ValueGrows
  <2>5. CASE pair[i] # w
    <3>1. A = B
      BY <2>1, <2>5 DEF RowsAt
    <3> QED
      BY <1>2, <1>3, <2>5, <3>1 DEF pair, l, ValueGrows
  <2> QED
    BY <2>4, <2>5
<1>6. CASE G = F /\ l = 0
  <2> HIDE DEF pair, l, ValueGrows
  <2>1. ValueOf(B) = ValueOf(A) + (IF pair[i] = w THEN l ELSE 0)
    BY <1>2, <1>6
  <2> QED
    BY <1>2, <1>3, <2>1 DEF pair, l, ValueGrows
<1>7. \/ tx.op = "delegate" /\ ok /\ Lends(F, G, tx, id)
      \/ /\ tx.op = "undelegate" /\ ok
         /\ \E r \in F : G = F \ {r} /\ r.pair = pair /\ r.value = value
      \/ G = F /\ l = 0
  BY Zenon DEF RowsMoved
<1> QED
  BY <1>4, <1>5, <1>6, <1>7

\* z is what the balances x and y are together.
Summed(x, y, z) ==
    /\ z \in Balance
    /\ Moved(x.balance, z.balance, Net(y.balance))
    /\ Moved(x.delegate, z.delegate, Net(y.delegate))
    /\ Moved(x.delegated, z.delegated, Net(y.delegated))
    /\ z.countSpent = x.countSpent + y.countSpent
    /\ z.blockNumber = IF x.blockNumber >= y.blockNumber THEN x.blockNumber ELSE y.blockNumber
    /\ Same(z.reserved, x.reserved + y.reserved)
    /\ Same(z.forged, x.forged + y.forged)
    /\ \A t \in Token : Moved(x.tokens[t], z.tokens[t], Net(y.tokens[t]))

LEMMA SummedPlus ==
    ASSUME NEW x \in Balance, NEW y \in Balance
    PROVE  Summed(x, y, Plus(x, y))
<1> DEFINE z == Plus(x, y)
<1>1. /\ x.balance \in Element /\ x.delegate \in Element /\ x.delegated \in Element
      /\ x.countSpent \in Nat /\ x.blockNumber \in Nat /\ x.reserved \in Nat /\ x.forged \in Nat
      /\ x.tokens \in [Token -> Element]
  BY BalanceFacts
<1>2. /\ y.balance \in Element /\ y.delegate \in Element /\ y.delegated \in Element
      /\ y.countSpent \in Nat /\ y.blockNumber \in Nat /\ y.reserved \in Nat /\ y.forged \in Nat
      /\ y.tokens \in [Token -> Element]
  BY BalanceFacts
<1> DEFINE n == Max({x.blockNumber, y.blockNumber})
           r == (x.reserved + y.reserved) % Modulus
           f == (x.forged + y.forged) % Modulus
           tokens == [t \in Token |-> PlusElement(x.tokens[t], y.tokens[t])]
           b == PlusElement(x.balance, y.balance)
           l == PlusDelegate(x.delegate, y.delegate)
           g == PlusElement(x.delegated, y.delegated)
           c == x.countSpent + y.countSpent
<1>3. n = IF x.blockNumber >= y.blockNumber THEN x.blockNumber ELSE y.blockNumber
  BY <1>1, <1>2, MaxOfTwo
<1>4. r \in 0..(Modulus - 1) /\ Same(r, x.reserved + y.reserved)
  BY <1>1, <1>2, RemainderSame
<1>5. f \in 0..(Modulus - 1) /\ Same(f, x.forged + y.forged)
  BY <1>1, <1>2, RemainderSame
<1>6. \A t \in Token : tokens[t] \in Element /\ Moved(x.tokens[t], tokens[t], Net(y.tokens[t]))
  <2> TAKE t \in Token
  <2>1. x.tokens[t] \in Element /\ y.tokens[t] \in Element
    BY <1>1, <1>2
  <2>2. tokens[t] = PlusElement(x.tokens[t], y.tokens[t])
    OBVIOUS
  <2>3. Moved(x.tokens[t], PlusElement(x.tokens[t], y.tokens[t]), Net(y.tokens[t]))
    BY <2>1, MovedPlus
  <2> QED
    BY <2>2, <2>3 DEF Moved
<1>7. /\ Moved(x.balance, b, Net(y.balance))
      /\ Moved(x.delegate, l, Net(y.delegate))
      /\ Moved(x.delegated, g, Net(y.delegated))
  BY <1>1, <1>2, MovedPlus
<1>8. b \in Element /\ l \in Element /\ g \in Element
  BY <1>7 DEF Moved
<1>9. z = [balance |-> b, countSpent |-> c, blockNumber |-> n, delegate |-> l, delegated |-> g,
           reserved |-> r, forged |-> f, tokens |-> tokens]
  BY DEF Plus
<1>10. tokens \in [Token -> Element]
  BY <1>6
<1>11. c \in Nat /\ n \in Nat
  BY <1>1, <1>2, <1>3
<1> HIDE DEF z, b, l, g, r, f, tokens, n
<1>12. /\ z \in Balance /\ z.balance = b /\ z.delegate = l /\ z.delegated = g /\ z.countSpent = c
       /\ z.blockNumber = n /\ z.reserved = r /\ z.forged = f /\ z.tokens = tokens
  <2> HIDE DEF c
  <2> QED
    BY <1>4, <1>5, <1>8, <1>9, <1>10, <1>11 DEF Balance
<1> QED
  BY <1>3, <1>4, <1>5, <1>6, <1>7, <1>12 DEF Summed, z

LEMMA SummedNothing ==
    ASSUME NEW x \in Balance
    PROVE  Summed(x, ZeroBalance, x)
<1>1. /\ x.balance \in Element /\ x.delegate \in Element /\ x.delegated \in Element
      /\ x.countSpent \in Nat /\ x.blockNumber \in Nat /\ x.reserved \in Nat /\ x.forged \in Nat
      /\ x.tokens \in [Token -> Element]
  BY BalanceFacts
<1>2. /\ ZeroBalance.balance = ZeroElement /\ ZeroBalance.delegate = ZeroElement
      /\ ZeroBalance.delegated = ZeroElement /\ ZeroBalance.countSpent = 0
      /\ ZeroBalance.blockNumber = 0 /\ ZeroBalance.reserved = 0 /\ ZeroBalance.forged = 0
      /\ \A t \in Token : ZeroBalance.tokens[t] = ZeroElement
  BY DEF ZeroBalance
<1>3. Net(ZeroElement) = 0
  BY ZeroFacts
<1>4. /\ Moved(x.balance, x.balance, 0) /\ Moved(x.delegate, x.delegate, 0)
      /\ Moved(x.delegated, x.delegated, 0)
      /\ \A t \in Token : Moved(x.tokens[t], x.tokens[t], 0)
  BY <1>1, MovedNothing
<1>5. Same(x.reserved, x.reserved + 0) /\ Same(x.forged, x.forged + 0)
      /\ x.countSpent = x.countSpent + 0 /\ x.blockNumber >= 0
  BY <1>1, SameAgain
<1> QED
  BY <1>1, <1>2, <1>3, <1>4, <1>5 DEF Summed

\* What Save writes are the balances before and those of the block.
LEMMA SavedBalances ==
    ASSUME Balances(db.balances), Balances(batch.balances), working \in Nat,
           \A w \in Wallet : BalanceIn(db.balances, w).blockNumber < working
    PROVE  /\ Balances(NewBalances)
           /\ \A w \in Wallet : Summed(BalanceIn(db.balances, w), BalanceIn(batch.balances, w),
                                       BalanceIn(NewBalances, w))
<1> DEFINE f == db.balances
           g == batch.balances
           h == NewBalances
<1>1. /\ DOMAIN h = DOMAIN f \cup DOMAIN g
      /\ \A w \in DOMAIN h : h[w] = IF w \in DOMAIN g /\ BalanceIn(f, w).blockNumber < working
                                    THEN Plus(BalanceIn(f, w), g[w]) ELSE BalanceIn(f, w)
  BY DEF NewBalances
<1>2. DOMAIN h \subseteq Wallet
  BY <1>1 DEF Balances
<1> HIDE DEF h
<1>3. ASSUME NEW w \in Wallet
      PROVE  Summed(BalanceIn(f, w), BalanceIn(g, w), BalanceIn(h, w))
  <2>1. BalanceIn(f, w) \in Balance /\ BalanceIn(g, w) \in Balance
    BY DEF Balances
  <2>2. CASE w \in DOMAIN g
    <3>1. BalanceIn(h, w) = Plus(BalanceIn(f, w), BalanceIn(g, w))
      BY <1>1, <2>2 DEF BalanceIn
    <3> QED
      BY <2>1, <3>1, SummedPlus
  <2>3. CASE w \notin DOMAIN g
    <3>1. BalanceIn(g, w) = ZeroBalance
      BY <2>3 DEF BalanceIn
    <3>2. BalanceIn(h, w) = BalanceIn(f, w)
      BY <1>1, <2>3 DEF BalanceIn
    <3> QED
      BY <2>1, <3>1, <3>2, SummedNothing
  <2> QED
    BY <2>2, <2>3
<1>4. \A w \in Wallet : BalanceIn(h, w) \in Balance
  BY <1>3 DEF Summed
<1> QED
  BY <1>2, <1>3, <1>4 DEF Balances, h

\* What a transaction does to the balance of a wallet, from y to z.
WalletMoved(y, z, tx, w, n, isForging, ok, value) ==
    LET lent == Lent(tx, ok, value)
        out == IF tx.from = w THEN 0 - lent ELSE 0
        counts == tx.status # "nodeTest"
    IN  /\ z \in Balance
        /\ Moved(y.balance, z.balance,
                 (IF counts THEN Paid(tx, w) + Got(tx, w) ELSE 0) + out)
        /\ Moved(y.delegate, z.delegate, out)
        /\ Moved(y.delegated, z.delegated, IF tx.to = w THEN lent ELSE 0)
        /\ z.reserved = y.reserved
        /\ z.countSpent = y.countSpent + (IF counts /\ tx.from = w THEN 1 ELSE 0)
        /\ z.blockNumber = y.blockNumber \/ z.blockNumber = n
        /\ Same(z.forged, y.forged + (IF counts THEN Forged(tx, w, isForging) ELSE 0))
        /\ \A t \in Token : Moved(y.tokens[t], z.tokens[t],
                                  IF tx.op \in TokenOps /\ tx.to = t THEN TokensOf(tx)[w] ELSE 0)

\* ProcessMoney, then ProcessToken.
LEMMA WalletStep ==
    ASSUME "balance" \in Modules, NEW D, NEW b, NEW m, NEW c, Balances(b.balances),
           NEW tx \in Transaction, WellFormedTx(tx), NEW id, id[1] \in Nat, NEW isForging,
           NEW ok \in BOOLEAN, NEW value \in Nat,
           MoneyDone(D, b, m, tx, id, isForging, ok, value), TokensDone(m, c, tx),
           NEW w \in Wallet
    PROVE  WalletMoved(BalanceIn(b.balances, w), BalanceIn(c.balances, w), tx, w, id[1],
                       isForging, ok, value)
<1> DEFINE x == BalanceIn(b.balances, w)
           y == BalanceIn(m.balances, w)
           z == BalanceIn(c.balances, w)
           n == id[1]
           lent == Lent(tx, ok, value)
           out == IF tx.from = w THEN 0 - lent ELSE 0
           in == IF tx.to = w THEN lent ELSE 0
           counts == tx.status # "nodeTest"
           G == IF counts THEN Paid(tx, w) + Got(tx, w) ELSE 0
           forged == IF counts THEN Forged(tx, w, isForging) ELSE 0
           v == [t \in Token |-> IF tx.op \in TokenOps /\ tx.to = t THEN TokensOf(tx)[w] ELSE 0]
<1>1. x \in Balance /\ y \in Balance /\ z \in Balance
  BY DEF Balances, MoneyDone, MoneyMoved, TokensDone
<1>2. /\ x.balance \in Element /\ x.delegate \in Element /\ x.delegated \in Element
      /\ x.countSpent \in Nat /\ x.forged \in Nat /\ x.tokens \in [Token -> Element]
  BY <1>1, BalanceFacts
<1>3. y = IF counts /\ w \in {tx.from, tx.to} THEN MoneyOf(x, tx, w, n, isForging, ok, value)
          ELSE x
  <2>1. Touches(tx, w) <=> counts
    BY LedgerAssumption DEF Touches
  <2> QED
    BY <2>1, Zenon DEF MoneyDone, MoneyMoved
<1> HIDE DEF x, y, z, n
<1>4. /\ Moved(x.balance, y.balance, G + out) /\ Moved(x.delegate, y.delegate, out)
      /\ Moved(x.delegated, y.delegated, in) /\ y.reserved = x.reserved
      /\ y.countSpent = x.countSpent + (IF counts /\ tx.from = w THEN 1 ELSE 0)
      /\ y.blockNumber = x.blockNumber \/ y.blockNumber = n
      /\ Same(y.forged, x.forged + forged)
      /\ y.tokens = x.tokens
  <2>1. CASE counts /\ w \in {tx.from, tx.to}
    <3>1. y = MoneyOf(x, tx, w, n, isForging, ok, value)
      BY <1>3, <2>1
    <3>2. n \in Nat
      BY DEF n
    <3>3. /\ Moved(x.balance, y.balance, (Paid(tx, w) + Got(tx, w)) + out)
          /\ Moved(x.delegate, y.delegate, out)
          /\ Moved(x.delegated, y.delegated, in)
          /\ y.reserved = x.reserved
          /\ y.countSpent = x.countSpent + (IF tx.from = w THEN 1 ELSE 0)
          /\ y.blockNumber = (IF x.blockNumber >= n THEN x.blockNumber ELSE n)
          /\ y.tokens = x.tokens
          /\ Same(y.forged, x.forged + Forged(tx, w, isForging))
      <4>1. MoneyDelta(x, y, tx, w, n, isForging, ok, value)
        BY <1>1, <3>1, <3>2, MoneyFacts
      <4> QED
        BY <4>1, Zenon DEF MoneyDelta
    <3> QED
      BY <2>1, <3>3, Zenon
  <2>2. CASE ~(counts /\ w \in {tx.from, tx.to})
    <3>1. y = x
      BY <1>3, <2>2
    <3>2. out = 0 /\ in = 0 /\ G = 0 /\ forged = 0
      <4>1. CASE ~counts
        <5>1. lent = 0
          BY <4>1 DEF WellFormedTx, Lent
        <5> QED
          BY <4>1, <5>1
      <4>2. CASE w \notin {tx.from, tx.to}
        <5>1. Paid(tx, w) = 0 /\ Got(tx, w) = 0 /\ Forged(tx, w, isForging) = 0
          BY <4>2, Zenon DEF Paid, Got, Forged
        <5> QED
          BY <4>2, <5>1
      <4> QED
        BY <2>2, <4>1, <4>2
    <3>3. Moved(x.balance, x.balance, 0) /\ Moved(x.delegate, x.delegate, 0)
          /\ Moved(x.delegated, x.delegated, 0)
      BY <1>2, MovedNothing
    <3>4. Same(x.forged, x.forged + 0) /\ x.countSpent = x.countSpent + 0
      BY <1>2, SameAgain
    <3>5. ~(counts /\ tx.from = w)
      BY <2>2
    <3> HIDE DEF out, in, G, forged
    <3> QED
      BY <3>1, <3>2, <3>3, <3>4, <3>5
  <2> QED
    BY <2>1, <2>2
<1>5. /\ z.balance = y.balance /\ z.delegate = y.delegate /\ z.delegated = y.delegated
      /\ z.countSpent = y.countSpent /\ z.blockNumber = y.blockNumber
      /\ z.reserved = y.reserved /\ z.forged = y.forged
      /\ \A t \in Token : Moved(y.tokens[t], z.tokens[t], v[t])
  <2>1. \A t \in Token : Moved(y.tokens[t], y.tokens[t], 0)
    BY <1>2, <1>4, MovedNothing
  <2>2. CASE tx.op \in TokenOps
    <3>1. TokenMoved(y, z, tx.to, TokensOf(tx)[w])
      BY <2>2 DEF TokensDone, TokensMoved, y, z
    <3>2. tx.to \in Token
      BY <2>2 DEF WellFormedTx
    <3>3. \A t \in Token : Moved(y.tokens[t], z.tokens[t], v[t])
      <4> TAKE t \in Token
      <4>1. CASE t = tx.to
        BY <2>2, <3>1, <4>1 DEF TokenMoved
      <4>2. CASE t # tx.to
        <5>1. z.tokens[t] = y.tokens[t] /\ v[t] = 0
          BY <3>1, <4>2 DEF TokenMoved
        <5> QED
          BY <2>1, <5>1
      <4> QED
        BY <4>1, <4>2
    <3> QED
      BY <3>1, <3>3 DEF TokenMoved
  <2>3. CASE tx.op \notin TokenOps
    <3>1. c.balances = m.balances
      BY <2>3 DEF TokensDone
    <3>2. z = y
      BY <3>1 DEF y, z
    <3>3. \A t \in Token : v[t] = 0
      BY <2>3
    <3> QED
      BY <2>1, <3>2, <3>3
  <2> QED
    BY <2>2, <2>3
<1>6. \A t \in Token : Moved(x.tokens[t], z.tokens[t],
                             IF tx.op \in TokenOps /\ tx.to = t THEN TokensOf(tx)[w] ELSE 0)
  BY <1>4, <1>5
<1>7. /\ Moved(x.balance, z.balance, G + out) /\ Moved(x.delegate, z.delegate, out)
      /\ Moved(x.delegated, z.delegated, in) /\ z.reserved = x.reserved
      /\ z.countSpent = x.countSpent + (IF counts /\ tx.from = w THEN 1 ELSE 0)
      /\ z.blockNumber = x.blockNumber \/ z.blockNumber = n
      /\ Same(z.forged, x.forged + forged)
  <2> HIDE DEF out, in, G, forged, counts
  <2> QED
    BY <1>4, <1>5
<1>8. WalletMoved(x, z, tx, w, n, isForging, ok, value)
  BY <1>1, <1>6, <1>7, Zenon DEF WalletMoved
<1> QED
  BY <1>8 DEF x, z, n

LEMMA SameSum ==
    ASSUME NEW a \in Int, NEW b \in Int, NEW c \in Int, NEW d \in Int, Same(a, b), Same(c, d)
    PROVE  Same(a + c, b + d) /\ Same(a - c, b - d)
<1>1. PICK i \in Multiples : i = a - b
  BY DEF Same
<1>2. PICK j \in Multiples : j = c - d
  BY DEF Same
<1>3. i \in Int /\ j \in Int /\ i + j \in Multiples /\ i - j \in Multiples
  BY MultiplesClosed
<1>4. (a + c) - (b + d) = i + j /\ (a - c) - (b - d) = i - j
  BY <1>1, <1>2, <1>3
<1> QED
  BY <1>3, <1>4 DEF Same

\* The balances x and y together say what the rows F say of w.
BackedFor(F, x, y, w) ==
    /\ x.reserved = 0 /\ y.reserved = 0
    /\ Same(0 - (Net(x.delegate) + Net(y.delegate)), ValueOf(RowsAt(F, 1, w)))
    /\ Same(Net(x.delegated) + Net(y.delegated), ValueOf(RowsAt(F, 2, w)))

LEMMA BackedTx ==
    ASSUME NEW F, NEW G, DelegateRows(F), DelegateRows(G), NEW tx \in Transaction, NEW id,
           NEW ok \in BOOLEAN, NEW value \in Nat, RowsMoved(F, G, tx, id, ok, value),
           NEW w, NEW x \in Balance, NEW y \in Balance, NEW z, NEW n, NEW isForging,
           WalletMoved(y, z, tx, w, n, isForging, ok, value), BackedFor(F, x, y, w)
    PROVE  BackedFor(G, x, z, w)
<1> DEFINE lent == Lent(tx, ok, value)
           out == IF tx.from = w THEN 0 - lent ELSE 0
           in == IF tx.to = w THEN lent ELSE 0
           V == ValueOf(RowsAt(F, 1, w))
           W == ValueOf(RowsAt(F, 2, w))
           V1 == ValueOf(RowsAt(G, 1, w))
           W1 == ValueOf(RowsAt(G, 2, w))
<1>1. V \in Int /\ lent \in Int /\ V1 = V + (IF tx.from = w THEN lent ELSE 0)
  <2>1. <<tx.from, tx.to>>[1] = tx.from /\ 1 \in {1, 2}
    OBVIOUS
  <2>2. ValueGrows(F, G, 1, w, tx, lent)
    BY <2>1, ValueMoved
  <2> QED
    BY <2>1, <2>2 DEF ValueGrows
<1>2. W \in Int /\ W1 = W + in
  <2>1. <<tx.from, tx.to>>[2] = tx.to /\ 2 \in {1, 2}
    OBVIOUS
  <2>2. ValueGrows(F, G, 2, w, tx, lent)
    BY <2>1, ValueMoved
  <2> QED
    BY <2>1, <2>2 DEF ValueGrows
<1> HIDE DEF lent
<1>3. out \in Int /\ in \in Int /\ V1 = V - out
  <2> HIDE DEF V, V1
  <2> QED
    BY <1>1
<1>4. /\ Moved(y.delegate, z.delegate, out) /\ Moved(y.delegated, z.delegated, in)
      /\ z.reserved = y.reserved
  BY Zenon DEF WalletMoved, lent
<1> HIDE DEF out, in, V, W, V1, W1
<1> DEFINE a == Net(x.delegate)
           b == Net(y.delegate)
           c == Net(z.delegate)
           d == Net(x.delegated)
           e == Net(y.delegated)
           f == Net(z.delegated)
<1>5. a \in Int /\ b \in Int /\ c \in Int /\ d \in Int /\ e \in Int /\ f \in Int
  <2>1. x.delegate \in Element /\ y.delegate \in Element /\ x.delegated \in Element
        /\ y.delegated \in Element
    BY BalanceFacts
  <2>2. z.delegate \in Element /\ z.delegated \in Element
    BY <1>4 DEF Moved
  <2> QED
    BY <2>1, <2>2, ElementFacts
<1>6. Same(c, b + out) /\ Same(f, e + in)
  BY <1>4 DEF Moved
<1>7. /\ x.reserved = 0 /\ y.reserved = 0
      /\ Same(0 - (a + b), V) /\ Same(d + e, W)
  BY DEF BackedFor, V, W
<1> HIDE DEF a, b, c, d, e, f
<1>8. Same(0 - (a + c), V1)
  <2>1. 0 - (a + b) \in Int /\ b + out \in Int
    BY <1>3, <1>5
  <2>2. Same((0 - (a + b)) - c, V - (b + out))
    BY <1>1, <1>5, <1>6, <1>7, <2>1, SameSum
  <2>3. ((0 - (a + b)) - c) - (V - (b + out)) = (0 - (a + c)) - V1
    BY <1>1, <1>3, <1>5
  <2> QED
    BY <2>2, <2>3 DEF Same
<1>9. Same(d + f, W1)
  <2>1. d + e \in Int /\ e + in \in Int
    BY <1>3, <1>5
  <2>2. Same((d + e) + f, W + (e + in))
    BY <1>2, <1>5, <1>6, <1>7, <2>1, SameSum
  <2>3. ((d + e) + f) - (W + (e + in)) = (d + f) - W1
    BY <1>2, <1>3, <1>5
  <2> QED
    BY <2>2, <2>3 DEF Same
<1> QED
  BY <1>4, <1>7, <1>8, <1>9 DEF BackedFor, V1, W1, a, c, d, f

LEMMA BackedSaved ==
    ASSUME NEW F, DelegateRows(F), NEW w, NEW x \in Balance, NEW y \in Balance, NEW z,
           Summed(x, y, z), BackedFor(F, x, y, w)
    PROVE  BackedFor(F, z, ZeroBalance, w)
<1> DEFINE V == ValueOf(RowsAt(F, 1, w))
           W == ValueOf(RowsAt(F, 2, w))
           a == Net(x.delegate)
           b == Net(y.delegate)
           c == Net(z.delegate)
           d == Net(x.delegated)
           e == Net(y.delegated)
           f == Net(z.delegated)
<1>1. V \in Int /\ W \in Int
  <2>1. \A i : RowsAt(F, i, w) \subseteq F
    BY DEF RowsAt
  <2>2. \A i : IsFiniteSet(RowsAt(F, i, w)) /\ \A r \in RowsAt(F, i, w) : r.value \in Int
    BY <2>1, FS_Subset DEF DelegateRows
  <2> QED
    BY <2>2, ValueFacts
<1>2. /\ z \in Balance /\ Moved(x.delegate, z.delegate, b) /\ Moved(x.delegated, z.delegated, e)
      /\ Same(z.reserved, x.reserved + y.reserved)
  BY DEF Summed
<1>3. a \in Int /\ b \in Int /\ c \in Int /\ d \in Int /\ e \in Int /\ f \in Int
  <2>1. x.delegate \in Element /\ y.delegate \in Element /\ x.delegated \in Element
        /\ y.delegated \in Element /\ z.delegate \in Element /\ z.delegated \in Element
    BY <1>2, BalanceFacts
  <2> QED
    BY <2>1, ElementFacts
<1>4. Same(c, a + b) /\ Same(f, d + e)
  BY <1>2 DEF Moved
<1>5. /\ x.reserved = 0 /\ y.reserved = 0
      /\ Same(0 - (a + b), V) /\ Same(d + e, W)
  BY DEF BackedFor
<1>6. z.reserved = 0
  <2>1. 0 \in 0..(Modulus - 1) /\ z.reserved \in 0..(Modulus - 1)
    <3>1. z.reserved \in 0..(Modulus - 1)
      BY <1>2, BalanceFacts
    <3>2. Modulus \in Nat \ {0}
      BY LedgerAssumption
    <3> QED
      BY <3>1, <3>2
  <2>2. Same(z.reserved, 0)
    BY <1>2, <1>5
  <2> QED
    BY <2>1, <2>2, RemaindersUnique
<1>7. ZeroBalance.reserved = 0 /\ Net(ZeroBalance.delegate) = 0 /\ Net(ZeroBalance.delegated) = 0
  BY ZeroFacts DEF ZeroBalance
<1> HIDE DEF a, b, c, d, e, f, V, W
<1>8. Same(0 - (c + 0), V)
  <2>1. 0 - (a + b) \in Int /\ a + b \in Int
    BY <1>3
  <2>2. Same((0 - (a + b)) - c, V - (a + b))
    BY <1>1, <1>3, <1>4, <1>5, <2>1, SameSum
  <2>3. ((0 - (a + b)) - c) - (V - (a + b)) = (0 - (c + 0)) - V
    BY <1>1, <1>3
  <2> QED
    BY <2>2, <2>3 DEF Same
<1>9. Same(f + 0, W)
  <2>1. d + e \in Int
    BY <1>3
  <2>2. Same((d + e) + f, W + (d + e))
    BY <1>1, <1>3, <1>4, <1>5, <2>1, SameSum
  <2>3. ((d + e) + f) - (W + (d + e)) = (f + 0) - W
    BY <1>1, <1>3
  <2> QED
    BY <2>2, <2>3 DEF Same
<1> QED
  BY <1>6, <1>7, <1>8, <1>9 DEF BackedFor, c, f, V, W

\* The records of the tokens after an operation on one.
RecordsAfter(f, tx) == TokenRecord([tokens |-> f], tx).tokens

LEMMA RecordsSame ==
    ASSUME NEW b, DOMAIN b = BatchFields, NEW tx
    PROVE  TokenRecord(b, tx).tokens = RecordsAfter(b.tokens, tx)
<1> DEFINE a == [tokens |-> b.tokens]
<1>1. a.tokens = b.tokens /\ "tokens" \in DOMAIN a /\ "tokens" \in DOMAIN b
  BY DEF BatchFields
<1>2. \A v : [a EXCEPT !.tokens = v].tokens = v /\ [b EXCEPT !.tokens = v].tokens = v
  BY <1>1
<1> HIDE DEF a
<1>3. \A t, field, value :
        SetTokenRecord(a, t, field, value).tokens = SetTokenRecord(b, t, field, value).tokens
  <2> TAKE t, field, value
  <2> DEFINE v == Store(b.tokens, t, [db.tokens[t] EXCEPT ![field] = value])
  <2>1. CASE t \in DOMAIN db.tokens
    <3>1. /\ SetTokenRecord(a, t, field, value) = [a EXCEPT !.tokens = v]
          /\ SetTokenRecord(b, t, field, value) = [b EXCEPT !.tokens = v]
      BY <1>1, <2>1, Zenon DEF SetTokenRecord
    <3> HIDE DEF v
    <3> QED
      BY <1>2, <3>1
  <2>2. CASE t \notin DOMAIN db.tokens
    BY <1>1, <2>2, Zenon DEF SetTokenRecord
  <2> QED
    BY <2>1, <2>2
<1>4. TokenRecord(a, tx).tokens = TokenRecord(b, tx).tokens
  <2>1. CASE tx.op = "create"
    <3> DEFINE v == Store(b.tokens, tx.to, [owner |-> tx.target, allValue |-> tx.amount])
    <3>1. /\ TokenRecord(a, tx) = [a EXCEPT !.tokens = v]
          /\ TokenRecord(b, tx) = [b EXCEPT !.tokens = v]
      BY <1>1, <2>1 DEF TokenRecord
    <3> HIDE DEF v
    <3> QED
      BY <1>2, <3>1
  <2>2. CASE tx.op = "owner"
    BY <1>3, <2>2 DEF TokenRecord
  <2>3. CASE tx.op = "add"
    BY <1>3, <2>3 DEF TokenRecord
  <2>4. CASE tx.op = "burn"
    BY <1>3, <2>4 DEF TokenRecord
  <2>5. CASE tx.op \notin {"create", "owner", "add", "burn"}
    BY <1>1, <2>5 DEF TokenRecord
  <2> QED
    BY <2>1, <2>2, <2>3, <2>4, <2>5
<1> QED
  BY <1>4 DEF RecordsAfter, a

\* Money enters circulation with a transaction of block n.
Mints(tx, n, isForging) ==
    "block" \in Modules /\ db.common.blockNumber < n /\ (tx.from = InitialWallet \/ isForging)

\* A transaction goes through ProcessTx.
TxDone(b, c, tx, id, isForging, ok, value) ==
    /\ BatchRows(db.delegates, c)
    /\ RowsMoved(InForce(db.delegates, b), InForce(db.delegates, c), tx, id, ok, value)
    /\ Balances(c.balances)
    /\ "balance" \in Modules =>
         \A w \in Wallet : WalletMoved(BalanceIn(b.balances, w), BalanceIn(c.balances, w), tx, w,
                                      id[1], isForging, ok, value)
    /\ "balance" \notin Modules => c.balances = b.balances
    /\ c.tokens = IF "txs" \in Modules /\ ~NotSuccess(tx) /\ tx.op \in TokenOps
                  THEN RecordsAfter(b.tokens, tx) ELSE b.tokens
    /\ c.common = IF Mints(tx, id[1], isForging)
                  THEN [money |-> (b.common.money + tx.value) % Modulus, blockNumber |-> id[1]]
                  ELSE b.common
    /\ Modules \cap {"balance", "txs", "addr_txs"} # {} =>
          /\ tx.op = "delegate" => ok = ~NotSuccess(tx)
          /\ tx.op = "undelegate" => ok

LEMMA TxStep ==
    ASSUME NEW b, IsBatch(b), NEW tx \in Transaction, WellFormedTx(tx), KeysFor(tx) <= b.count,
           BatchRows(db.delegates, b), Balances(b.balances),
           NEW id, id[1] \in Nat, NEW isForging, NEW c, c = ProcessTx(b, tx, id, isForging)
    PROVE  \E ok \in BOOLEAN, value \in Nat : TxDone(b, c, tx, id, isForging, ok, value)
<1> DEFINE D == db.delegates
           k == Len(TokenRows(tx))
<1>1. PICK m : m = ProcessMoney(b, tx, id, isForging)
  OBVIOUS
<1>2. PICK d : d = ProcessToken(m, tx, id)
  OBVIOUS
<1>3. k \in Nat /\ b.count \in Int /\ b.count >= 3 + k /\ b.count >= 3
  BY TokenRowsType DEF IsBatch, KeysFor
<1>4. PICK ok \in BOOLEAN, value \in Nat : MoneyDone(D, b, m, tx, id, isForging, ok, value)
  BY <1>1, <1>3, MoneyStep
<1>5. DOMAIN m = BatchFields /\ m.count \in (b.count - 3)..b.count
  <2>1. Adds(b, m, ListedFor(tx), id, 3)
    BY <1>1, <1>3, AddsMoney
  <2> QED
    BY <2>1, Zenon DEF Adds
<1>6. IsBatch(m) /\ k <= m.count /\ m.count \in Int
  <2>1. CounterModulus \in Nat
    BY LedgerAssumption
  <2> HIDE DEF k
  <2> QED
    BY <1>3, <1>5, <2>1 DEF IsBatch
<1>7. d.count \in (m.count - k)..m.count
  <2>1. Adds(m, d, {}, id, k)
    BY <1>2, <1>6, AddsToken
  <2> QED
    BY <2>1, Zenon DEF Adds
<1>8. TokensDone(m, d, tx)
  <2>1. Balances(m.balances)
    BY <1>4 DEF MoneyDone, MoneyMoved
  <2> QED
    BY <1>2, <1>5, <2>1, TokenStep
<1>9. c = IF Mints(tx, id[1], isForging)
          THEN [d EXCEPT !.common = [money |-> (@.money + tx.value) % Modulus,
                                     blockNumber |-> id[1]]]
          ELSE d
  BY <1>1, <1>2, Zenon DEF ProcessTx, ProcessCommon, Mints
<1>10. DOMAIN d = BatchFields /\ d.common = b.common
  BY <1>4, <1>8 DEF TokensDone, MoneyDone
<1>11. /\ c.put = d.put /\ c.deleted = d.deleted /\ c.cache = d.cache /\ c.count = d.count
       /\ c.tokens = d.tokens /\ c.balances = d.balances
       /\ c.common = IF Mints(tx, id[1], isForging)
                     THEN [money |-> (b.common.money + tx.value) % Modulus,
                           blockNumber |-> id[1]]
                     ELSE b.common
  <2>1. CASE Mints(tx, id[1], isForging)
    <3> DEFINE new == [money |-> (d.common.money + tx.value) % Modulus, blockNumber |-> id[1]]
    <3>1. c = [d EXCEPT !.common = new]
      BY <1>9, <2>1
    <3>2. new = [money |-> (b.common.money + tx.value) % Modulus, blockNumber |-> id[1]]
      BY <1>10
    <3> HIDE DEF new
    <3> QED
      BY <1>10, <2>1, <3>1, <3>2 DEF BatchFields
  <2>2. CASE ~Mints(tx, id[1], isForging)
    BY <1>9, <1>10, <2>2
  <2> QED
    BY <2>1, <2>2
<1>12. BatchRows(D, c) /\ InForce(D, c) = InForce(D, m)
  <2>1. c.put = m.put /\ c.deleted = m.deleted /\ c.cache = m.cache
    BY <1>8, <1>11 DEF TokensDone
  <2>2. c.count \in Int /\ c.count <= m.count
    <3> HIDE DEF k
    <3> QED
      BY <1>3, <1>6, <1>7, <1>11
  <2>3. BatchRows(D, m)
    BY <1>4 DEF MoneyDone
  <2> HIDE DEF D
  <2> QED
    BY <1>6, <2>1, <2>2, <2>3, BatchRowsKept
<1>13. RowsMoved(InForce(D, b), InForce(D, c), tx, id, ok, value)
  BY <1>4, <1>12 DEF MoneyDone
<1>14. Balances(c.balances)
  BY <1>8, <1>11 DEF TokensDone
<1>15. /\ "balance" \in Modules =>
            \A w \in Wallet : WalletMoved(BalanceIn(b.balances, w), BalanceIn(c.balances, w), tx,
                                         w, id[1], isForging, ok, value)
       /\ "balance" \notin Modules => c.balances = b.balances
  <2>1. ASSUME "balance" \in Modules, NEW w \in Wallet
        PROVE  WalletMoved(BalanceIn(b.balances, w), BalanceIn(c.balances, w), tx, w, id[1],
                           isForging, ok, value)
    <3>1. WalletMoved(BalanceIn(b.balances, w), BalanceIn(d.balances, w), tx, w, id[1],
                      isForging, ok, value)
      BY <1>4, <1>8, <2>1, WalletStep
    <3> QED
      BY <1>11, <3>1
  <2>2. CASE "balance" \notin Modules
    <3>1. m.balances = b.balances
      BY <1>4, <2>2, Zenon DEF MoneyDone, MoneyMoved
    <3>2. d.balances = m.balances
      BY <1>8, <2>2 DEF TokensDone
    <3> QED
      BY <1>11, <2>2, <3>1, <3>2
  <2> QED
    BY <2>1, <2>2
<1>16. c.tokens = IF "txs" \in Modules /\ ~NotSuccess(tx) /\ tx.op \in TokenOps
                  THEN RecordsAfter(b.tokens, tx) ELSE b.tokens
  <2>1. TokenRecord(m, tx).tokens = RecordsAfter(m.tokens, tx)
    BY <1>5, RecordsSame
  <2>2. m.tokens = b.tokens
    BY <1>4 DEF MoneyDone
  <2> QED
    BY <1>8, <1>11, <2>1, <2>2 DEF TokensDone
<1>17. Modules \cap {"balance", "txs", "addr_txs"} # {} =>
          /\ tx.op = "delegate" => ok = ~NotSuccess(tx)
          /\ tx.op = "undelegate" => ok
  BY <1>4, Zenon DEF MoneyDone
<1>18. TxDone(b, c, tx, id, isForging, ok, value)
  BY <1>11, <1>12, <1>13, <1>14, <1>15, <1>16, <1>17, Zenon DEF TxDone
<1> QED
  BY <1>18

(***************************************************************************)
(* The kinds of steps.                                                     *)
(***************************************************************************)

\* The feeding thread and a skipped block.
NoChange == UNCHANGED <<chain, db, working, next, batch, applied>>

\* The worker takes up a block, or none, with an empty batch.
Afresh ==
    /\ UNCHANGED <<chain, db, applied>>
    /\ \E c \in {batch.count, StoreCounter(db.countVal)} : batch' = NewBatch(c)
    /\ \/ working' = 0 /\ next' = 0
       \/ working' \in Nat /\ next' = 1

LEMMA Kinds ==
    ASSUME LdInv, [LdNext]_ldVars
    PROVE  NoChange \/ Afresh \/ NextTx \/ Save
<1>1. CASE Process \/ Skip \/ AllDone \/ UNCHANGED ldVars
  BY <1>1 DEF Process, Skip, AllDone, ldVars, NoChange
<1>2. CASE Begin
  <2>1. Head(queue) \in Nat
    <3>1. queue \in Seq(1..Len(chain)) /\ queue # <<>>
      BY <1>2 DEF LdInv, PlaceOK, Begin
    <3>2. Len(chain) \in Nat
      BY ChainFacts DEF LdInv, PlaceOK
    <3> QED
      BY <3>1, <3>2
  <2> QED
    BY <1>2, <2>1 DEF Begin, Afresh
<1>3. CASE TxFails \/ StateRefused \/ SaveFails
  BY <1>3 DEF TxFails, StateRefused, SaveFails, Idle, Afresh
<1>4. CASE Restart
  BY <1>4 DEF Restart, Afresh
<1> QED
  BY <1>1, <1>2, <1>3, <1>4 DEF LdNext

LEMMA AfreshFacts ==
    ASSUME Afresh
    PROVE  /\ UNCHANGED <<chain, db, applied>>
           /\ batch'.balances = Empty /\ batch'.put = {} /\ batch'.deleted = {}
           /\ batch'.cache = Empty /\ batch'.tokens = Empty /\ batch'.common = db.common
           /\ batch'.count \in {batch.count, StoreCounter(db.countVal)}
           /\ DoneTxs' = {}
           /\ working' \in Nat
<1>1. PICK c \in {batch.count, StoreCounter(db.countVal)} : batch' = NewBatch(c)
  BY DEF Afresh
<1>2. DoneTxs' = {}
  BY DEF Afresh, DoneTxs
<1> QED
  BY <1>1, <1>2 DEF Afresh, NewBatch

LEMMA NextTxFacts ==
    ASSUME LdInv, CounterLasts, WellFormed, NextTx
    PROVE  /\ UNCHANGED <<chain, db, working, applied>> /\ next' = next + 1
           /\ working \in 1..Len(chain) /\ working \in Nat
           /\ ThisTx \in Transaction /\ WellFormedTx(ThisTx)
           /\ ThisTx = TxAt(<<working, next>>)
           /\ IsBatch(batch) /\ KeysFor(ThisTx) <= batch.count
           /\ batch' = ProcessTx(batch, ThisTx, <<working, next>>,
                                 chain[working].type = "forging")
           /\ <<working, next>>[1] = working
           /\ chain[working].type # "state" /\ next \in 1..Len(chain[working].txs)
<1>1. /\ working # 0 /\ chain[working].type # "state" /\ next <= Len(chain[working].txs)
      /\ batch' = ProcessTx(batch, ThisTx, <<working, next>>, chain[working].type = "forging")
      /\ next' = next + 1
      /\ UNCHANGED <<chain, db, working, applied>>
  BY DEF NextTx, HasNextTx
<1>2. /\ chain \in Chains /\ working \in 1..Len(chain) /\ Len(chain) \in Nat
      /\ Len(chain[working].txs) \in Nat /\ next \in 1..Len(chain[working].txs)
      /\ chain[working].txs \in Seq(Transaction)
  BY <1>1, ChainFacts DEF LdInv, PlaceOK
<1>3. ThisTx \in Transaction /\ ThisTx = TxAt(<<working, next>>)
  BY <1>2 DEF ThisTx, TxAt
<1>4. WellFormedTx(ThisTx)
  BY <1>2 DEF ThisTx, WellFormed
<1>5. IsBatch(batch) /\ batch.count \in Int
  BY DEF LdInv, CounterOK, IsBatch
<1>6. KeysFor(ThisTx) < batch.count
  BY DEF CounterLasts, NextTx
<1>7. KeysFor(ThisTx) \in Nat
  BY <1>3, TokenRowsType DEF KeysFor
<1>8. KeysFor(ThisTx) <= batch.count
  BY <1>5, <1>6, <1>7
<1>9. working \in Nat
  BY <1>2
<1> QED
  BY <1>1, <1>2, <1>3, <1>4, <1>5, <1>8, <1>9

LEMMA SaveFacts ==
    ASSUME LdInv, CounterLasts, Save
    PROVE  /\ Complete /\ UNCHANGED chain
           /\ working \in 1..Len(chain) /\ working \in Nat /\ db.number \in Nat
           /\ db.number < working
           /\ batch.count \in Nat \ {0}
           /\ db'.number = working /\ db'.countVal = batch.count
           /\ db'.balances = NewBalances
           /\ db'.delegates = InForce(db.delegates, batch)
           /\ db'.tokens = NewTokens /\ db'.common = batch.common
           /\ db'.forgingSum = NewForgingSum
           /\ applied' = applied \cup {working} /\ working' = 0
           /\ batch'.balances = Empty /\ batch'.put = {} /\ batch'.deleted = {}
           /\ batch'.cache = Empty /\ batch'.tokens = Empty /\ batch'.common = batch.common
           /\ batch'.count = batch.count
           /\ DoneTxs' = {}
           /\ AppliedTxs' = AppliedTxs \cup DoneTxs /\ AppliedTxs \cap DoneTxs = {}
<1>1. /\ Complete /\ working # 0 /\ UNCHANGED chain
      /\ applied' = applied \cup {working} /\ working' = 0 /\ next' = 0
  BY DEF Save, Complete
<1>2. /\ db'.number = working /\ db'.countVal = batch.count
      /\ db'.balances = NewBalances
      /\ db'.delegates = InForce(db.delegates, batch)
      /\ db'.tokens = NewTokens /\ db'.common = batch.common
      /\ db'.forgingSum = NewForgingSum
  BY DEF Save, InForce
<1>3. /\ batch'.balances = Empty /\ batch'.put = {} /\ batch'.deleted = {}
      /\ batch'.cache = Empty /\ batch'.tokens = Empty /\ batch'.common = batch.common
      /\ batch'.count = batch.count
  <2>1. batch' = [NewBatch(batch.count) EXCEPT !.common = batch.common]
    BY DEF Save
  <2> QED
    BY <2>1 DEF NewBatch
<1>4. batch.count \in Nat \ {0}
  BY DEF LdInv, CounterOK, IsBatch, CounterLasts
<1>5. working \in 1..Len(chain) /\ working \in Nat /\ db.number \in Nat /\ db.number < working
  BY <1>1, ChainFacts DEF LdInv, PlaceOK
<1>6. DoneTxs' = {}
  BY <1>1 DEF DoneTxs
<1>7. AppliedTxs' = AppliedTxs \cup DoneTxs /\ AppliedTxs \cap DoneTxs = {}
  BY <1>1, AppliedGrow
<1> QED
  BY <1>1, <1>2, <1>3, <1>4, <1>5, <1>6, <1>7

(***************************************************************************)
(* The books: balances and delegations are what they look like.            *)
(***************************************************************************)

BooksOK ==
    /\ BatchRows(db.delegates, batch)
    /\ \A d \in db.delegates : d.key > db.countVal
    /\ db.delegates # {} => db.countVal > 0
    /\ Balances(db.balances) /\ Balances(batch.balances)
    /\ \A w \in Wallet : /\ BalanceIn(db.balances, w).blockNumber <= db.number
                         /\ BalanceIn(batch.balances, w).blockNumber <= working

LEMMA EmptyRows ==
    ASSUME NEW D, DelegateRows(D), NEW b, b.put = {}, b.deleted = {}, b.cache = Empty,
           \A d \in D : d.key > b.count
    PROVE  BatchRows(D, b) /\ InForce(D, b) = D
<1>1. D \cup b.put = D
  OBVIOUS
<1>2. \A p : CacheOf(b, p) = <<>>
  BY DEF CacheOf, Empty
<1>3. ASSUME NEW p
      PROVE  CacheMatches(b, p)
  <2>1. CacheOf(b, p) = <<>> /\ <<>> \in Seq(Nat) /\ 1..Len(<<>>) = {}
    BY <1>2
  <2> QED
    BY <2>1, Zenon DEF CacheMatches
<1> QED
  BY <1>1, <1>3 DEF BatchRows, InForce

LEMMA BooksInit == LdInit => BooksOK
<1> SUFFICES ASSUME LdInit PROVE BooksOK
  OBVIOUS
<1>1. /\ db.number = 0 /\ db.countVal = 0 /\ db.delegates = {} /\ db.balances = Empty
      /\ working = 0
  BY DEF LdInit, EmptyDb
<1>2. /\ batch.balances = Empty /\ batch.put = {} /\ batch.deleted = {} /\ batch.cache = Empty
  BY DEF LdInit, NewBatch
<1>3. DelegateRows({})
  BY FS_EmptySet DEF DelegateRows
<1>4. BatchRows(db.delegates, batch)
  BY <1>1, <1>2, <1>3, EmptyRows
<1>5. ZeroBalance.blockNumber = 0
  BY DEF ZeroBalance
<1> QED
  BY <1>1, <1>2, <1>4, <1>5, ZeroFacts DEF BooksOK

LEMMA BooksStep ==
    ASSUME LdInv, BooksOK, CounterLasts, WellFormed, [LdNext]_ldVars
    PROVE  BooksOK'
<1>0. ZeroBalance.blockNumber = 0
  BY DEF ZeroBalance
<1>1. CASE NoChange
  BY <1>1 DEF NoChange, BooksOK
<1>2. CASE Afresh
  <2>1. /\ UNCHANGED db
        /\ batch'.balances = Empty /\ batch'.put = {} /\ batch'.deleted = {}
        /\ batch'.cache = Empty
        /\ batch'.count \in {batch.count, StoreCounter(db.countVal)}
        /\ working' \in Nat
    BY <1>2, AfreshFacts
  <2>2. DelegateRows(db.delegates) /\ \A d \in db.delegates : d.key > batch.count /\ d.key \in Nat
    <3>1. DelegateRows(db.delegates \cup batch.put)
      BY DEF BooksOK, BatchRows
    <3>2. IsFiniteSet(db.delegates)
      BY <3>1, FS_Subset DEF DelegateRows
    <3> QED
      BY <3>1, <3>2 DEF BooksOK, BatchRows, DelegateRows
  <2>3. \A d \in db.delegates : d.key > StoreCounter(db.countVal)
    <3> TAKE d \in db.delegates
    <3>1. db.countVal > 0 /\ d.key > db.countVal
      BY DEF BooksOK
    <3>2. db.countVal \in 0..(CounterModulus - 1)
      BY DEF LdInv, CounterOK
    <3>3. 1 \in 0..db.countVal
      BY <3>1, <3>2
    <3>4. StoreCounter(db.countVal) = db.countVal - 1
      BY <3>2, <3>3, CountsDown DEF StoreCounter
    <3> QED
      BY <2>2, <3>1, <3>2, <3>4
  <2>4. BatchRows(db.delegates, batch)'
    <3>1. \A d \in db'.delegates : d.key > batch'.count
      BY <2>1, <2>2, <2>3
    <3> QED
      BY <2>1, <2>2, <3>1, EmptyRows
  <2>5. \A w \in Wallet : BalanceIn(batch'.balances, w).blockNumber <= working'
    BY <1>0, <2>1, ZeroFacts
  <2> QED
    BY <2>1, <2>4, <2>5, ZeroFacts DEF BooksOK
<1>3. CASE NextTx
  <2> DEFINE tx == ThisTx
             id == <<working, next>>
             f == chain[working].type = "forging"
  <2>1. /\ UNCHANGED <<db, working>> /\ working \in Nat
        /\ tx \in Transaction /\ WellFormedTx(tx)
        /\ IsBatch(batch) /\ KeysFor(tx) <= batch.count
        /\ batch' = ProcessTx(batch, tx, id, f)
        /\ id[1] = working
    BY <1>3, NextTxFacts
  <2>2. BatchRows(db.delegates, batch) /\ Balances(batch.balances)
    BY DEF BooksOK
  <2> HIDE DEF tx, id, f
  <2>3. PICK ok \in BOOLEAN, value \in Nat : TxDone(batch, batch', tx, id, f, ok, value)
    BY <2>1, <2>2, TxStep
  <2>4. ASSUME NEW w \in Wallet
        PROVE  BalanceIn(batch'.balances, w).blockNumber <= working
    <3>1. BalanceIn(batch.balances, w).blockNumber <= working
      BY DEF BooksOK
    <3>2. \/ BalanceIn(batch'.balances, w).blockNumber = BalanceIn(batch.balances, w).blockNumber
          \/ BalanceIn(batch'.balances, w).blockNumber = working
      <4>1. CASE "balance" \in Modules
        <5>1. WalletMoved(BalanceIn(batch.balances, w), BalanceIn(batch'.balances, w), tx, w,
                          working, f, ok, value)
          BY <2>1, <2>3, <4>1 DEF TxDone
        <5> QED
          BY <5>1, Zenon DEF WalletMoved
      <4>2. CASE "balance" \notin Modules
        BY <2>3, <4>2 DEF TxDone
      <4> QED
        BY <4>1, <4>2
    <3> QED
      BY <2>1, <3>1, <3>2
  <2>5. BatchRows(db.delegates, batch') /\ Balances(batch'.balances)
    BY <2>3 DEF TxDone
  <2> QED
    BY <2>1, <2>4, <2>5 DEF BooksOK
<1>4. CASE Save
  <2>1. /\ working \in Nat /\ db.number \in Nat /\ db.number < working
        /\ batch.count \in Nat \ {0}
        /\ db'.number = working /\ db'.countVal = batch.count
        /\ db'.balances = NewBalances
        /\ db'.delegates = InForce(db.delegates, batch)
        /\ working' = 0
        /\ batch'.balances = Empty /\ batch'.put = {} /\ batch'.deleted = {}
        /\ batch'.cache = Empty /\ batch'.count = batch.count
    BY <1>4, SaveFacts
  <2>2. /\ BatchRows(db.delegates, batch) /\ Balances(db.balances) /\ Balances(batch.balances)
        /\ \A w \in Wallet : /\ BalanceIn(db.balances, w).blockNumber <= db.number
                             /\ BalanceIn(batch.balances, w).blockNumber <= working
    BY DEF BooksOK
  <2>3. \A w \in Wallet : /\ BalanceIn(db.balances, w).blockNumber \in Nat
                          /\ BalanceIn(batch.balances, w).blockNumber \in Nat
    BY <2>2, BalanceFacts DEF Balances
  <2>4. \A w \in Wallet : BalanceIn(db.balances, w).blockNumber < working
    BY <2>1, <2>2, <2>3
  <2>5. /\ Balances(NewBalances)
        /\ \A w \in Wallet : Summed(BalanceIn(db.balances, w), BalanceIn(batch.balances, w),
                                    BalanceIn(NewBalances, w))
    BY <2>1, <2>2, <2>4, SavedBalances
  <2>6. \A w \in Wallet : BalanceIn(NewBalances, w).blockNumber <= working
    BY <2>1, <2>2, <2>3, <2>4, <2>5 DEF Summed
  <2>7. DelegateRows(db'.delegates) /\ \A d \in db'.delegates : d.key > batch.count
    BY <2>1, <2>2, InForceRows
  <2>9. BatchRows(db'.delegates, batch')
    BY <2>1, <2>7, EmptyRows
  <2>10. \A w \in Wallet : BalanceIn(batch'.balances, w).blockNumber <= working'
    BY <1>0, <2>1, ZeroFacts
  <2> QED
    BY <2>1, <2>5, <2>6, <2>7, <2>9, <2>10, ZeroFacts DEF BooksOK
<1> QED
  BY <1>1, <1>2, <1>3, <1>4, Kinds

\* The balances say what the rows say, in the database and with the batch.
BackedOK ==
    /\ "balance" \in Modules =>
         \A w \in Wallet :
           /\ BackedFor(db.delegates, BalanceIn(db.balances, w), ZeroBalance, w)
           /\ BackedFor(InForce(db.delegates, batch), BalanceIn(db.balances, w),
                        BalanceIn(batch.balances, w), w)
    /\ "balance" \notin Modules => DOMAIN db.balances = {} /\ DOMAIN batch.balances = {}

LEMMA BackedInit == LdInit => BackedOK
<1> SUFFICES ASSUME LdInit PROVE BackedOK
  OBVIOUS
<1>1. db.delegates = {} /\ db.balances = Empty
  BY DEF LdInit, EmptyDb
<1>2. batch.balances = Empty /\ batch.put = {} /\ batch.deleted = {}
  BY DEF LdInit, NewBatch
<1>3. InForce(db.delegates, batch) = {}
  BY <1>1, <1>2 DEF InForce
<1>4. DOMAIN Empty = {}
  BY DEF Empty
<1>5. ASSUME NEW w
      PROVE  BackedFor({}, ZeroBalance, ZeroBalance, w)
  <2>1. /\ ZeroBalance.reserved = 0 /\ Net(ZeroBalance.delegate) = 0
        /\ Net(ZeroBalance.delegated) = 0
    BY ZeroFacts DEF ZeroBalance
  <2>2. \A i : RowsAt({}, i, w) = {}
    BY DEF RowsAt
  <2>3. ValueOf({}) = 0
    BY SumEmpty DEF ValueOf
  <2>4. Same(0, 0)
    BY SameAgain
  <2>5. 0 - (0 + 0) = 0 /\ 0 + 0 = 0
    OBVIOUS
  <2> QED
    BY <2>1, <2>2, <2>3, <2>4, <2>5 DEF BackedFor
<1>6. \A w : BalanceIn(Empty, w) = ZeroBalance
  BY ZeroFacts
<1> QED
  BY <1>1, <1>2, <1>3, <1>4, <1>5, <1>6 DEF BackedOK

LEMMA BackedStep ==
    ASSUME LdInv, BooksOK, BackedOK, CounterLasts, WellFormed, [LdNext]_ldVars
    PROVE  BackedOK'
<1>0. DOMAIN Empty = {} /\ \A w : BalanceIn(Empty, w) = ZeroBalance
  BY ZeroFacts DEF Empty
<1>1. CASE NoChange
  BY <1>1 DEF NoChange, BackedOK
<1>2. CASE Afresh
  <2>1. /\ UNCHANGED db
        /\ batch'.balances = Empty /\ batch'.put = {} /\ batch'.deleted = {}
    BY <1>2, AfreshFacts
  <2>2. InForce(db.delegates, batch)' = db.delegates
    BY <2>1 DEF InForce
  <2> QED
    BY <1>0, <2>1, <2>2 DEF BackedOK
<1>3. CASE NextTx
  <2> DEFINE tx == ThisTx
             id == <<working, next>>
             f == chain[working].type = "forging"
             D == db.delegates
  <2>1. /\ UNCHANGED <<db, working>> /\ working \in Nat
        /\ tx \in Transaction /\ WellFormedTx(tx)
        /\ IsBatch(batch) /\ KeysFor(tx) <= batch.count
        /\ batch' = ProcessTx(batch, tx, id, f)
        /\ id[1] = working
    BY <1>3, NextTxFacts
  <2>2. BatchRows(D, batch) /\ Balances(batch.balances) /\ Balances(db.balances)
    BY DEF BooksOK
  <2> HIDE DEF tx, id, f
  <2>3. PICK ok \in BOOLEAN, value \in Nat : TxDone(batch, batch', tx, id, f, ok, value)
    BY <2>1, <2>2, TxStep
  <2>4. /\ DelegateRows(InForce(D, batch)) /\ DelegateRows(InForce(D, batch'))
        /\ RowsMoved(InForce(D, batch), InForce(D, batch'), tx, id, ok, value)
    <3>1. BatchRows(D, batch')
      BY <2>3 DEF TxDone
    <3> QED
      BY <2>2, <2>3, <3>1, InForceRows DEF TxDone
  <2>5. ASSUME "balance" \in Modules, NEW w \in Wallet
        PROVE  BackedFor(InForce(D, batch'), BalanceIn(db.balances, w),
                         BalanceIn(batch'.balances, w), w)
    <3>1. WalletMoved(BalanceIn(batch.balances, w), BalanceIn(batch'.balances, w), tx, w,
                      id[1], f, ok, value)
      BY <2>3, <2>5 DEF TxDone
    <3>2. BackedFor(InForce(D, batch), BalanceIn(db.balances, w), BalanceIn(batch.balances, w), w)
      BY <2>5 DEF BackedOK
    <3>3. BalanceIn(db.balances, w) \in Balance /\ BalanceIn(batch.balances, w) \in Balance
      BY <2>2 DEF Balances
    <3> DEFINE F == InForce(D, batch)
               G == InForce(D, batch')
               n == id[1]
    <3> HIDE DEF F, G, D, n
    <3> QED
      BY <2>1, <2>4, <3>1, <3>2, <3>3, BackedTx DEF F, G, n
  <2>6. "balance" \notin Modules => batch'.balances = batch.balances
    BY <2>3 DEF TxDone
  <2> QED
    BY <2>1, <2>5, <2>6 DEF BackedOK
<1>4. CASE Save
  <2>1. /\ working \in Nat /\ db.number \in Nat /\ db.number < working
        /\ db'.balances = NewBalances
        /\ db'.delegates = InForce(db.delegates, batch)
        /\ batch'.balances = Empty /\ batch'.put = {} /\ batch'.deleted = {}
    BY <1>4, SaveFacts
  <2>2. /\ BatchRows(db.delegates, batch) /\ Balances(db.balances) /\ Balances(batch.balances)
        /\ \A w \in Wallet : BalanceIn(db.balances, w).blockNumber <= db.number
    BY DEF BooksOK
  <2>3. \A w \in Wallet : BalanceIn(db.balances, w).blockNumber < working
    <3>1. \A w \in Wallet : BalanceIn(db.balances, w).blockNumber \in Nat
      BY <2>2, BalanceFacts DEF Balances
    <3> QED
      BY <2>1, <2>2, <3>1
  <2>4. \A w \in Wallet : Summed(BalanceIn(db.balances, w), BalanceIn(batch.balances, w),
                                 BalanceIn(NewBalances, w))
    BY <2>1, <2>2, <2>3, SavedBalances
  <2>5. DelegateRows(InForce(db.delegates, batch))
    BY <2>2, InForceRows
  <2>6. ASSUME "balance" \in Modules, NEW w \in Wallet
        PROVE  BackedFor(db'.delegates, BalanceIn(db'.balances, w), ZeroBalance, w)
    <3>1. BackedFor(InForce(db.delegates, batch), BalanceIn(db.balances, w),
                    BalanceIn(batch.balances, w), w)
      BY <2>6 DEF BackedOK
    <3>2. BalanceIn(db.balances, w) \in Balance /\ BalanceIn(batch.balances, w) \in Balance
      BY <2>2 DEF Balances
    <3>3. BackedFor(InForce(db.delegates, batch), BalanceIn(NewBalances, w), ZeroBalance, w)
      BY <2>4, <2>5, <3>1, <3>2, BackedSaved
    <3> QED
      BY <2>1, <3>3
  <2>7. InForce(db.delegates, batch)' = db'.delegates
    BY <2>1 DEF InForce
  <2>8. "balance" \notin Modules => DOMAIN NewBalances = {}
    BY DEF BackedOK, NewBalances
  <2> QED
    BY <1>0, <2>1, <2>6, <2>7, <2>8 DEF BackedOK
<1> QED
  BY <1>1, <1>2, <1>3, <1>4, Kinds

LEMMA BackedProperty ==
    ASSUME BooksOK, BackedOK
    PROVE  DelegationsBacked
<1> SUFFICES ASSUME NEW w \in DOMAIN db.balances
             PROVE  LET b == db.balances[w]
                    IN  /\ (b.delegate.spent - b.delegate.received) % Modulus
                             = ValueOf({d \in db.delegates : d.pair[1] = w}) % Modulus
                        /\ ElementBalance(b.delegated)
                             = ValueOf({d \in db.delegates : d.pair[2] = w}) % Modulus
                        /\ b.reserved = 0
  BY DEF DelegationsBacked
<1> DEFINE b == db.balances[w]
           V == ValueOf(RowsAt(db.delegates, 1, w))
           W == ValueOf(RowsAt(db.delegates, 2, w))
<1>1. w \in Wallet /\ b \in Balance /\ b = BalanceIn(db.balances, w)
  BY DEF BooksOK, Balances, BalanceIn
<1>2. "balance" \in Modules
  BY DEF BackedOK
<1>3. BackedFor(db.delegates, b, ZeroBalance, w)
  BY <1>1, <1>2 DEF BackedOK
<1>4. Net(ZeroBalance.delegate) = 0 /\ Net(ZeroBalance.delegated) = 0
  BY ZeroFacts DEF ZeroBalance
<1>5. /\ b.delegate.received \in Nat /\ b.delegate.spent \in Nat
      /\ b.delegated.received \in Nat /\ b.delegated.spent \in Nat
  BY <1>1, BalanceFacts, ElementFacts
<1>6. V \in Int /\ W \in Int
  <2>1. DelegateRows(db.delegates \cup batch.put)
    BY DEF BooksOK, BatchRows
  <2>2. \A i : RowsAt(db.delegates, i, w) \subseteq db.delegates \cup batch.put
    BY DEF RowsAt
  <2>3. \A i : IsFiniteSet(RowsAt(db.delegates, i, w))
               /\ \A r \in RowsAt(db.delegates, i, w) : r.value \in Int
    BY <2>1, <2>2, FS_Subset DEF DelegateRows
  <2> QED
    BY <2>3, ValueFacts
<1>7. Same(b.delegate.spent - b.delegate.received, V)
  <2>1. Same(0 - (Net(b.delegate) + 0), V)
    BY <1>3, <1>4 DEF BackedFor
  <2>2. 0 - (Net(b.delegate) + 0) = b.delegate.spent - b.delegate.received
    BY <1>5 DEF Net
  <2> QED
    BY <2>1, <2>2
<1>8. Same(b.delegated.received - b.delegated.spent, W)
  <2>1. Same(Net(b.delegated) + 0, W)
    BY <1>3, <1>4 DEF BackedFor
  <2>2. Net(b.delegated) + 0 = b.delegated.received - b.delegated.spent
    BY <1>5 DEF Net
  <2> QED
    BY <2>1, <2>2
<1>9. (b.delegate.spent - b.delegate.received) % Modulus = V % Modulus
  <2>1. b.delegate.spent - b.delegate.received \in Int
    BY <1>5
  <2> HIDE DEF b, V
  <2> QED
    BY <1>6, <1>7, <2>1, SameRemainder
<1>10. ElementBalance(b.delegated) = W % Modulus
  <2>1. b.delegated.received - b.delegated.spent \in Int
    BY <1>5
  <2> HIDE DEF b, W
  <2> QED
    BY <1>6, <1>8, <2>1, SameRemainder DEF ElementBalance
<1>11. b.reserved = 0
  BY <1>3 DEF BackedFor
<1> QED
  BY <1>9, <1>10, <1>11 DEF RowsAt

\* What the balances say of delegations is what the rows of the database say,
\* for every family of well-formed chains, whatever fails and restarts.
THEOREM DelegationsAreBacked ==
    ASSUME WellFormed
    PROVE  LdSpec /\ []CounterLasts => []DelegationsBacked
<1>1. LdInit => BooksOK /\ BackedOK
  BY BooksInit, BackedInit
<1>2. LdInv /\ BooksOK /\ BackedOK /\ CounterLasts /\ [LdNext]_ldVars => (BooksOK /\ BackedOK)'
  BY BooksStep, BackedStep
<1>3. BooksOK /\ BackedOK => DelegationsBacked
  BY BackedProperty
<1> QED
  BY <1>1, <1>2, <1>3, LedgerInvariant, PTL DEF LdSpec

\* A set of subsets of S that has the empty set and grows by one element at a time has S.
LEMMA SubsetInduction ==
    ASSUME NEW S, IsFiniteSet(S), NEW G, {} \in G,
           \A T \in SUBSET S : \A x \in S \ T : T \in G => T \cup {x} \in G
    PROVE  S \in G
<1> DEFINE Bad == {T \in SUBSET S : T \notin G}
           Sizes == {Cardinality(T) : T \in Bad}
<1>1. \A T \in SUBSET S : IsFiniteSet(T) /\ Cardinality(T) \in Nat
  BY FS_Subset, FS_CardinalityType
<1>2. Sizes \subseteq Nat
  BY <1>1
<1>3. ASSUME S \notin G
      PROVE  FALSE
  <2>1. Sizes # {}
    BY <1>3
  <2>2. PICK n \in Sizes : \A m \in Sizes : n <= m
    <3> HIDE DEF Sizes
    <3> QED
      BY <1>2, <2>1, MinOfSet
  <2>3. PICK T \in Bad : Cardinality(T) = n
    OBVIOUS
  <2>4. PICK x \in T : TRUE
    BY <2>3
  <2>5. /\ Cardinality(T) \in Nat \ {0} /\ IsFiniteSet(T \ {x})
        /\ Cardinality(T \ {x}) = Cardinality(T) - 1
    BY <1>1, <2>3, <2>4, OneLess
  <2>6. T \ {x} \notin Bad
    <3>1. ASSUME T \ {x} \in Bad PROVE FALSE
      <4>1. Cardinality(T \ {x}) \in Sizes
        BY <3>1
      <4>2. n <= n - 1 /\ n \in Nat
        BY <1>2, <2>2, <2>3, <2>5, <4>1
      <4> QED
        BY <4>2
    <3> QED
      BY <3>1
  <2>7. T \ {x} \in G /\ T \ {x} \in SUBSET S /\ x \in S \ (T \ {x})
    BY <2>3, <2>4, <2>6
  <2>8. (T \ {x}) \cup {x} = T
    BY <2>4
  <2> QED
    BY <2>3, <2>7, <2>8
<1> QED
  BY <1>3

\* Where the numbers of P add up to numbers of P, so do sums.
LEMMA SumClosed ==
    ASSUME NEW S, IsFiniteSet(S), NEW P, P \subseteq Int, 0 \in P,
           \A a, b \in P : a + b \in P, NEW f, \A x \in S : f[x] \in P
    PROVE  SumFunctionOnSet(f, S) \in P
<1> DEFINE G == {T \in SUBSET S : SumFunctionOnSet(f, T) \in P}
<1>1. {} \in G
  BY SumEmpty
<1>2. ASSUME NEW T \in SUBSET S, NEW x \in S \ T, T \in G
      PROVE  T \cup {x} \in G
  <2>1. IsFiniteSet(T) /\ \A y \in T \cup {x} : f[y] \in Int
    BY FS_Subset
  <2>2. SumFunctionOnSet(f, T \cup {x}) = SumFunctionOnSet(f, T) + f[x]
    BY <2>1, SumAdd
  <2> QED
    BY <1>2, <2>2
<1> HIDE DEF G
<1>3. S \in G
  BY <1>1, <1>2, SubsetInduction
<1> QED
  BY <1>3 DEF G

LEMMA SumPlus ==
    ASSUME NEW S, IsFiniteSet(S), NEW f, NEW g, NEW h,
           \A x \in S : f[x] \in Int /\ g[x] \in Int /\ h[x] = f[x] + g[x]
    PROVE  SumFunctionOnSet(h, S) = SumFunctionOnSet(f, S) + SumFunctionOnSet(g, S)
<1> DEFINE G == {T \in SUBSET S :
                    SumFunctionOnSet(h, T) = SumFunctionOnSet(f, T) + SumFunctionOnSet(g, T)}
<1>1. {} \in G
  BY SumEmpty
<1>2. ASSUME NEW T \in SUBSET S, NEW x \in S \ T, T \in G
      PROVE  T \cup {x} \in G
  <2>1. /\ IsFiniteSet(T) /\ x \notin T
        /\ \A y \in T \cup {x} : f[y] \in Int
        /\ \A y \in T \cup {x} : g[y] \in Int
        /\ \A y \in T \cup {x} : h[y] \in Int
        /\ \A y \in T : f[y] \in Int
        /\ \A y \in T : g[y] \in Int
    BY FS_Subset
  <2>2. SumFunctionOnSet(f, T \cup {x}) = SumFunctionOnSet(f, T) + f[x]
    BY <2>1, SumAdd
  <2>3. SumFunctionOnSet(g, T \cup {x}) = SumFunctionOnSet(g, T) + g[x]
    BY <2>1, SumAdd
  <2>4. SumFunctionOnSet(h, T \cup {x}) = SumFunctionOnSet(h, T) + h[x]
    BY <2>1, SumAdd
  <2>5. SumFunctionOnSet(f, T) \in Int /\ SumFunctionOnSet(g, T) \in Int
    BY <2>1, SumType
  <2>6. SumFunctionOnSet(h, T) = SumFunctionOnSet(f, T) + SumFunctionOnSet(g, T)
    BY <1>2
  <2>7. f[x] \in Int /\ g[x] \in Int /\ h[x] = f[x] + g[x]
    OBVIOUS
  <2> QED
    BY <2>2, <2>3, <2>4, <2>5, <2>6, <2>7
<1> HIDE DEF G
<1>3. S \in G
  BY <1>1, <1>2, SubsetInduction
<1> QED
  BY <1>3 DEF G

LEMMA SumZero ==
    ASSUME NEW S, IsFiniteSet(S), NEW f, \A x \in S : f[x] = 0
    PROVE  SumFunctionOnSet(f, S) = 0
<1> DEFINE P == {0}
<1>1. P \subseteq Int /\ 0 \in P /\ (\A a, b \in P : a + b \in P) /\ \A x \in S : f[x] \in P
  OBVIOUS
<1>2. SumFunctionOnSet(f, S) \in P
  <2> HIDE DEF P
  <2> QED
    BY <1>1, SumClosed
<1> QED
  BY <1>2

\* A sum with one term.
LEMMA SumOne ==
    ASSUME NEW S, IsFiniteSet(S), NEW a, NEW v \in Int, NEW f,
           \A x \in S : f[x] = IF x = a THEN v ELSE 0
    PROVE  SumFunctionOnSet(f, S) = IF a \in S THEN v ELSE 0
<1>1. CASE a \in S
  <2>1. \A x \in S : f[x] \in Int
    OBVIOUS
  <2>2. SumFunctionOnSet(f, S) = f[a] + SumFunctionOnSet(f, S \ {a})
    BY <1>1, <2>1, SumWithout
  <2>3. IsFiniteSet(S \ {a}) /\ \A x \in S \ {a} : f[x] = 0
    BY FS_Subset
  <2>4. SumFunctionOnSet(f, S \ {a}) = 0
    BY <2>3, SumZero
  <2> QED
    BY <1>1, <2>2, <2>4
<1>2. CASE a \notin S
  BY <1>2, SumZero
<1> QED
  BY <1>1, <1>2

(***************************************************************************)
(* Sums in the width of size_t.                                            *)
(***************************************************************************)

LEMMA SumsSame ==
    ASSUME NEW S, IsFiniteSet(S), NEW f, NEW g, NEW h,
           \A x \in S : f[x] \in Int /\ g[x] \in Int /\ h[x] \in Int
                        /\ Same(h[x], f[x] + g[x])
    PROVE  Same(SumFunctionOnSet(h, S), SumFunctionOnSet(f, S) + SumFunctionOnSet(g, S))
<1> DEFINE s == [x \in S |-> f[x] + g[x]]
           m == [x \in S |-> h[x] - (f[x] + g[x])]
           F == SumFunctionOnSet(f, S)
           G == SumFunctionOnSet(g, S)
           H == SumFunctionOnSet(h, S)
           A == SumFunctionOnSet(s, S)
           M == SumFunctionOnSet(m, S)
<1>1. \A x \in S : /\ f[x] \in Int /\ g[x] \in Int /\ s[x] \in Int /\ s[x] = f[x] + g[x]
                   /\ m[x] \in Int /\ h[x] = s[x] + m[x]
  OBVIOUS
<1>2. \A x \in S : m[x] \in Multiples
  BY DEF Same
<1> HIDE DEF s, m
<1>3. M \in Multiples
  BY <1>2, SumClosed, MultiplesClosed
<1>4. A = F + G
  BY <1>1, SumPlus
<1>5. H = A + M
  BY <1>1, SumPlus
<1>6. F \in Int /\ G \in Int /\ M \in Int
  BY <1>1, SumType
<1>7. H - (F + G) = M
  BY <1>4, <1>5, <1>6
<1> QED
  BY <1>3, <1>7 DEF Same

\* What a wallet disposes of, with what it has delegated.
Own(x) == Net(x.balance) - Net(x.delegate)

OwnSum(f) == SumFunctionOnSet([w \in Wallet |-> Own(BalanceIn(f, w))], Wallet)
ForgedSum(f) == SumFunctionOnSet([w \in Wallet |-> BalanceIn(f, w).forged], Wallet)

PaidTx(tx) == tx.status \notin {"wrongMoney", "nodeTest"} /\ tx.from # InitialWallet
GoneTx(tx) == PaidTx(tx) /\ tx.to = InitialWallet

PaidIn(c, I) == {id \in I : PaidTx(At(c, id))}
GoneIn(c, I) == {id \in I : GoneTx(At(c, id))}

FeeSum(c, I) == SumFunctionOnSet([id \in PaidIn(c, I) |-> At(c, id).fee], PaidIn(c, I))
GoneSum(c, I) == SumFunctionOnSet([id \in GoneIn(c, I) |-> At(c, id).value], GoneIn(c, I))

\* A sum over a set that may get one more element.
LEMMA SumMaybe ==
    ASSUME NEW S, IsFiniteSet(S), NEW x, x \notin S, NEW T, NEW b \in BOOLEAN,
           T = IF b THEN S \cup {x} ELSE S,
           NEW f, NEW g, \A y \in S : f[y] \in Int /\ g[y] = f[y], NEW v \in Int, b => g[x] = v
    PROVE  /\ SumFunctionOnSet(f, S) \in Int
           /\ SumFunctionOnSet(g, T) = SumFunctionOnSet(f, S) + (IF b THEN v ELSE 0)
<1>1. SumFunctionOnSet(f, S) \in Int
  BY SumType
<1>2. SumFunctionOnSet(f, S) = SumFunctionOnSet(g, S)
  BY SumSame
<1>3. CASE b
  <2>1. \A y \in S \cup {x} : g[y] \in Int
    BY <1>3
  <2>2. SumFunctionOnSet(g, S \cup {x}) = SumFunctionOnSet(g, S) + g[x]
    BY <2>1, SumAdd
  <2> QED
    BY <1>1, <1>2, <1>3, <2>2
<1>4. CASE ~b
  BY <1>1, <1>2, <1>4
<1> QED
  BY <1>3, <1>4

LEMMA FeeSumAdd ==
    ASSUME NEW c, NEW I, IsFiniteSet(I), NEW id, id \notin I,
           \A x \in I \cup {id} : At(c, x) \in Transaction
    PROVE  /\ FeeSum(c, I) \in Int /\ GoneSum(c, I) \in Int
           /\ FeeSum(c, I \cup {id}) =
                FeeSum(c, I) + (IF PaidTx(At(c, id)) THEN At(c, id).fee ELSE 0)
           /\ GoneSum(c, I \cup {id}) =
                GoneSum(c, I) + (IF GoneTx(At(c, id)) THEN At(c, id).value ELSE 0)
<1>1. \A x \in I \cup {id} : At(c, x).fee \in Int /\ At(c, x).value \in Int
  BY TxFacts
<1>2. /\ FeeSum(c, I) \in Int
      /\ FeeSum(c, I \cup {id}) =
           FeeSum(c, I) + (IF PaidTx(At(c, id)) THEN At(c, id).fee ELSE 0)
  <2> DEFINE S == PaidIn(c, I)
             T == PaidIn(c, I \cup {id})
             b == PaidTx(At(c, id))
             f == [x \in S |-> At(c, x).fee]
             g == [x \in T |-> At(c, x).fee]
             v == At(c, id).fee
  <2>1. S \subseteq I /\ id \notin S /\ T = IF b THEN S \cup {id} ELSE S
    BY DEF PaidIn
  <2>2. IsFiniteSet(S)
    BY <2>1, FS_Subset
  <2>3. b \in BOOLEAN
    BY DEF PaidTx
  <2>4. \A y \in S : f[y] \in Int /\ g[y] = f[y]
    <3> TAKE y \in S
    <3>1. y \in T /\ y \in I
      BY <2>1
    <3>2. f[y] = At(c, y).fee /\ g[y] = At(c, y).fee
      BY <3>1
    <3> QED
      BY <1>1, <3>1, <3>2
  <2>5. b => g[id] = v
    BY <2>1
  <2>6. v \in Int
    BY <1>1
  <2>7. /\ FeeSum(c, I) = SumFunctionOnSet(f, S)
        /\ FeeSum(c, I \cup {id}) = SumFunctionOnSet(g, T)
    BY DEF FeeSum
  <2> HIDE DEF S, T, b, f, g, v
  <2>8. /\ SumFunctionOnSet(f, S) \in Int
        /\ SumFunctionOnSet(g, T) = SumFunctionOnSet(f, S) + (IF b THEN v ELSE 0)
    BY <2>1, <2>2, <2>3, <2>4, <2>5, <2>6, SumMaybe
  <2> QED
    BY <2>7, <2>8 DEF b, v
<1>3. /\ GoneSum(c, I) \in Int
      /\ GoneSum(c, I \cup {id}) =
           GoneSum(c, I) + (IF GoneTx(At(c, id)) THEN At(c, id).value ELSE 0)
  <2> DEFINE S == GoneIn(c, I)
             T == GoneIn(c, I \cup {id})
             b == GoneTx(At(c, id))
             f == [x \in S |-> At(c, x).value]
             g == [x \in T |-> At(c, x).value]
             v == At(c, id).value
  <2>1. S \subseteq I /\ id \notin S /\ T = IF b THEN S \cup {id} ELSE S
    BY DEF GoneIn
  <2>2. IsFiniteSet(S)
    BY <2>1, FS_Subset
  <2>3. b \in BOOLEAN
    BY DEF GoneTx, PaidTx
  <2>4. \A y \in S : f[y] \in Int /\ g[y] = f[y]
    <3> TAKE y \in S
    <3>1. y \in T /\ y \in I
      BY <2>1
    <3>2. f[y] = At(c, y).value /\ g[y] = At(c, y).value
      BY <3>1
    <3> QED
      BY <1>1, <3>1, <3>2
  <2>5. b => g[id] = v
    BY <2>1
  <2>6. v \in Int
    BY <1>1
  <2>7. /\ GoneSum(c, I) = SumFunctionOnSet(f, S)
        /\ GoneSum(c, I \cup {id}) = SumFunctionOnSet(g, T)
    BY DEF GoneSum
  <2> HIDE DEF S, T, b, f, g, v
  <2>8. /\ SumFunctionOnSet(f, S) \in Int
        /\ SumFunctionOnSet(g, T) = SumFunctionOnSet(f, S) + (IF b THEN v ELSE 0)
    BY <2>1, <2>2, <2>3, <2>4, <2>5, <2>6, SumMaybe
  <2> QED
    BY <2>7, <2>8 DEF b, v
<1> QED
  BY <1>2, <1>3

LEMMA OwnFacts ==
    ASSUME NEW f, Balances(f)
    PROVE  /\ \A w \in Wallet : Own(BalanceIn(f, w)) \in Int /\ BalanceIn(f, w).forged \in Int
           /\ OwnSum(f) \in Int /\ ForgedSum(f) \in Int
<1>1. \A w \in Wallet : Own(BalanceIn(f, w)) \in Int /\ BalanceIn(f, w).forged \in Int
  <2> TAKE w \in Wallet
  <2>1. BalanceIn(f, w) \in Balance
    BY DEF Balances
  <2>2. Net(BalanceIn(f, w).balance) \in Int /\ Net(BalanceIn(f, w).delegate) \in Int
    BY <2>1, BalanceFacts, ElementFacts
  <2>3. BalanceIn(f, w).forged \in Int
    BY <2>1, BalanceFacts
  <2> QED
    BY <2>2, <2>3 DEF Own
<1> DEFINE g == [w \in Wallet |-> Own(BalanceIn(f, w))]
           h == [w \in Wallet |-> BalanceIn(f, w).forged]
<1>2. (\A w \in Wallet : g[w] \in Int) /\ \A w \in Wallet : h[w] \in Int
  BY <1>1
<1>3. OwnSum(f) = SumFunctionOnSet(g, Wallet) /\ ForgedSum(f) = SumFunctionOnSet(h, Wallet)
  BY DEF OwnSum, ForgedSum
<1>4. IsFiniteSet(Wallet)
  BY LedgerAssumption
<1> HIDE DEF g, h
<1>5. SumFunctionOnSet(g, Wallet) \in Int /\ SumFunctionOnSet(h, Wallet) \in Int
  BY <1>2, <1>4, SumType
<1> QED
  BY <1>1, <1>3, <1>5

\* What a transaction gives to all wallets together.
Gain(tx) ==
    IF tx.status \in {"wrongMoney", "nodeTest"} THEN 0
    ELSE (IF tx.from \in Wallet THEN 0 - (tx.value + tx.fee) ELSE 0)
           + (IF tx.to \in Wallet THEN tx.value ELSE 0)

LEMMA GainSum ==
    ASSUME NEW tx \in Transaction, NEW d,
           \A w \in Wallet :
               d[w] = IF tx.status # "nodeTest" THEN Paid(tx, w) + Got(tx, w) ELSE 0
    PROVE  SumFunctionOnSet(d, Wallet) = Gain(tx) /\ Gain(tx) \in Int
<1>1. IsFiniteSet(Wallet)
  BY LedgerAssumption
<1>2. tx.value \in Int /\ tx.fee \in Int
  BY TxFacts
<1>3. CASE tx.status \in {"wrongMoney", "nodeTest"}
  <2>1. \A w \in Wallet : d[w] = 0
    BY <1>3 DEF Paid, Got, NoBalance
  <2>2. SumFunctionOnSet(d, Wallet) = 0
    BY <1>1, <2>1, SumZero
  <2> QED
    BY <1>3, <2>2 DEF Gain
<1>4. CASE tx.status \notin {"wrongMoney", "nodeTest"}
  <2> DEFINE p == [w \in Wallet |-> IF w = tx.from THEN 0 - (tx.value + tx.fee) ELSE 0]
             q == [w \in Wallet |-> IF w = tx.to THEN tx.value ELSE 0]
             v == 0 - (tx.value + tx.fee)
             P == SumFunctionOnSet(p, Wallet)
             Q == SumFunctionOnSet(q, Wallet)
  <2>1. v \in Int
    BY <1>2
  <2>2. \A w \in Wallet : p[w] \in Int /\ q[w] \in Int /\ d[w] = p[w] + q[w]
    BY <1>2, <1>4 DEF Paid, Got, NoBalance
  <2>3. \A w \in Wallet : p[w] = IF w = tx.from THEN v ELSE 0
    OBVIOUS
  <2>4. \A w \in Wallet : q[w] = IF w = tx.to THEN tx.value ELSE 0
    OBVIOUS
  <2> HIDE DEF p, q, v
  <2>5. P = IF tx.from \in Wallet THEN v ELSE 0
    <3>1. PICK a : a = tx.from
      OBVIOUS
    <3>2. \A w \in Wallet : p[w] = IF w = a THEN v ELSE 0
      BY <2>3, <3>1
    <3>3. SumFunctionOnSet(p, Wallet) = IF a \in Wallet THEN v ELSE 0
      BY <1>1, <2>1, <3>2, SumOne
    <3> QED
      BY <3>1, <3>3
  <2>6. Q = IF tx.to \in Wallet THEN tx.value ELSE 0
    <3>1. PICK a : a = tx.to
      OBVIOUS
    <3>2. PICK u \in Int : u = tx.value
      BY <1>2
    <3>3. \A w \in Wallet : q[w] = IF w = a THEN u ELSE 0
      BY <2>4, <3>1, <3>2
    <3>4. SumFunctionOnSet(q, Wallet) = IF a \in Wallet THEN u ELSE 0
      BY <1>1, <3>3, SumOne
    <3> QED
      BY <3>1, <3>2, <3>4
  <2>7. SumFunctionOnSet(d, Wallet) = P + Q
    BY <1>1, <2>2, SumPlus
  <2>8. Gain(tx) = (IF tx.from \in Wallet THEN v ELSE 0) + (IF tx.to \in Wallet THEN tx.value ELSE 0)
    BY <1>4 DEF Gain, v
  <2> QED
    BY <1>2, <2>1, <2>5, <2>6, <2>7, <2>8
<1> QED
  BY <1>3, <1>4

\* What enters circulation with a transaction is where it goes.
LEMMA Circulates ==
    ASSUME NEW tx \in Transaction, NEW isForging, MintsWell(tx, isForging)
    PROVE  (IF tx.from = InitialWallet \/ isForging THEN tx.value ELSE 0)
             = Gain(tx) + (IF PaidTx(tx) THEN tx.fee ELSE 0)
                 + (IF GoneTx(tx) THEN tx.value ELSE 0)
<1>1. /\ tx.value \in Int /\ tx.fee \in Int /\ InitialWallet \notin Wallet
      /\ tx.from \in Wallet \cup {InitialWallet} /\ tx.to \in Wallet \cup {InitialWallet}
  BY TxFacts, LedgerAssumption DEF Party
<1>2. isForging => tx.from = InitialWallet
  BY DEF MintsWell
<1>3. CASE tx.from = InitialWallet
  <2>1. tx.to \in Wallet /\ tx.status \notin {"wrongMoney", "nodeTest"} /\ tx.from \notin Wallet
    BY <1>1, <1>3 DEF MintsWell
  <2>2. Gain(tx) = 0 + tx.value
    BY <2>1 DEF Gain
  <2>3. ~PaidTx(tx) /\ ~GoneTx(tx)
    BY <1>3 DEF PaidTx, GoneTx
  <2> QED
    BY <1>1, <1>3, <2>2, <2>3
<1>4. CASE tx.from # InitialWallet /\ tx.status \in {"wrongMoney", "nodeTest"}
  <2>1. Gain(tx) = 0 /\ ~PaidTx(tx) /\ ~GoneTx(tx)
    BY <1>4 DEF Gain, PaidTx, GoneTx
  <2>2. ~(tx.from = InitialWallet \/ isForging)
    BY <1>2, <1>4
  <2> QED
    BY <2>1, <2>2
<1>5. CASE tx.from # InitialWallet /\ tx.status \notin {"wrongMoney", "nodeTest"}
  <2>1. tx.from \in Wallet /\ PaidTx(tx)
    BY <1>1, <1>5 DEF PaidTx
  <2>2. ~(tx.from = InitialWallet \/ isForging)
    BY <1>2, <1>5
  <2>3. CASE tx.to = InitialWallet
    <3>1. GoneTx(tx) /\ Gain(tx) = (0 - (tx.value + tx.fee)) + 0
      BY <1>1, <1>5, <2>1, <2>3 DEF GoneTx, Gain
    <3> QED
      BY <1>1, <2>1, <2>2, <3>1
  <2>4. CASE tx.to \in Wallet
    <3>1. ~GoneTx(tx) /\ Gain(tx) = (0 - (tx.value + tx.fee)) + tx.value
      BY <1>1, <1>5, <2>1, <2>4 DEF GoneTx, Gain
    <3> QED
      BY <1>1, <2>1, <2>2, <3>1
  <2> QED
    BY <1>1, <2>3, <2>4
<1> QED
  BY <1>3, <1>4, <1>5

LEMMA ForgedGain ==
    ASSUME NEW tx \in Transaction, NEW isForging \in BOOLEAN, MintsWell(tx, isForging), NEW e,
           \A w \in Wallet :
               e[w] = IF tx.status # "nodeTest" THEN Forged(tx, w, isForging) ELSE 0
    PROVE  SumFunctionOnSet(e, Wallet) = IF isForging THEN tx.value ELSE 0
<1>1. IsFiniteSet(Wallet)
  BY LedgerAssumption
<1>2. tx.value \in Int
  BY TxFacts
<1>3. CASE isForging
  <2>1. tx.status # "nodeTest" /\ tx.to \in Wallet
    BY <1>3 DEF MintsWell
  <2>2. \A w \in Wallet : e[w] = IF w = tx.to THEN tx.value ELSE 0
    BY <1>3, <2>1, Zenon DEF Forged
  <2>3. SumFunctionOnSet(e, Wallet) = IF tx.to \in Wallet THEN tx.value ELSE 0
    <3>1. PICK a : a = tx.to
      OBVIOUS
    <3>2. \A w \in Wallet : e[w] = IF w = a THEN tx.value ELSE 0
      BY <2>2, <3>1
    <3>3. SumFunctionOnSet(e, Wallet) = IF a \in Wallet THEN tx.value ELSE 0
      BY <1>1, <1>2, <3>2, SumOne
    <3> QED
      BY <3>1, <3>3
  <2> QED
    BY <1>3, <2>1, <2>3, Zenon
<1>4. CASE ~isForging
  <2>1. \A w \in Wallet : e[w] = 0
    BY <1>4, Zenon DEF Forged
  <2>2. SumFunctionOnSet(e, Wallet) = 0
    BY <1>1, <2>1, SumZero
  <2> QED
    BY <1>4, <2>2, Zenon
<1> QED
  BY <1>3, <1>4

\* What a transaction does to the sums over all wallets.
LEMMA TxSums ==
    ASSUME NEW f, Balances(f), NEW g, Balances(g), NEW tx \in Transaction, NEW n,
           NEW isForging \in BOOLEAN, NEW ok \in BOOLEAN, NEW value \in Nat,
           MintsWell(tx, isForging),
           \A w \in Wallet : WalletMoved(BalanceIn(f, w), BalanceIn(g, w), tx, w, n,
                                         isForging, ok, value)
    PROVE  /\ Same(OwnSum(g), OwnSum(f) + Gain(tx))
           /\ Same(ForgedSum(g), ForgedSum(f) + (IF isForging THEN tx.value ELSE 0))
<1> DEFINE counts == tx.status # "nodeTest"
           d == [w \in Wallet |-> IF counts THEN Paid(tx, w) + Got(tx, w) ELSE 0]
           e == [w \in Wallet |-> IF counts THEN Forged(tx, w, isForging) ELSE 0]
           F == [w \in Wallet |-> Own(BalanceIn(f, w))]
           G == [w \in Wallet |-> Own(BalanceIn(g, w))]
           P == [w \in Wallet |-> BalanceIn(f, w).forged]
           Q == [w \in Wallet |-> BalanceIn(g, w).forged]
<1>1. IsFiniteSet(Wallet)
  BY LedgerAssumption
<1>2. tx.value \in Int /\ tx.fee \in Int
  BY TxFacts
<1>3. \A w \in Wallet : d[w] \in Int /\ e[w] \in Int
  BY <1>2 DEF Paid, Got, Forged
<1>4. \A w \in Wallet : F[w] \in Int /\ G[w] \in Int /\ P[w] \in Int /\ Q[w] \in Int
  BY OwnFacts
<1>5. ASSUME NEW w \in Wallet
      PROVE  Same(G[w], F[w] + d[w]) /\ Same(Q[w], P[w] + e[w])
  <2> DEFINE y == BalanceIn(f, w)
             z == BalanceIn(g, w)
             lent == Lent(tx, ok, value)
             out == IF tx.from = w THEN 0 - lent ELSE 0
             v == IF counts THEN Paid(tx, w) + Got(tx, w) ELSE 0
             u == IF counts THEN Forged(tx, w, isForging) ELSE 0
  <2>1. WalletMoved(y, z, tx, w, n, isForging, ok, value)
    OBVIOUS
  <2>2. /\ Moved(y.balance, z.balance, v + out) /\ Moved(y.delegate, z.delegate, out)
        /\ Same(z.forged, y.forged + u)
    BY <2>1, Zenon DEF WalletMoved
  <2>3. d[w] = v /\ e[w] = u /\ G[w] = Own(z) /\ F[w] = Own(y) /\ Q[w] = z.forged /\ P[w] = y.forged
    OBVIOUS
  <2>4. v \in Int
    BY <1>3, <2>3
  <2>5. y \in Balance /\ z \in Balance
    BY DEF Balances
  <2> HIDE DEF v, out, u, y, z, d, e, F, G, P, Q
  <2>6. /\ Net(y.balance) \in Int /\ Net(z.balance) \in Int
        /\ Net(y.delegate) \in Int /\ Net(z.delegate) \in Int
    BY <2>5, BalanceFacts, ElementFacts
  <2>7. /\ out \in Int
        /\ Same(Net(z.balance), Net(y.balance) + (v + out))
        /\ Same(Net(z.delegate), Net(y.delegate) + out)
    BY <2>2 DEF Moved
  <2>8. Same(Net(z.balance) - Net(z.delegate), (Net(y.balance) + (v + out)) - (Net(y.delegate) + out))
    <3>1. Net(y.balance) + (v + out) \in Int /\ Net(y.delegate) + out \in Int
      BY <2>4, <2>6, <2>7
    <3> QED
      BY <2>6, <2>7, <3>1, SameSum
  <2>9. (Net(y.balance) + (v + out)) - (Net(y.delegate) + out) = (Net(y.balance) - Net(y.delegate)) + v
    BY <2>4, <2>6, <2>7
  <2> QED
    BY <2>2, <2>3, <2>8, <2>9 DEF Own
<1>6. SumFunctionOnSet(d, Wallet) = Gain(tx)
  <2>1. \A w \in Wallet : d[w] = IF tx.status # "nodeTest" THEN Paid(tx, w) + Got(tx, w) ELSE 0
    OBVIOUS
  <2> HIDE DEF d
  <2> QED
    BY <2>1, GainSum
<1>7. SumFunctionOnSet(e, Wallet) = IF isForging THEN tx.value ELSE 0
  <2>1. \A w \in Wallet : e[w] = IF tx.status # "nodeTest" THEN Forged(tx, w, isForging) ELSE 0
    OBVIOUS
  <2> HIDE DEF e
  <2> QED
    BY <2>1, ForgedGain
<1>8. /\ OwnSum(f) = SumFunctionOnSet(F, Wallet) /\ OwnSum(g) = SumFunctionOnSet(G, Wallet)
      /\ ForgedSum(f) = SumFunctionOnSet(P, Wallet) /\ ForgedSum(g) = SumFunctionOnSet(Q, Wallet)
  BY DEF OwnSum, ForgedSum
<1> HIDE DEF d, e, F, G, P, Q
<1>9. Same(SumFunctionOnSet(G, Wallet), SumFunctionOnSet(F, Wallet) + SumFunctionOnSet(d, Wallet))
  BY <1>1, <1>3, <1>4, <1>5, SumsSame
<1>10. Same(SumFunctionOnSet(Q, Wallet), SumFunctionOnSet(P, Wallet) + SumFunctionOnSet(e, Wallet))
  BY <1>1, <1>3, <1>4, <1>5, SumsSame
<1> QED
  BY <1>6, <1>7, <1>8, <1>9, <1>10

\* The sums over the balances that Save writes.
LEMMA SavedSums ==
    ASSUME NEW f, Balances(f), NEW g, Balances(g), NEW h, Balances(h),
           \A w \in Wallet : Summed(BalanceIn(f, w), BalanceIn(g, w), BalanceIn(h, w))
    PROVE  /\ Same(OwnSum(h), OwnSum(f) + OwnSum(g))
           /\ Same(ForgedSum(h), ForgedSum(f) + ForgedSum(g))
<1> DEFINE F == [w \in Wallet |-> Own(BalanceIn(f, w))]
           G == [w \in Wallet |-> Own(BalanceIn(g, w))]
           H == [w \in Wallet |-> Own(BalanceIn(h, w))]
           P == [w \in Wallet |-> BalanceIn(f, w).forged]
           Q == [w \in Wallet |-> BalanceIn(g, w).forged]
           R == [w \in Wallet |-> BalanceIn(h, w).forged]
<1>1. IsFiniteSet(Wallet)
  BY LedgerAssumption
<1>2. \A w \in Wallet : F[w] \in Int /\ G[w] \in Int /\ H[w] \in Int
  BY OwnFacts
<1>3. \A w \in Wallet : P[w] \in Int /\ Q[w] \in Int /\ R[w] \in Int
  BY OwnFacts
<1>4. ASSUME NEW w \in Wallet
      PROVE  Same(H[w], F[w] + G[w]) /\ Same(R[w], P[w] + Q[w])
  <2> DEFINE x == BalanceIn(f, w)
             y == BalanceIn(g, w)
             z == BalanceIn(h, w)
  <2>1. Summed(x, y, z)
    OBVIOUS
  <2>2. /\ F[w] = Own(x) /\ G[w] = Own(y) /\ H[w] = Own(z)
        /\ P[w] = x.forged /\ Q[w] = y.forged /\ R[w] = z.forged
    OBVIOUS
  <2>3. x \in Balance /\ y \in Balance /\ z \in Balance
    BY DEF Balances
  <2> HIDE DEF x, y, z, F, G, H, P, Q, R
  <2>4. /\ Same(Net(z.balance), Net(x.balance) + Net(y.balance))
        /\ Same(Net(z.delegate), Net(x.delegate) + Net(y.delegate))
        /\ Same(z.forged, x.forged + y.forged)
    BY <2>1 DEF Summed, Moved
  <2>5. /\ Net(x.balance) \in Int /\ Net(y.balance) \in Int /\ Net(z.balance) \in Int
        /\ Net(x.delegate) \in Int /\ Net(y.delegate) \in Int /\ Net(z.delegate) \in Int
    BY <2>3, BalanceFacts, ElementFacts
  <2>6. Same(Net(z.balance) - Net(z.delegate),
             (Net(x.balance) + Net(y.balance)) - (Net(x.delegate) + Net(y.delegate)))
    <3>1. Net(x.balance) + Net(y.balance) \in Int /\ Net(x.delegate) + Net(y.delegate) \in Int
      BY <2>5
    <3> QED
      BY <2>4, <2>5, <3>1, SameSum
  <2>7. (Net(x.balance) + Net(y.balance)) - (Net(x.delegate) + Net(y.delegate))
          = (Net(x.balance) - Net(x.delegate)) + (Net(y.balance) - Net(y.delegate))
    BY <2>5
  <2> QED
    BY <2>2, <2>4, <2>6, <2>7 DEF Own
<1>5. /\ OwnSum(f) = SumFunctionOnSet(F, Wallet) /\ OwnSum(g) = SumFunctionOnSet(G, Wallet)
      /\ OwnSum(h) = SumFunctionOnSet(H, Wallet)
      /\ ForgedSum(f) = SumFunctionOnSet(P, Wallet) /\ ForgedSum(g) = SumFunctionOnSet(Q, Wallet)
      /\ ForgedSum(h) = SumFunctionOnSet(R, Wallet)
  BY DEF OwnSum, ForgedSum
<1> HIDE DEF F, G, H, P, Q, R
<1>6. Same(SumFunctionOnSet(H, Wallet), SumFunctionOnSet(F, Wallet) + SumFunctionOnSet(G, Wallet))
  BY <1>1, <1>2, <1>4, SumsSame
<1>7. Same(SumFunctionOnSet(R, Wallet), SumFunctionOnSet(P, Wallet) + SumFunctionOnSet(Q, Wallet))
  BY <1>1, <1>3, <1>4, SumsSame
<1> QED
  BY <1>5, <1>6, <1>7

LEMMA NoSums == OwnSum(Empty) = 0 /\ ForgedSum(Empty) = 0
<1> DEFINE F == [w \in Wallet |-> Own(BalanceIn(Empty, w))]
           P == [w \in Wallet |-> BalanceIn(Empty, w).forged]
<1>1. IsFiniteSet(Wallet)
  BY LedgerAssumption
<1>2. /\ ZeroBalance.forged = 0 /\ ZeroBalance.balance = ZeroElement
      /\ ZeroBalance.delegate = ZeroElement
  BY DEF ZeroBalance
<1>3. \A w \in Wallet : F[w] = 0 /\ P[w] = 0
  BY <1>2, ZeroFacts DEF Own
<1>4. OwnSum(Empty) = SumFunctionOnSet(F, Wallet) /\ ForgedSum(Empty) = SumFunctionOnSet(P, Wallet)
  BY DEF OwnSum, ForgedSum
<1> HIDE DEF F, P
<1> QED
  BY <1>1, <1>3, <1>4, SumZero

(***************************************************************************)
(* The money in circulation.                                               *)
(***************************************************************************)

\* The balances f and g and the transactions I of the chain c account for it.
Accounted(c, I, f, g, money) ==
    Same(money, (OwnSum(f) + OwnSum(g)) + (FeeSum(c, I) + GoneSum(c, I)))

LEMMA AccountedTx ==
    ASSUME NEW c, NEW I, IsFiniteSet(I), NEW id, id \notin I,
           \A x \in I \cup {id} : At(c, x) \in Transaction,
           NEW tx, tx = At(c, id), NEW isForging, MintsWell(tx, isForging),
           NEW f, Balances(f), NEW g, Balances(g), NEW h, Balances(h),
           Same(OwnSum(h), OwnSum(g) + Gain(tx)),
           NEW money \in Int, Accounted(c, I, f, g, money), NEW now,
           now = IF tx.from = InitialWallet \/ isForging
                 THEN (money + tx.value) % Modulus ELSE money
    PROVE  Accounted(c, I \cup {id}, f, h, now)
<1> DEFINE fee == IF PaidTx(tx) THEN tx.fee ELSE 0
           gone == IF GoneTx(tx) THEN tx.value ELSE 0
           new == IF tx.from = InitialWallet \/ isForging THEN tx.value ELSE 0
           gain == Gain(tx)
           F == OwnSum(f)
           G == OwnSum(g)
           H == OwnSum(h)
           A == FeeSum(c, I)
           B == GoneSum(c, I)
<1>1. tx \in Transaction
  OBVIOUS
<1>2. tx.value \in Int /\ tx.fee \in Int
  BY <1>1, TxFacts
<1>3. A \in Int /\ B \in Int /\ FeeSum(c, I \cup {id}) = A + fee
      /\ GoneSum(c, I \cup {id}) = B + gone
  BY FeeSumAdd
<1>4. F \in Int /\ G \in Int /\ H \in Int
  BY OwnFacts
<1>5. fee \in Int /\ gone \in Int /\ new \in Int
  BY <1>2
<1>6. gain \in Int
  BY <1>2 DEF Gain
<1>7. new = gain + fee + gone
  BY <1>1, Circulates
<1>8. now \in Int /\ Same(now, money + new)
  <2>1. CASE tx.from = InitialWallet \/ isForging
    <3>1. now = (money + tx.value) % Modulus /\ new = tx.value
      BY <2>1
    <3>2. money + tx.value \in Int
      BY <1>2
    <3>3. (money + tx.value) % Modulus \in 0..(Modulus - 1)
          /\ Same((money + tx.value) % Modulus, money + tx.value)
      BY <3>2, RemainderSame
    <3> QED
      BY <3>1, <3>3
  <2>2. CASE ~(tx.from = InitialWallet \/ isForging)
    <3>1. now = money /\ new = 0 /\ money + 0 = money
      BY <2>2
    <3> QED
      BY <3>1, SameAgain
  <2> QED
    BY <2>1, <2>2
<1>9. Same(money, (F + G) + (A + B))
  BY DEF Accounted
<1> HIDE DEF fee, gone, new, gain, F, G, H, A, B
<1>10. PICK i \in Multiples : i = now - (money + new)
  BY <1>8 DEF Same
<1>11. PICK j \in Multiples : j = money - ((F + G) + (A + B))
  BY <1>9 DEF Same
<1>12. PICK k \in Multiples : k = H - (G + gain)
  BY DEF Same, F, G, H, gain
<1>13. i \in Int /\ j \in Int /\ k \in Int /\ (i + j) - k \in Multiples
  BY MultiplesClosed
<1>14. now - ((F + H) + ((A + fee) + (B + gone))) = (i + j) - k
  BY <1>3, <1>4, <1>5, <1>6, <1>7, <1>8, <1>10, <1>11, <1>12, <1>13
<1>15. Same(now, (F + H) + ((A + fee) + (B + gone)))
  BY <1>13, <1>14 DEF Same
<1> QED
  BY <1>3, <1>15 DEF Accounted, F, H

LEMMA AccountedSaved ==
    ASSUME NEW c, NEW I, FeeSum(c, I) \in Int, GoneSum(c, I) \in Int,
           NEW f, Balances(f), NEW g, Balances(g), NEW h, Balances(h),
           Same(OwnSum(h), OwnSum(f) + OwnSum(g)),
           NEW money \in Int, Accounted(c, I, f, g, money)
    PROVE  Accounted(c, I, h, Empty, money)
<1> DEFINE F == OwnSum(f)
           G == OwnSum(g)
           H == OwnSum(h)
           A == FeeSum(c, I)
           B == GoneSum(c, I)
<1>1. F \in Int /\ G \in Int /\ H \in Int
  BY OwnFacts
<1>2. Same(money, (F + G) + (A + B)) /\ Same(H, F + G) /\ A \in Int /\ B \in Int
  BY DEF Accounted
<1>3. OwnSum(Empty) = 0
  BY NoSums
<1> HIDE DEF F, G, H, A, B
<1>4. PICK i \in Multiples : i = money - ((F + G) + (A + B))
  BY <1>2 DEF Same
<1>5. PICK j \in Multiples : j = H - (F + G)
  BY <1>2 DEF Same
<1>6. i \in Int /\ j \in Int /\ i - j \in Multiples
  BY MultiplesClosed
<1>7. money - ((H + 0) + (A + B)) = i - j
  BY <1>1, <1>2, <1>4, <1>5, <1>6
<1>8. Same(money, (H + 0) + (A + B))
  BY <1>6, <1>7 DEF Same
<1> QED
  BY <1>3, <1>8 DEF Accounted, H, A, B

(***************************************************************************)
(* The transactions a block or all blocks have gone through.               *)
(***************************************************************************)

Ids == AppliedTxs \cup DoneTxs

LEMMA IdFacts ==
    ASSUME LdInv
    PROVE  /\ \A x \in Ids : At(chain, x) \in Transaction
           /\ \A x \in AppliedTxs : x[1] \in Nat /\ x[1] <= db.number
           /\ \A x \in DoneTxs : x[1] = working /\ x[2] \in 1..(next - 1)
<1>1. /\ chain \in Chains /\ db.number \in 0..Len(chain) /\ working \in 0..Len(chain)
      /\ (working = 0 => next = 0)
      /\ (working # 0 => next \in 1..(Len(chain[working].txs) + 1))
      /\ applied \subseteq 1..db.number /\ Len(chain) \in Nat
  BY ChainFacts DEF LdInv, PlaceOK
<1>2. ASSUME NEW x \in AppliedTxs
      PROVE  x[1] \in Nat /\ x[1] <= db.number /\ At(chain, x) \in Transaction
  <2>1. PICK n \in applied : x \in {<<n, i>> : i \in DOMAIN chain[n].txs}
    BY Zenon DEF AppliedTxs
  <2>2. PICK i \in DOMAIN chain[n].txs : x = <<n, i>>
    BY <2>1
  <2>3. n \in 1..Len(chain) /\ n \in Nat /\ n <= db.number
    BY <1>1
  <2>4. chain[n].txs \in Seq(Transaction) /\ i \in 1..Len(chain[n].txs)
    BY <1>1, <2>2, <2>3, ChainFacts
  <2>5. chain[n].txs[i] \in Transaction
    BY <2>4
  <2> QED
    BY <2>2, <2>3, <2>5 DEF At
<1>3. ASSUME NEW x \in DoneTxs
      PROVE  x[1] = working /\ x[2] \in 1..(next - 1) /\ At(chain, x) \in Transaction
  <2>1. PICK i \in 1..(next - 1) : x = <<working, i>>
    BY DEF DoneTxs
  <2>2. working # 0
    BY <1>1, <2>1
  <2>3. working \in 1..Len(chain) /\ next \in 1..(Len(chain[working].txs) + 1)
    BY <1>1, <2>2
  <2>4. chain[working].txs \in Seq(Transaction) /\ Len(chain[working].txs) \in Nat
    BY <1>1, <2>3, ChainFacts
  <2>5. i \in 1..Len(chain[working].txs)
    BY <2>3, <2>4
  <2>6. chain[working].txs[i] \in Transaction
    BY <2>4, <2>5
  <2> QED
    BY <2>1, <2>6 DEF At
<1> QED
  BY <1>2, <1>3 DEF Ids

LEMMA NextIds ==
    ASSUME LdInv, CounterLasts, WellFormed, NextTx
    PROVE  /\ AppliedTxs' = AppliedTxs /\ DoneTxs' = DoneTxs \cup {<<working, next>>}
           /\ Ids' = Ids \cup {<<working, next>>} /\ <<working, next>> \notin Ids
           /\ ThisTx = At(chain, <<working, next>>)
<1>1. /\ UNCHANGED <<chain, db, working, applied>> /\ next' = next + 1
      /\ working \in Nat /\ next \in 1..Len(chain[working].txs) /\ working \in 1..Len(chain)
      /\ ThisTx = TxAt(<<working, next>>)
  BY NextTxFacts
<1>2. Len(chain[working].txs) \in Nat
  BY <1>1, ChainFacts DEF LdInv, PlaceOK
<1>3. next \in Nat /\ next >= 1 /\ db.number < working /\ db.number \in Nat
  <2>1. db.number \in 0..Len(chain) /\ Len(chain) \in Nat /\ working # 0
    BY <1>1, ChainFacts DEF LdInv, PlaceOK
  <2> QED
    BY <1>1, <1>2, <2>1 DEF LdInv, PlaceOK
<1>4. AppliedTxs' = AppliedTxs
  BY <1>1 DEF AppliedTxs
<1>5. 1..((next + 1) - 1) = 1..(next - 1) \cup {next}
  BY <1>3
<1>6. DoneTxs' = DoneTxs \cup {<<working, next>>}
  BY <1>1, <1>5, Zenon DEF DoneTxs
<1>7. <<working, next>> \notin Ids
  <2>1. <<working, next>>[1] = working /\ <<working, next>>[2] = next
    OBVIOUS
  <2>2. <<working, next>> \notin AppliedTxs
    BY <1>1, <1>3, <2>1, IdFacts
  <2>3. <<working, next>> \notin DoneTxs
    <3>1. next \notin 1..(next - 1)
      BY <1>3
    <3> QED
      BY <2>1, <3>1, IdFacts
  <2> QED
    BY <2>2, <2>3 DEF Ids
<1>8. ThisTx = At(chain, <<working, next>>)
  BY <1>1 DEF TxAt, At
<1> QED
  BY <1>4, <1>6, <1>7, <1>8 DEF Ids

\* What the first i - 1 transactions of block k of the chain c forge.
Minted(c, k, i) ==
    IF k # 0 /\ c[k].type = "forging"
    THEN SumFunctionOnSet([j \in DOMAIN c[k].txs |-> c[k].txs[j].value], 1..(i - 1))
    ELSE 0

MoneyIn ==
    /\ db.common.money \in 0..(Modulus - 1) /\ batch.common.money \in 0..(Modulus - 1)
    /\ db.common.blockNumber \in Nat /\ db.common.blockNumber <= db.number
    /\ batch.common.blockNumber \in Nat
    /\ batch.common.blockNumber <= db.number \/ batch.common.blockNumber = working
    /\ IsFiniteSet(Ids)
    /\ Accounted(chain, AppliedTxs, db.balances, Empty, db.common.money)
    /\ Accounted(chain, Ids, db.balances, batch.balances, batch.common.money)
    /\ db.forgingSum \in 0..(Modulus - 1) /\ Same(db.forgingSum, ForgedSum(db.balances))
    /\ Same(ForgedSum(batch.balances), Minted(chain, working, next))

LEMMA MintedNothing ==
    ASSUME NEW c, NEW k, NEW i, k = 0 \/ i = 1
    PROVE  Minted(c, k, i) = 0
<1>1. CASE k = 0
  BY <1>1 DEF Minted
<1>2. CASE i = 1
  <2>1. 1..(i - 1) = {}
    BY <1>2
  <2> QED
    BY <2>1, SumEmpty DEF Minted
<1> QED
  BY <1>1, <1>2

LEMMA MintedMore ==
    ASSUME NEW c \in Chains, NEW k \in 1..Len(c), NEW i \in 1..Len(c[k].txs)
    PROVE  /\ Minted(c, k, i) \in Int
           /\ Minted(c, k, i + 1) = Minted(c, k, i) +
                (IF c[k].type = "forging" THEN c[k].txs[i].value ELSE 0)
           /\ c[k].txs[i].value \in Int
<1> DEFINE txs == c[k].txs
           v == [j \in DOMAIN txs |-> txs[j].value]
           S == 1..(i - 1)
<1>1. txs \in Seq(Transaction) /\ Len(txs) \in Nat /\ DOMAIN txs = 1..Len(txs) /\ Len(c) \in Nat
  BY ChainFacts
<1>2. i \in Nat /\ i >= 1 /\ i <= Len(txs) /\ k # 0
  BY <1>1
<1>3. \A j \in 1..Len(txs) : v[j] \in Int /\ v[j] = txs[j].value
  <2> TAKE j \in 1..Len(txs)
  <2>1. txs[j] \in Transaction /\ j \in DOMAIN txs
    BY <1>1
  <2>2. txs[j].value \in Int
    BY <2>1, TxFacts
  <2> QED
    BY <2>1, <2>2
<1>4. (i + 1) - 1 = i /\ 1..i = S \cup {i} /\ i \notin S /\ S \subseteq 1..Len(txs)
      /\ i \in 1..Len(txs)
  BY <1>1, <1>2
<1>5. IsFiniteSet(S)
  BY <1>2, FS_Interval
<1> HIDE DEF v, S, txs
<1>6. SumFunctionOnSet(v, S \cup {i}) = SumFunctionOnSet(v, S) + v[i]
  BY <1>3, <1>4, <1>5, SumAdd
<1>7. SumFunctionOnSet(v, S) \in Int
  BY <1>3, <1>4, <1>5, SumType
<1>8. CASE c[k].type = "forging"
  <2>1. Minted(c, k, i) = SumFunctionOnSet(v, S)
    BY <1>2, <1>8 DEF Minted, v, S, txs
  <2>2. Minted(c, k, i + 1) = SumFunctionOnSet(v, S \cup {i})
    <3>1. Minted(c, k, i + 1) = SumFunctionOnSet(v, 1..((i + 1) - 1))
      BY <1>2, <1>8 DEF Minted, v, txs
    <3> QED
      BY <1>4, <3>1
  <2> QED
    BY <1>3, <1>4, <1>6, <1>7, <1>8, <2>1, <2>2 DEF txs
<1>9. CASE c[k].type # "forging"
  <2>1. Minted(c, k, i) = 0 /\ Minted(c, k, i + 1) = 0
    BY <1>9 DEF Minted
  <2> QED
    BY <1>3, <1>4, <1>9, <2>1 DEF txs
<1> QED
  BY <1>8, <1>9

LEMMA MoneyInit == LdInit => MoneyIn
<1> SUFFICES ASSUME LdInit PROVE MoneyIn
  OBVIOUS
<1>1. /\ db.number = 0 /\ db.balances = Empty /\ db.forgingSum = 0
      /\ db.common.money = 0 /\ db.common.blockNumber = 0
      /\ working = 0 /\ next = 0 /\ applied = {}
  BY DEF LdInit, EmptyDb
<1>2. batch.balances = Empty /\ batch.common = db.common
  BY DEF LdInit, NewBatch
<1>3. AppliedTxs = {} /\ DoneTxs = {}
  <2>1. 1..(0 - 1) = {}
    OBVIOUS
  <2> QED
    BY <1>1, <2>1 DEF AppliedTxs, DoneTxs
<1>4. Ids = {} /\ IsFiniteSet({})
  BY <1>3, FS_EmptySet DEF Ids
<1>5. FeeSum(chain, {}) = 0 /\ GoneSum(chain, {}) = 0
  <2>1. PaidIn(chain, {}) = {} /\ GoneIn(chain, {}) = {}
    BY DEF PaidIn, GoneIn
  <2> QED
    BY <2>1, SumEmpty DEF FeeSum, GoneSum
<1>6. Same(0, 0) /\ (0 + 0) + (0 + 0) = 0
  BY SameAgain
<1>7. Accounted(chain, {}, Empty, Empty, 0)
  BY <1>5, <1>6, NoSums DEF Accounted
<1>8. Minted(chain, working, next) = 0
  BY <1>1, MintedNothing
<1>9. 0 \in 0..(Modulus - 1)
  BY LedgerAssumption
<1> QED
  BY <1>1, <1>2, <1>3, <1>4, <1>6, <1>7, <1>8, <1>9, NoSums DEF MoneyIn

LEMMA MoneyAfresh ==
    ASSUME MoneyIn, Afresh
    PROVE  MoneyIn'
<1>1. /\ UNCHANGED <<chain, db, applied>>
      /\ batch'.balances = Empty /\ batch'.common = db.common /\ DoneTxs' = {}
  BY AfreshFacts
<1>2. AppliedTxs' = AppliedTxs
  BY <1>1 DEF AppliedTxs
<1>3. Ids' = AppliedTxs
  BY <1>1, <1>2 DEF Ids
<1>4. IsFiniteSet(AppliedTxs)
  BY FS_Subset DEF MoneyIn, Ids
<1>5. Minted(chain', working', next') = 0
  BY MintedNothing DEF Afresh
<1>6. Same(ForgedSum(batch'.balances), Minted(chain', working', next'))
  BY <1>1, <1>5, NoSums, SameAgain
<1> QED
  BY <1>1, <1>2, <1>3, <1>4, <1>6 DEF MoneyIn

LEMMA MoneyNextTx ==
    ASSUME Modules = AllModules, WellFormed, WellMinted, LdInv, BooksOK, CounterLasts, MoneyIn,
           NextTx
    PROVE  MoneyIn'
<1> DEFINE tx == ThisTx
           id == <<working, next>>
           f == chain[working].type = "forging"
<1>1. /\ UNCHANGED <<chain, db, working, applied>> /\ working \in Nat /\ next' = next + 1
      /\ tx \in Transaction /\ WellFormedTx(tx) /\ working \in 1..Len(chain)
      /\ IsBatch(batch) /\ KeysFor(tx) <= batch.count
      /\ batch' = ProcessTx(batch, tx, id, f)
      /\ id[1] = working /\ next \in 1..Len(chain[working].txs)
  BY NextTxFacts
<1>2. /\ BatchRows(db.delegates, batch) /\ Balances(batch.balances) /\ Balances(db.balances)
  BY DEF BooksOK
<1>3. /\ AppliedTxs' = AppliedTxs /\ Ids' = Ids \cup {id} /\ id \notin Ids /\ tx = At(chain, id)
  BY NextIds
<1>4. f \in BOOLEAN /\ tx = chain[working].txs[next] /\ MintsWell(tx, f) /\ chain \in Chains
  BY <1>1 DEF ThisTx, WellMinted, LdInv, PlaceOK
<1>5. db.number < working /\ db.number \in Nat
  <2>1. db.number \in 0..Len(chain) /\ Len(chain) \in Nat /\ working # 0
    BY <1>1, ChainFacts DEF LdInv, PlaceOK
  <2> QED
    BY <2>1 DEF LdInv, PlaceOK
<1>6. "block" \in Modules /\ "balance" \in Modules
  BY DEF AllModules
<1> HIDE DEF tx, id, f
<1>7. PICK ok \in BOOLEAN, value \in Nat : TxDone(batch, batch', tx, id, f, ok, value)
  BY <1>1, <1>2, TxStep
<1>8. Balances(batch'.balances)
  BY <1>7 DEF TxDone
<1>9. \A w \in Wallet : WalletMoved(BalanceIn(batch.balances, w), BalanceIn(batch'.balances, w),
                                    tx, w, working, f, ok, value)
  BY <1>1, <1>6, <1>7 DEF TxDone
<1>10. PICK g : g = batch'.balances
  OBVIOUS
<1>11. /\ Same(OwnSum(g), OwnSum(batch.balances) + Gain(tx))
       /\ Same(ForgedSum(g), ForgedSum(batch.balances) + (IF f THEN tx.value ELSE 0))
  <2>1. Balances(g) /\ \A w \in Wallet : WalletMoved(BalanceIn(batch.balances, w), BalanceIn(g, w),
                                                    tx, w, working, f, ok, value)
    BY <1>8, <1>9, <1>10, Zenon
  <2>2. tx \in Transaction /\ MintsWell(tx, f) /\ f \in BOOLEAN
    BY <1>1, <1>4
  <2> QED
    BY <1>2, <2>1, <2>2, TxSums, Zenon
<1>12. Mints(tx, id[1], f) <=> tx.from = InitialWallet \/ f
  <2>1. db.common.blockNumber < working
    BY <1>1, <1>5 DEF MoneyIn
  <2> QED
    BY <1>1, <1>6, <2>1 DEF Mints
<1>13. PICK now : now = IF tx.from = InitialWallet \/ f
                        THEN (batch.common.money + tx.value) % Modulus ELSE batch.common.money
  OBVIOUS
<1>14. /\ batch'.common.money = now
       /\ batch'.common.blockNumber = working \/ batch'.common = batch.common
  <2>1. batch'.common = IF Mints(tx, id[1], f)
                        THEN [money |-> (batch.common.money + tx.value) % Modulus,
                              blockNumber |-> id[1]]
                        ELSE batch.common
    BY <1>7, Zenon DEF TxDone
  <2>2. CASE Mints(tx, id[1], f)
    <3>1. batch'.common = [money |-> (batch.common.money + tx.value) % Modulus,
                           blockNumber |-> working]
      BY <1>1, <2>1, <2>2
    <3>2. now = (batch.common.money + tx.value) % Modulus
      BY <1>12, <1>13, <2>2, Zenon
    <3> QED
      BY <3>1, <3>2
  <2>3. CASE ~Mints(tx, id[1], f)
    <3>1. batch'.common = batch.common
      BY <2>1, <2>3, Zenon
    <3>2. now = batch.common.money
      BY <1>12, <1>13, <2>3, Zenon
    <3> QED
      BY <3>1, <3>2
  <2> QED
    BY <2>2, <2>3
<1>15. batch.common.money \in 0..(Modulus - 1) /\ batch.common.money \in Int
  BY DEF MoneyIn
<1>16. now \in 0..(Modulus - 1)
  <2>1. tx.value \in Int
    BY <1>1, TxFacts
  <2>2. batch.common.money + tx.value \in Int
    BY <1>15, <2>1
  <2>3. (batch.common.money + tx.value) % Modulus \in 0..(Modulus - 1)
    BY <2>2, RemainderSame
  <2> QED
    BY <1>13, <1>15, <2>3
<1>17. IsFiniteSet(Ids) /\ IsFiniteSet(Ids')
  <2>1. IsFiniteSet(Ids)
    BY DEF MoneyIn
  <2> QED
    BY <1>3, <2>1, FS_AddElement
<1>18. Accounted(chain, Ids \cup {id}, db.balances, g, now)
  <2>1. \A x \in Ids \cup {id} : At(chain, x) \in Transaction
    BY <1>1, <1>3, IdFacts
  <2>2. Accounted(chain, Ids, db.balances, batch.balances, batch.common.money)
    BY DEF MoneyIn
  <2> QED
    BY <1>2, <1>3, <1>4, <1>8, <1>10, <1>11, <1>13, <1>15, <1>17, <2>1, <2>2, AccountedTx
<1>19. Same(ForgedSum(g), Minted(chain, working, next + 1))
  <2> DEFINE more == IF f THEN tx.value ELSE 0
             m == Minted(chain, working, next)
  <2>1. m \in Int /\ more \in Int /\ Minted(chain, working, next + 1) = m + more
    BY <1>1, <1>4, MintedMore DEF f
  <2>2. ForgedSum(batch.balances) \in Int /\ ForgedSum(g) \in Int
    BY <1>2, <1>8, <1>10, OwnFacts
  <2>3. Same(ForgedSum(batch.balances), m) /\ Same(ForgedSum(g), ForgedSum(batch.balances) + more)
    BY <1>11 DEF MoneyIn
  <2> HIDE DEF m, more
  <2>4. Same(ForgedSum(g), m + more)
    BY <2>1, <2>2, <2>3, SameChain
  <2> QED
    BY <2>1, <2>4
<1>20. /\ batch'.common.blockNumber \in Nat
       /\ batch'.common.blockNumber <= db.number \/ batch'.common.blockNumber = working
  BY <1>1, <1>14 DEF MoneyIn
<1>21. Accounted(chain', Ids', db'.balances, batch'.balances, batch'.common.money)
  BY <1>1, <1>3, <1>10, <1>14, <1>18
<1>22. Same(ForgedSum(batch'.balances), Minted(chain', working', next'))
  BY <1>1, <1>10, <1>19
<1> QED
  BY <1>1, <1>3, <1>14, <1>16, <1>17, <1>20, <1>21, <1>22 DEF MoneyIn

\* All transactions of a forging block are done when it is saved.
LEMMA SavedForging ==
    ASSUME WellMinted, LdInv, CounterLasts, MoneyIn, Save, Balances(db.balances),
           Balances(batch.balances)
    PROVE  /\ NewForgingSum \in 0..(Modulus - 1)
           /\ Same(NewForgingSum, ForgedSum(db.balances) + ForgedSum(batch.balances))
<1> DEFINE txs == chain[working].txs
           v == [i \in DOMAIN txs |-> txs[i].value]
           forging == {i \in DOMAIN txs : txs[i].status = "forging"}
           m == Minted(chain, working, next)
           F == ForgedSum(db.balances)
           B == ForgedSum(batch.balances)
           s == db.forgingSum
<1>1. Complete /\ working \in 1..Len(chain) /\ chain \in Chains
  BY SaveFacts DEF LdInv, PlaceOK
<1>2. /\ txs \in Seq(Transaction) /\ Len(txs) \in Nat /\ DOMAIN txs = 1..Len(txs)
      /\ Len(chain) \in Nat /\ working # 0 /\ next \in 1..(Len(txs) + 1)
  <2>1. Len(chain) \in Nat /\ working # 0
    BY <1>1, ChainFacts
  <2> QED
    BY <1>1, <2>1, ChainFacts DEF LdInv, PlaceOK
<1>3. F \in Int /\ B \in Int
  BY OwnFacts
<1>4. s \in 0..(Modulus - 1) /\ s \in Int /\ Same(s, F) /\ Same(B, m)
  BY DEF MoneyIn
<1>5. CASE chain[working].type = "forging"
  <2>1. next > Len(txs)
    BY <1>1, <1>5 DEF Complete
  <2>2. 1..(next - 1) = DOMAIN txs
    BY <1>2, <2>1
  <2>3. forging = DOMAIN txs
    <3>1. \A i \in DOMAIN txs : txs[i].status = "forging"
      BY <1>1, <1>2, <1>5 DEF WellMinted, MintsWell
    <3> QED
      BY <3>1
  <2>4. m = SumFunctionOnSet(v, DOMAIN txs)
    BY <1>2, <1>5, <2>2 DEF Minted
  <2>5. NewForgingSum = (s + SumFunctionOnSet(v, forging)) % Modulus
    BY <1>5 DEF NewForgingSum
  <2>6. m \in Int
    <3>1. IsFiniteSet(1..Len(txs))
      <4>1. PICK l \in Int : l = Len(txs)
        BY <1>2
      <4>2. IsFiniteSet(1..l)
        BY FS_Interval
      <4> QED
        BY <4>1, <4>2
    <3>2. \A i \in 1..Len(txs) : v[i] \in Int
      <4> TAKE i \in 1..Len(txs)
      <4>1. txs[i] \in Transaction /\ i \in DOMAIN txs
        BY <1>2
      <4>2. txs[i].value \in Int
        BY <4>1, TxFacts
      <4> QED
        BY <4>1, <4>2
    <3> HIDE DEF v, txs, m
    <3> QED
      BY <1>2, <2>4, <3>1, <3>2, SumType
  <2>7. NewForgingSum = (s + m) % Modulus
    BY <2>3, <2>4, <2>5
  <2> HIDE DEF m, s, F, B
  <2>8. NewForgingSum \in 0..(Modulus - 1) /\ Same(NewForgingSum, s + m)
    <3>1. s + m \in Int
      BY <1>4, <2>6
    <3> QED
      BY <2>7, <3>1, RemainderSame
  <2>9. PICK n \in Int : n = NewForgingSum
    BY <2>8
  <2>10. PICK i \in Multiples : i = n - (s + m)
    BY <2>8, <2>9 DEF Same
  <2>11. PICK j \in Multiples : j = s - F
    BY <1>4 DEF Same
  <2>12. PICK k \in Multiples : k = B - m
    BY <1>4 DEF Same
  <2>13. i \in Int /\ j \in Int /\ k \in Int /\ (i + j) - k \in Multiples
    BY MultiplesClosed
  <2>14. n - (F + B) = (i + j) - k
    BY <1>3, <1>4, <2>6, <2>10, <2>11, <2>12, <2>13
  <2>15. Same(n, F + B)
    BY <2>13, <2>14 DEF Same
  <2> QED
    BY <2>8, <2>9, <2>15 DEF F, B
<1>6. CASE chain[working].type # "forging"
  <2>1. NewForgingSum = s
    BY <1>6 DEF NewForgingSum
  <2>2. m = 0
    BY <1>6 DEF Minted
  <2> HIDE DEF m, s, F, B
  <2>3. Same(s + 0, F + B)
    <3>1. Same(0, B)
      <4>1. PICK i \in Multiples : i = B - 0
        BY <1>4, <2>2 DEF Same
      <4>2. 0 - i \in Multiples /\ 0 - i = 0 - B
        BY <1>3, <4>1, MultiplesClosed
      <4> QED
        BY <4>2 DEF Same
    <3> QED
      BY <1>3, <1>4, <3>1, SameSum
  <2>4. s + 0 = s
    BY <1>4
  <2> QED
    BY <1>4, <2>1, <2>3, <2>4 DEF F, B, s
<1> QED
  BY <1>5, <1>6

LEMMA MoneySave ==
    ASSUME Modules = AllModules, WellMinted, LdInv, BooksOK, CounterLasts, MoneyIn, Save
    PROVE  MoneyIn'
<1>1. /\ working \in Nat /\ db.number \in Nat /\ db.number < working /\ chain' = chain
      /\ db'.number = working /\ db'.balances = NewBalances /\ db'.common = batch.common
      /\ db'.forgingSum = NewForgingSum /\ working' = 0
      /\ batch'.balances = Empty /\ batch'.common = batch.common
      /\ DoneTxs' = {} /\ AppliedTxs' = AppliedTxs \cup DoneTxs
  BY SaveFacts
<1>2. /\ Balances(db.balances) /\ Balances(batch.balances)
      /\ \A w \in Wallet : BalanceIn(db.balances, w).blockNumber <= db.number
  BY DEF BooksOK
<1>3. \A w \in Wallet : BalanceIn(db.balances, w).blockNumber < working
  <2>1. \A w \in Wallet : BalanceIn(db.balances, w).blockNumber \in Nat
    BY <1>2, BalanceFacts DEF Balances
  <2> QED
    BY <1>1, <1>2, <2>1
<1>4. /\ Balances(NewBalances)
      /\ \A w \in Wallet : Summed(BalanceIn(db.balances, w), BalanceIn(batch.balances, w),
                                  BalanceIn(NewBalances, w))
  BY <1>1, <1>2, <1>3, SavedBalances
<1>5. /\ Same(OwnSum(NewBalances), OwnSum(db.balances) + OwnSum(batch.balances))
      /\ Same(ForgedSum(NewBalances), ForgedSum(db.balances) + ForgedSum(batch.balances))
  BY <1>2, <1>4, SavedSums
<1>6. AppliedTxs' = Ids /\ Ids' = Ids
  BY <1>1 DEF Ids
<1>7. FeeSum(chain, Ids) \in Int /\ GoneSum(chain, Ids) \in Int
  <2>1. \A x \in Ids : At(chain, x).fee \in Int /\ At(chain, x).value \in Int
    BY IdFacts, TxFacts
  <2>2. IsFiniteSet(Ids)
    BY DEF MoneyIn
  <2> DEFINE S == PaidIn(chain, Ids)
             T == GoneIn(chain, Ids)
             p == [x \in S |-> At(chain, x).fee]
             q == [x \in T |-> At(chain, x).value]
  <2>3. S \subseteq Ids /\ T \subseteq Ids
    BY DEF PaidIn, GoneIn
  <2>4. IsFiniteSet(S) /\ IsFiniteSet(T)
    BY <2>2, <2>3, FS_Subset
  <2>5. (\A x \in S : p[x] \in Int) /\ \A x \in T : q[x] \in Int
    BY <2>1, <2>3
  <2>6. FeeSum(chain, Ids) = SumFunctionOnSet(p, S) /\ GoneSum(chain, Ids) = SumFunctionOnSet(q, T)
    BY DEF FeeSum, GoneSum
  <2> HIDE DEF S, T, p, q
  <2> QED
    BY <2>4, <2>5, <2>6, SumType
<1>8. batch.common.money \in Int
  BY DEF MoneyIn
<1>9. Accounted(chain, Ids, NewBalances, Empty, batch.common.money)
  <2>1. Accounted(chain, Ids, db.balances, batch.balances, batch.common.money)
    BY DEF MoneyIn
  <2> QED
    BY <1>2, <1>4, <1>5, <1>7, <1>8, <2>1, AccountedSaved
<1>10. NewForgingSum \in 0..(Modulus - 1) /\ Same(NewForgingSum, ForgedSum(NewBalances))
  <2>1. /\ NewForgingSum \in 0..(Modulus - 1)
        /\ Same(NewForgingSum, ForgedSum(db.balances) + ForgedSum(batch.balances))
    BY <1>2, SavedForging
  <2>2. /\ ForgedSum(db.balances) \in Int /\ ForgedSum(batch.balances) \in Int
        /\ ForgedSum(NewBalances) \in Int
    BY <1>2, <1>4, OwnFacts
  <2>3. PICK i \in Multiples : i = NewForgingSum - (ForgedSum(db.balances) + ForgedSum(batch.balances))
    BY <2>1 DEF Same
  <2>4. PICK j \in Multiples :
           j = ForgedSum(NewBalances) - (ForgedSum(db.balances) + ForgedSum(batch.balances))
    BY <1>5 DEF Same
  <2>5. i - j \in Multiples /\ i \in Int /\ j \in Int
    BY MultiplesClosed
  <2>6. PICK n \in Int : n = NewForgingSum
    BY <2>1
  <2>7. PICK h \in Int : h = ForgedSum(NewBalances)
    BY <2>2
  <2>8. n - h = i - j
    BY <2>2, <2>3, <2>4, <2>5, <2>6, <2>7
  <2> QED
    BY <2>1, <2>5, <2>6, <2>7, <2>8 DEF Same
<1>11. Same(ForgedSum(batch'.balances), Minted(chain', working', next'))
  <2>1. Minted(chain', working', next') = 0
    BY <1>1, MintedNothing
  <2> QED
    BY <1>1, <2>1, NoSums, SameAgain
<1>12. batch.common.blockNumber <= working
  BY <1>1 DEF MoneyIn
<1> QED
  BY <1>1, <1>6, <1>9, <1>10, <1>11, <1>12 DEF MoneyIn

MoneyOK == Modules = AllModules => MoneyIn

LEMMA MoneyKept ==
    ASSUME WellFormed, WellMinted, LdInv, BooksOK, CounterLasts, MoneyOK, [LdNext]_ldVars
    PROVE  MoneyOK'
<1> SUFFICES ASSUME Modules = AllModules PROVE MoneyIn'
  BY DEF MoneyOK
<1>1. MoneyIn
  BY DEF MoneyOK
<1>2. CASE NoChange
  <2>1. AppliedTxs' = AppliedTxs /\ DoneTxs' = DoneTxs
    BY <1>2 DEF NoChange, AppliedTxs, DoneTxs
  <2>2. Ids' = Ids
    BY <2>1 DEF Ids
  <2> QED
    BY <1>1, <1>2, <2>1, <2>2 DEF NoChange, MoneyIn
<1>3. CASE Afresh
  BY <1>1, <1>3, MoneyAfresh
<1>4. CASE NextTx
  BY <1>1, <1>4, MoneyNextTx
<1>5. CASE Save
  BY <1>1, <1>5, MoneySave
<1> QED
  BY <1>2, <1>3, <1>4, <1>5, Kinds

\* What Own says of a balance is what calcBalanceWithoutDelegate says.
LEMMA OwnIs ==
    ASSUME NEW f, Balances(f), NEW h,
           h = [w \in Wallet |-> CalcBalanceWithoutDelegate(BalanceIn(f, w))]
    PROVE  /\ SumFunctionOnSet(h, Wallet) \in Int
           /\ Same(SumFunctionOnSet(h, Wallet), OwnSum(f))
<1> DEFINE g == [w \in Wallet |-> Own(BalanceIn(f, w))]
           z == [w \in Wallet |-> 0]
<1>1. IsFiniteSet(Wallet)
  BY LedgerAssumption
<1>2. \A w \in Wallet : g[w] \in Int /\ z[w] = 0 /\ z[w] \in Int
  BY OwnFacts
<1>3. \A w \in Wallet : h[w] \in Int /\ Same(h[w], g[w] + z[w])
  <2> TAKE w \in Wallet
  <2> DEFINE x == BalanceIn(f, w)
             e == x.balance.received - x.balance.spent + x.delegate.spent - x.delegate.received
  <2>1. x \in Balance
    BY DEF Balances
  <2> HIDE DEF x
  <2>2. x.balance \in Element /\ x.delegate \in Element
    BY <2>1, BalanceFacts
  <2>3. /\ x.balance.received \in Int /\ x.balance.spent \in Int
        /\ x.delegate.received \in Int /\ x.delegate.spent \in Int
    BY <2>2, ElementFacts
  <2>4. e \in Int /\ e = Own(x) + 0
    BY <2>3 DEF Own, Net
  <2>5. h[w] = e % Modulus /\ g[w] = Own(x) /\ z[w] = 0
    BY DEF CalcBalanceWithoutDelegate, x
  <2> HIDE DEF e, g, z
  <2>6. e % Modulus \in 0..(Modulus - 1) /\ Same(e % Modulus, e)
    BY <2>4, RemainderSame
  <2> QED
    BY <2>4, <2>5, <2>6
<1>5. OwnSum(f) = SumFunctionOnSet(g, Wallet)
  BY DEF OwnSum
<1> HIDE DEF g, z
<1>6. SumFunctionOnSet(z, Wallet) = 0
  BY <1>1, <1>2, SumZero
<1>7. Same(SumFunctionOnSet(h, Wallet), SumFunctionOnSet(g, Wallet) + SumFunctionOnSet(z, Wallet))
  BY <1>1, <1>2, <1>3, SumsSame
<1>8. SumFunctionOnSet(h, Wallet) \in Int /\ SumFunctionOnSet(g, Wallet) \in Int
  BY <1>1, <1>2, <1>3, SumType
<1>9. SumFunctionOnSet(g, Wallet) + 0 = SumFunctionOnSet(g, Wallet)
  BY <1>8
<1> QED
  BY <1>5, <1>6, <1>7, <1>8, <1>9

LEMMA MoneyProperty ==
    ASSUME LdInv, BooksOK, MoneyOK
    PROVE  MoneyConserved
<1> DEFINE paid == {id \in AppliedTxs : /\ TxAt(id).status \notin {"wrongMoney", "nodeTest"}
                                        /\ TxAt(id).from # InitialWallet}
           gone == {id \in paid : TxAt(id).to = InitialWallet}
           T == Total(LAMBDA w : CalcBalanceWithoutDelegate(BalanceIn(db.balances, w)))
           A == SumOver(paid, LAMBDA tx : tx.fee)
           B == SumOver(gone, LAMBDA tx : tx.value)
           P == Total(LAMBDA w : BalanceIn(db.balances, w).forged)
<1> SUFFICES ASSUME Modules = AllModules
             PROVE  /\ db.common.money = (T + A + B) % Modulus
                    /\ db.forgingSum = P % Modulus
  BY DEF MoneyConserved
<1>1. MoneyIn /\ Balances(db.balances)
  BY DEF MoneyOK, BooksOK
<1>2. T \in Int /\ Same(T, OwnSum(db.balances))
  <2>1. PICK h : h = [w \in Wallet |-> CalcBalanceWithoutDelegate(BalanceIn(db.balances, w))]
    OBVIOUS
  <2>2. T = SumFunctionOnSet(h, Wallet)
    BY <2>1 DEF Total
  <2> HIDE DEF T
  <2>3. SumFunctionOnSet(h, Wallet) \in Int /\ Same(SumFunctionOnSet(h, Wallet), OwnSum(db.balances))
    BY <1>1, <2>1, OwnIs
  <2> QED
    BY <2>2, <2>3
<1>3. P = ForgedSum(db.balances)
  BY DEF Total, ForgedSum
<1>4. \A id : TxAt(id) = At(chain, id)
  BY DEF TxAt, At
<1>5. paid = PaidIn(chain, AppliedTxs) /\ gone = GoneIn(chain, AppliedTxs)
  <2>1. \A id : id \in paid <=> id \in PaidIn(chain, AppliedTxs)
    BY <1>4, Zenon DEF PaidIn, PaidTx
  <2>2. \A id : id \in gone <=> id \in GoneIn(chain, AppliedTxs)
    BY <1>4, Zenon DEF GoneIn, GoneTx, PaidTx
  <2> QED
    BY <2>1, <2>2
<1> HIDE DEF paid, gone
<1>6. A = FeeSum(chain, AppliedTxs)
  <2>1. A = SumFunctionOnSet([id \in paid |-> TxAt(id).fee], paid)
    BY DEF SumOver
  <2>2. [id \in paid |-> TxAt(id).fee] = [id \in paid |-> At(chain, id).fee]
    BY <1>4
  <2> QED
    BY <1>5, <2>1, <2>2 DEF FeeSum
<1>7. B = GoneSum(chain, AppliedTxs)
  <2>1. B = SumFunctionOnSet([id \in gone |-> TxAt(id).value], gone)
    BY DEF SumOver
  <2>2. [id \in gone |-> TxAt(id).value] = [id \in gone |-> At(chain, id).value]
    BY <1>4
  <2> QED
    BY <1>5, <2>1, <2>2 DEF GoneSum
<1> HIDE DEF T, A, B, P
<1>8. A \in Int /\ B \in Int
  <2>1. \A x \in AppliedTxs : At(chain, x).fee \in Int /\ At(chain, x).value \in Int
    BY IdFacts, TxFacts DEF Ids
  <2>2. IsFiniteSet(AppliedTxs)
    BY <1>1, FS_Subset DEF MoneyIn, Ids
  <2> DEFINE S == PaidIn(chain, AppliedTxs)
             R == GoneIn(chain, AppliedTxs)
             p == [x \in S |-> At(chain, x).fee]
             q == [x \in R |-> At(chain, x).value]
  <2>3. S \subseteq AppliedTxs /\ R \subseteq AppliedTxs
    BY DEF PaidIn, GoneIn
  <2>4. IsFiniteSet(S) /\ IsFiniteSet(R)
    BY <2>2, <2>3, FS_Subset
  <2>5. (\A x \in S : p[x] \in Int) /\ \A x \in R : q[x] \in Int
    BY <2>1, <2>3
  <2>6. A = SumFunctionOnSet(p, S) /\ B = SumFunctionOnSet(q, R)
    BY <1>6, <1>7 DEF FeeSum, GoneSum
  <2> HIDE DEF S, R, p, q
  <2> QED
    BY <2>4, <2>5, <2>6, SumType
<1>9. db.common.money = (T + A + B) % Modulus
  <2> DEFINE F == OwnSum(db.balances)
             m == db.common.money
             s == T + A + B
  <2>1. F \in Int /\ s \in Int
    BY <1>1, <1>2, <1>8, OwnFacts
  <2>2. m \in 0..(Modulus - 1) /\ m \in Int
    BY <1>1 DEF MoneyIn
  <2>3. Same(m, (F + 0) + (A + B))
    BY <1>1, <1>6, <1>7, NoSums DEF MoneyIn, Accounted
  <2>4. Same(T, F)
    BY <1>2
  <2> HIDE DEF F, m
  <2>5. PICK i \in Multiples : i = m - ((F + 0) + (A + B))
    BY <2>3 DEF Same
  <2>6. PICK j \in Multiples : j = T - F
    BY <2>4 DEF Same
  <2>7. i \in Int /\ j \in Int /\ i - j \in Multiples
    BY MultiplesClosed
  <2>8. m - s = i - j
    BY <1>2, <1>8, <2>1, <2>2, <2>5, <2>6, <2>7
  <2>9. Same(m, s)
    BY <2>7, <2>8 DEF Same
  <2> HIDE DEF s
  <2>10. m % Modulus = s % Modulus
    BY <2>1, <2>2, <2>9, SameRemainder
  <2>11. m % Modulus = m
    BY <2>2, LedgerAssumption
  <2> QED
    BY <2>10, <2>11 DEF m, s
<1>10. db.forgingSum = P % Modulus
  <2> DEFINE m == db.forgingSum
  <2>1. P \in Int
    BY <1>1, <1>3, OwnFacts
  <2>2. m \in 0..(Modulus - 1) /\ m \in Int /\ Same(m, P)
    BY <1>1, <1>3 DEF MoneyIn
  <2> HIDE DEF m
  <2>3. m % Modulus = P % Modulus
    BY <2>1, <2>2, SameRemainder
  <2>4. m % Modulus = m
    BY <2>2, LedgerAssumption
  <2> QED
    BY <2>3, <2>4 DEF m
<1> QED
  BY <1>9, <1>10

\* No money is made or lost: what common says entered circulation is what the
\* wallets have, what they paid and what went back, and the forging sum is
\* what the wallets have forged, whatever fails and restarts.
THEOREM MoneyIsConserved ==
    ASSUME WellFormed, WellMinted
    PROVE  LdSpec /\ []CounterLasts => []MoneyConserved
<1>1. LdInit => BooksOK /\ MoneyOK
  BY BooksInit, MoneyInit DEF MoneyOK
<1>2. LdInv /\ BooksOK /\ MoneyOK /\ CounterLasts /\ [LdNext]_ldVars => (BooksOK /\ MoneyOK)'
  BY BooksStep, MoneyKept
<1>3. LdInv /\ BooksOK /\ MoneyOK => MoneyConserved
  BY MoneyProperty
<1> QED
  BY <1>1, <1>2, <1>3, LedgerInvariant, PTL DEF LdSpec

(***************************************************************************)
(* The tokens.                                                             *)
(***************************************************************************)

\* What the wallets have of the token t.
Held(t, f) == SumFunctionOnSet([w \in Wallet |-> Net(BalanceIn(f, w).tokens[t])], Wallet)

LEMMA HeldFacts ==
    ASSUME NEW f, Balances(f), NEW t \in Token
    PROVE  /\ \A w \in Wallet : /\ BalanceIn(f, w).tokens[t] \in Element
                                /\ Net(BalanceIn(f, w).tokens[t]) \in Int
           /\ Held(t, f) \in Int
<1>1. ASSUME NEW w \in Wallet
      PROVE  BalanceIn(f, w).tokens[t] \in Element /\ Net(BalanceIn(f, w).tokens[t]) \in Int
  <2>1. BalanceIn(f, w) \in Balance
    BY DEF Balances
  <2>2. BalanceIn(f, w).tokens[t] \in Element
    BY <2>1, BalanceFacts
  <2> QED
    BY <2>2, ElementFacts
<1> DEFINE g == [w \in Wallet |-> Net(BalanceIn(f, w).tokens[t])]
<1>2. IsFiniteSet(Wallet)
  BY LedgerAssumption
<1>3. (\A w \in Wallet : g[w] \in Int) /\ Held(t, f) = SumFunctionOnSet(g, Wallet)
  BY <1>1 DEF Held
<1> HIDE DEF g
<1>4. Held(t, f) \in Int
  BY <1>2, <1>3, SumType
<1> QED
  BY <1>1, <1>4

\* What a successful operation adds to what the wallets have of its token.
Supplied(tx) ==
    CASE tx.op \in {"create", "add"} -> tx.amount
      [] tx.op = "burn" -> 0 - tx.amount
      [] OTHER -> 0

LEMMA SuppliedSum ==
    ASSUME NEW tx \in Transaction, WellFormedTx(tx), tx.op \in TokenOps, ~NotSuccess(tx),
           NEW d, \A w \in Wallet : d[w] = TokenAdds(tx, w)
    PROVE  SumFunctionOnSet(d, Wallet) = Supplied(tx) /\ Supplied(tx) \in Int
           /\ \A w \in Wallet : d[w] \in Int
<1>1. IsFiniteSet(Wallet) /\ tx.amount \in Int /\ tx.target \in Wallet /\ tx.from \in Wallet
  BY TxFacts, LedgerAssumption DEF WellFormedTx
<1>2. CASE tx.op = "create"
  <2> DEFINE s == SumFunction(tx.dist)
             e == tx.amount - s
             q == [w \in Wallet |-> IF w = tx.target THEN e ELSE 0]
             D == tx.dist
  <2>1. D \in [Wallet -> Nat]
    BY DEF Transaction
  <2>2. \A w \in Wallet : D[w] \in Int
    BY <2>1
  <2>3. s = SumFunctionOnSet(D, Wallet)
    BY <2>1 DEF SumFunction
  <2>4. SumFunctionOnSet(D, Wallet) \in Int
    <3> HIDE DEF D
    <3> QED
      BY <1>1, <2>2, SumType
  <2>5. e \in Int /\ s \in Int
    <3> HIDE DEF s, D
    <3> QED
      BY <1>1, <2>3, <2>4
  <2>6. \A w \in Wallet : q[w] = IF w = tx.target THEN e ELSE 0
    OBVIOUS
  <2>7. \A w \in Wallet : d[w] = D[w] + q[w]
    BY <1>2 DEF TokenAdds
  <2>8. Supplied(tx) = tx.amount
    BY <1>2 DEF Supplied
  <2> HIDE DEF q, e, s, D
  <2>9. SumFunctionOnSet(q, Wallet) = e
    <3>1. SumFunctionOnSet(q, Wallet) = IF tx.target \in Wallet THEN e ELSE 0
      BY <1>1, <2>5, <2>6, SumOne
    <3> QED
      BY <1>1, <3>1
  <2>10. \A w \in Wallet : q[w] \in Int
    BY <2>5, <2>6
  <2>11. SumFunctionOnSet(d, Wallet) = SumFunctionOnSet(D, Wallet) + SumFunctionOnSet(q, Wallet)
    BY <1>1, <2>2, <2>7, <2>10, SumPlus
  <2>12. SumFunctionOnSet(d, Wallet) = s + e
    BY <2>3, <2>9, <2>11
  <2>13. s + e = tx.amount
    BY <1>1, <2>5 DEF e
  <2>14. \A w \in Wallet : d[w] \in Int
    BY <2>2, <2>7, <2>10
  <2> QED
    BY <1>1, <2>8, <2>12, <2>13, <2>14
<1>3. CASE tx.op = "add"
  <2>1. \A w \in Wallet : d[w] = IF w = tx.target THEN tx.amount ELSE 0
    BY <1>3 DEF TokenAdds
  <2>2. SumFunctionOnSet(d, Wallet) = IF tx.target \in Wallet THEN tx.amount ELSE 0
    BY <1>1, <2>1, SumOne
  <2>3. Supplied(tx) = tx.amount
    BY <1>3 DEF Supplied
  <2> QED
    BY <1>1, <2>1, <2>2, <2>3
<1>4. CASE tx.op = "burn"
  <2> DEFINE v == 0 - tx.amount
  <2>1. \A w \in Wallet : d[w] = IF w = tx.from THEN v ELSE 0
    BY <1>4 DEF TokenAdds
  <2>2. v \in Int
    BY <1>1
  <2>3. Supplied(tx) = v
    BY <1>4 DEF Supplied
  <2> HIDE DEF v
  <2>4. SumFunctionOnSet(d, Wallet) = IF tx.from \in Wallet THEN v ELSE 0
    BY <1>1, <2>1, <2>2, SumOne
  <2> QED
    BY <1>1, <2>1, <2>2, <2>3, <2>4
<1>5. CASE tx.op = "move"
  <2> DEFINE v == 0 - tx.amount
             p == [w \in Wallet |-> IF w = tx.from THEN v ELSE 0]
             q == [w \in Wallet |-> IF w = tx.target THEN tx.amount ELSE 0]
             P == SumFunctionOnSet(p, Wallet)
             Q == SumFunctionOnSet(q, Wallet)
  <2>1. v \in Int
    BY <1>1
  <2>2. \A w \in Wallet : p[w] \in Int /\ q[w] \in Int /\ d[w] = p[w] + q[w]
    BY <1>1, <1>5 DEF TokenAdds
  <2>3. \A w \in Wallet : p[w] = IF w = tx.from THEN v ELSE 0
    OBVIOUS
  <2>4. \A w \in Wallet : q[w] = IF w = tx.target THEN tx.amount ELSE 0
    OBVIOUS
  <2> HIDE DEF p, q, v
  <2>5. P = v
    <3>1. P = IF tx.from \in Wallet THEN v ELSE 0
      BY <1>1, <2>1, <2>3, SumOne
    <3> QED
      BY <1>1, <3>1
  <2>6. Q = tx.amount
    <3>1. Q = IF tx.target \in Wallet THEN tx.amount ELSE 0
      BY <1>1, <2>4, SumOne
    <3> QED
      BY <1>1, <3>1
  <2>7. SumFunctionOnSet(d, Wallet) = P + Q
    BY <1>1, <2>2, SumPlus
  <2>8. Supplied(tx) = 0
    BY <1>5 DEF Supplied
  <2>9. v + tx.amount = 0
    BY <1>1 DEF v
  <2>10. \A w \in Wallet : d[w] \in Int
    BY <2>2
  <2> QED
    BY <2>5, <2>6, <2>7, <2>8, <2>9, <2>10
<1>6. CASE tx.op = "owner"
  <2>1. \A w \in Wallet : d[w] = 0
    BY <1>6 DEF TokenAdds
  <2>2. SumFunctionOnSet(d, Wallet) = 0
    BY <1>1, <2>1, SumZero
  <2>3. Supplied(tx) = 0
    BY <1>6 DEF Supplied
  <2> QED
    BY <2>1, <2>2, <2>3
<1> QED
  BY <1>2, <1>3, <1>4, <1>5, <1>6 DEF TokenOps

\* A transaction changes what the wallets have of its own token only.
LEMMA HeldTx ==
    ASSUME NEW f, Balances(f), NEW g, Balances(g), NEW tx \in Transaction, WellFormedTx(tx),
           NEW n, NEW isForging, NEW ok, NEW value, NEW t \in Token,
           \A w \in Wallet : WalletMoved(BalanceIn(f, w), BalanceIn(g, w), tx, w, n,
                                         isForging, ok, value)
    PROVE  /\ OnToken(tx, t) => Same(Held(t, g), Held(t, f) + Supplied(tx)) /\ Supplied(tx) \in Int
           /\ ~OnToken(tx, t) => Same(Held(t, g), Held(t, f))
<1> DEFINE d == [w \in Wallet |-> IF tx.op \in TokenOps /\ tx.to = t THEN TokensOf(tx)[w] ELSE 0]
           F == [w \in Wallet |-> Net(BalanceIn(f, w).tokens[t])]
           G == [w \in Wallet |-> Net(BalanceIn(g, w).tokens[t])]
<1>1. IsFiniteSet(Wallet)
  BY LedgerAssumption
<1>2. \A w \in Wallet : F[w] \in Int /\ G[w] \in Int
  BY HeldFacts
<1>3. \A w \in Wallet : d[w] \in Int /\ Same(G[w], F[w] + d[w])
  <2> TAKE w \in Wallet
  <2>1. WalletMoved(BalanceIn(f, w), BalanceIn(g, w), tx, w, n, isForging, ok, value)
    OBVIOUS
  <2>2. Moved(BalanceIn(f, w).tokens[t], BalanceIn(g, w).tokens[t],
              IF tx.op \in TokenOps /\ tx.to = t THEN TokensOf(tx)[w] ELSE 0)
    BY <2>1, Zenon DEF WalletMoved
  <2>3. Moved(BalanceIn(f, w).tokens[t], BalanceIn(g, w).tokens[t], d[w])
    BY <2>2
  <2> HIDE DEF d
  <2> QED
    BY <2>3 DEF Moved
<1>4. Held(t, f) = SumFunctionOnSet(F, Wallet) /\ Held(t, g) = SumFunctionOnSet(G, Wallet)
  BY DEF Held
<1>5. Held(t, f) \in Int
  BY HeldFacts
<1>6. Same(Held(t, g), Held(t, f) + SumFunctionOnSet(d, Wallet))
  <2> HIDE DEF d, F, G
  <2> QED
    BY <1>1, <1>2, <1>3, <1>4, SumsSame
<1>7. CASE OnToken(tx, t)
  <2>1. tx.op \in TokenOps /\ tx.to = t /\ ~NotSuccess(tx)
    BY <1>7 DEF OnToken
  <2>2. \A w \in Wallet : d[w] = TokenAdds(tx, w)
    BY <2>1 DEF TokensOf
  <2> HIDE DEF d
  <2>3. SumFunctionOnSet(d, Wallet) = Supplied(tx) /\ Supplied(tx) \in Int
    BY <2>1, <2>2, SuppliedSum
  <2> QED
    BY <1>6, <1>7, <2>3
<1>8. CASE ~OnToken(tx, t)
  <2>1. \A w \in Wallet : d[w] = 0
    BY <1>8 DEF OnToken, TokensOf
  <2> HIDE DEF d
  <2>2. SumFunctionOnSet(d, Wallet) = 0
    BY <1>1, <2>1, SumZero
  <2>3. Held(t, f) + 0 = Held(t, f)
    BY <1>5
  <2> QED
    BY <1>6, <1>8, <2>2, <2>3
<1> QED
  BY <1>7, <1>8

LEMMA HeldSaved ==
    ASSUME NEW f, Balances(f), NEW g, Balances(g), NEW h, Balances(h), NEW t \in Token,
           \A w \in Wallet : Summed(BalanceIn(f, w), BalanceIn(g, w), BalanceIn(h, w))
    PROVE  Same(Held(t, h), Held(t, f) + Held(t, g))
<1> DEFINE F == [w \in Wallet |-> Net(BalanceIn(f, w).tokens[t])]
           G == [w \in Wallet |-> Net(BalanceIn(g, w).tokens[t])]
           H == [w \in Wallet |-> Net(BalanceIn(h, w).tokens[t])]
<1>1. IsFiniteSet(Wallet)
  BY LedgerAssumption
<1>2. \A w \in Wallet : F[w] \in Int /\ G[w] \in Int /\ H[w] \in Int
  BY HeldFacts
<1>3. \A w \in Wallet : Same(H[w], F[w] + G[w])
  BY DEF Summed, Moved
<1>4. /\ Held(t, f) = SumFunctionOnSet(F, Wallet) /\ Held(t, g) = SumFunctionOnSet(G, Wallet)
      /\ Held(t, h) = SumFunctionOnSet(H, Wallet)
  BY DEF Held
<1> HIDE DEF F, G, H
<1> QED
  BY <1>1, <1>2, <1>3, <1>4, SumsSame

LEMMA HeldNothing ==
    ASSUME NEW t \in Token
    PROVE  Held(t, Empty) = 0
<1> DEFINE F == [w \in Wallet |-> Net(BalanceIn(Empty, w).tokens[t])]
<1>1. IsFiniteSet(Wallet)
  BY LedgerAssumption
<1>2. ZeroBalance.tokens[t] = ZeroElement
  BY DEF ZeroBalance
<1>3. \A w \in Wallet : F[w] = 0
  BY <1>2, ZeroFacts
<1>4. Held(t, Empty) = SumFunctionOnSet(F, Wallet)
  BY DEF Held
<1> HIDE DEF F
<1> QED
  BY <1>1, <1>3, <1>4, SumZero

(***************************************************************************)
(* The records of the tokens.                                              *)
(***************************************************************************)

Record == [owner : Party, allValue : 0..(Modulus - 1)]

RecordTx(tx, t) == OnToken(tx, t) /\ tx.op # "move"

\* f and g have the same record of t.
SameRecord(f, g, t) ==
    /\ t \in DOMAIN g <=> t \in DOMAIN f
    /\ t \in DOMAIN f => g[t] = f[t]

\* The record of t after an operation on it: one that is not created starts from
\* the database.
RecordChanged(f, g, t, tx) ==
    IF tx.op = "create" \/ t \in DOMAIN db.tokens
    THEN /\ t \in DOMAIN g /\ g[t] \in Record
         /\ Same(g[t].allValue,
                 (IF tx.op = "create" THEN 0 ELSE db.tokens[t].allValue) + Supplied(tx))
    ELSE SameRecord(f, g, t)

\* g is f with v at k.
StoredAs(f, k, v, g) ==
    DOMAIN g = DOMAIN f \cup {k} /\ g[k] = v /\ \A x : x # k => SameRecord(f, g, x)

LEMMA StoredRecord ==
    ASSUME NEW f, NEW k, NEW v
    PROVE  StoredAs(f, k, v, Store(f, k, v))
<1>1. PICK g : g = Store(f, k, v)
  OBVIOUS
<1>2. DOMAIN g = DOMAIN f \cup {k} /\ g[k] = v /\ \A x \in DOMAIN f : x # k => g[x] = f[x]
  BY <1>1 DEF Store
<1>3. \A x : x # k => SameRecord(f, g, x)
  BY <1>2 DEF SameRecord
<1>4. StoredAs(f, k, v, g)
  BY <1>2, <1>3 DEF StoredAs
<1> QED
  BY <1>1, <1>4

LEMMA RecordStep ==
    ASSUME NEW tx \in Transaction, WellFormedTx(tx), tx.op \in TokenOps,
           tx.op = "create" => tx.amount < Modulus,
           \A t \in DOMAIN db.tokens : db.tokens[t] \in Record,
           NEW f, NEW g, g = RecordsAfter(f, tx)
    PROVE  /\ DOMAIN g \subseteq DOMAIN f \cup {tx.to}
           /\ \A t : t # tx.to => SameRecord(f, g, t)
           /\ tx.op = "move" => g = f
           /\ tx.op # "move" => RecordChanged(f, g, tx.to, tx)
<1> DEFINE a == [tokens |-> f]
           t == tx.to
           r == db.tokens[t]
<1>1. a.tokens = f /\ \A v : [a EXCEPT !.tokens = v].tokens = v
  OBVIOUS
<1>2. tx.amount \in Nat /\ tx.amount \in Int /\ tx.target \in Party
  BY TxFacts DEF Transaction
<1>3. g = TokenRecord(a, tx).tokens
  BY DEF RecordsAfter
<1>4. SameRecord(f, f, t) /\ \A x : SameRecord(f, f, x)
  BY DEF SameRecord
<1>5. CASE tx.op = "create"
  <2> DEFINE v == [owner |-> tx.target, allValue |-> tx.amount]
  <2>1. g = Store(f, t, v)
    BY <1>1, <1>3, <1>5 DEF TokenRecord
  <2>2. v \in Record /\ v.allValue = tx.amount
    BY <1>2, <1>5, LedgerAssumption DEF Record
  <2>3. Supplied(tx) = tx.amount /\ 0 + tx.amount = tx.amount
    BY <1>2, <1>5 DEF Supplied
  <2>4. Same(tx.amount, 0 + tx.amount)
    BY <1>2, <2>3, SameAgain
  <2> HIDE DEF v
  <2>5. DOMAIN g = DOMAIN f \cup {t} /\ g[t] = v /\ \A x : x # t => SameRecord(f, g, x)
    <3> HIDE DEF t
    <3>1. StoredAs(f, t, v, g)
      BY <2>1, StoredRecord
    <3> QED
      BY <3>1 DEF StoredAs
  <2> QED
    BY <1>5, <2>2, <2>3, <2>4, <2>5 DEF RecordChanged
<1>6. CASE tx.op # "create" /\ (tx.op = "move" \/ t \notin DOMAIN db.tokens)
  <2>1. g = f
    BY <1>1, <1>3, <1>6 DEF TokenRecord, TokenOps, SetTokenRecord
  <2> QED
    BY <1>4, <1>6, <2>1 DEF RecordChanged
<1>7. CASE tx.op \notin {"create", "move"} /\ t \in DOMAIN db.tokens
  <2>1. r \in Record
    BY <1>7
  <2> HIDE DEF r
  <2>2. /\ r.allValue \in 0..(Modulus - 1) /\ r.allValue \in Int
        /\ \A v \in 0..(Modulus - 1) : /\ [r EXCEPT !["allValue"] = v] \in Record
                                       /\ [r EXCEPT !["allValue"] = v].allValue = v
        /\ \A p \in Party : /\ [r EXCEPT !["owner"] = p] \in Record
                            /\ [r EXCEPT !["owner"] = p].allValue = r.allValue
    BY <2>1 DEF Record
  <2>3. \E v \in Record : g = Store(f, t, v) /\ Same(v.allValue, r.allValue + Supplied(tx))
    <3>1. CASE tx.op = "owner"
      <4>1. g = Store(f, t, [r EXCEPT !["owner"] = tx.target])
        BY <1>1, <1>3, <1>7, <3>1 DEF TokenRecord, SetTokenRecord, r
      <4>2. Supplied(tx) = 0 /\ r.allValue + 0 = r.allValue
        BY <2>2, <3>1 DEF Supplied
      <4> QED
        <5> DEFINE v == [r EXCEPT !["owner"] = tx.target]
        <5>1. v \in Record /\ v.allValue = r.allValue
          BY <1>2, <2>2
        <5>2. Same(r.allValue, r.allValue)
          BY <2>2, SameAgain
        <5> HIDE DEF v
        <5> QED
          BY <4>1, <4>2, <5>1, <5>2 DEF v
    <3>2. CASE tx.op = "add"
      <4> DEFINE s == r.allValue + tx.amount
                 n == s % Modulus
      <4>1. g = Store(f, t, [r EXCEPT !["allValue"] = n])
        BY <1>1, <1>3, <1>7, <3>2 DEF TokenRecord, SetTokenRecord, r
      <4>2. Supplied(tx) = tx.amount
        BY <3>2 DEF Supplied
      <4>3. s \in Int
        BY <1>2, <2>2
      <4>4. n \in 0..(Modulus - 1) /\ Same(n, s)
        <5> HIDE DEF s
        <5> QED
          BY <4>3, RemainderSame
      <4>5. Same(n, r.allValue + Supplied(tx))
        BY <4>2, <4>4
      <4> HIDE DEF n
      <4> QED
        BY <2>2, <4>1, <4>4, <4>5
    <3>3. CASE tx.op = "burn"
      <4> DEFINE s == r.allValue - tx.amount
                 n == s % Modulus
      <4>1. g = Store(f, t, [r EXCEPT !["allValue"] = n])
        BY <1>1, <1>3, <1>7, <3>3 DEF TokenRecord, SetTokenRecord, r
      <4>2. Supplied(tx) = 0 - tx.amount
        BY <3>3 DEF Supplied
      <4>3. s \in Int /\ s = r.allValue + (0 - tx.amount)
        BY <1>2, <2>2
      <4>4. n \in 0..(Modulus - 1) /\ Same(n, s)
        <5> HIDE DEF s
        <5> QED
          BY <4>3, RemainderSame
      <4>5. Same(n, r.allValue + Supplied(tx))
        BY <4>2, <4>3, <4>4
      <4> HIDE DEF n
      <4> QED
        BY <2>2, <4>1, <4>4, <4>5
    <3> QED
      BY <1>7, <3>1, <3>2, <3>3 DEF TokenOps
  <2>4. PICK v \in Record : g = Store(f, t, v) /\ Same(v.allValue, r.allValue + Supplied(tx))
    BY <2>3
  <2>5. DOMAIN g = DOMAIN f \cup {t} /\ g[t] = v /\ \A x : x # t => SameRecord(f, g, x)
    <3> HIDE DEF t
    <3>1. StoredAs(f, t, v, g)
      BY <2>4, StoredRecord
    <3> QED
      BY <3>1 DEF StoredAs
  <2> QED
    BY <1>7, <2>4, <2>5 DEF RecordChanged, r
<1> QED
  BY <1>5, <1>6, <1>7

\* The transactions of the block that have written the record of t.
RecordsDone(t) == {i \in 1..(next - 1) : RecordTx(chain[working].txs[i], t)}

AtMostOne(S) == \A a, b \in S : a = b

OneEach(t) == \A n \in applied : AtMostOne(RecordOps(t, n))

DbToken(t) ==
    /\ t \in DOMAIN db.tokens => db.tokens[t] \in Record
    /\ OneEach(t) /\ t \in DOMAIN db.tokens =>
         Same(db.tokens[t].allValue, Held(t, db.balances))
    /\ (\A x \in AppliedTxs : ~OnToken(At(chain, x), t)) => Same(Held(t, db.balances), 0)

BatchToken(t) ==
    /\ t \in DOMAIN batch.tokens => batch.tokens[t] \in Record
    /\ RecordsDone(t) = {} => t \notin DOMAIN batch.tokens /\ Same(Held(t, batch.balances), 0)
    /\ AtMostOne(RecordsDone(t)) =>
         /\ OneEach(t) /\ t \in DOMAIN batch.tokens =>
              Same(batch.tokens[t].allValue, Held(t, db.balances) + Held(t, batch.balances))
         /\ t \in DOMAIN db.tokens /\ t \notin DOMAIN batch.tokens =>
              Same(Held(t, batch.balances), 0)

TokensIn ==
    /\ DOMAIN db.tokens \subseteq Token /\ DOMAIN batch.tokens \subseteq Token
    /\ \A t \in Token : DbToken(t) /\ BatchToken(t)

LEMMA NewToken ==
    ASSUME LdInv, CounterLasts, WellFormed, WellCreated, NextTx, ThisTx.op = "create",
           ~NotSuccess(ThisTx)
    PROVE  /\ ThisTx.amount < Modulus
           /\ \A x \in AppliedTxs : ~OnToken(At(chain, x), ThisTx.to)
<1>1. /\ working \in 1..Len(chain) /\ next \in 1..Len(chain[working].txs) /\ chain \in Chains
      /\ ThisTx = chain[working].txs[next]
  BY NextTxFacts DEF LdInv, PlaceOK, ThisTx
<1>2. /\ ThisTx.amount < Modulus
      /\ \A n \in 1..working : \A i \in 1..Len(chain[n].txs) :
           n < working \/ i < next => ~OnToken(chain[n].txs[i], ThisTx.to)
  BY <1>1 DEF WellCreated
<1>3. ASSUME NEW x \in AppliedTxs
      PROVE  ~OnToken(At(chain, x), ThisTx.to)
  <2>1. PICK n \in applied : x \in {<<n, i>> : i \in DOMAIN chain[n].txs}
    BY Zenon DEF AppliedTxs
  <2>2. PICK i \in DOMAIN chain[n].txs : x = <<n, i>>
    BY <2>1
  <2>3. /\ Len(chain) \in Nat /\ applied \subseteq 1..db.number /\ db.number < working
        /\ db.number \in 0..Len(chain)
    <3>1. Len(chain) \in Nat /\ working # 0
      BY <1>1, ChainFacts
    <3> QED
      BY <3>1 DEF LdInv, PlaceOK
  <2>4. n \in 1..Len(chain) /\ n \in 1..working /\ n < working
    BY <1>1, <2>3
  <2>5. i \in 1..Len(chain[n].txs)
    BY <1>1, <2>2, <2>4, ChainFacts
  <2> QED
    BY <1>2, <2>2, <2>4, <2>5 DEF At
<1> QED
  BY <1>2, <1>3

LEMMA RecordsDoneNext ==
    ASSUME LdInv, CounterLasts, WellFormed, NextTx, NEW t
    PROVE  /\ RecordsDone(t)' = IF RecordTx(ThisTx, t) THEN RecordsDone(t) \cup {next}
                                ELSE RecordsDone(t)
           /\ next \notin RecordsDone(t)
           /\ OneEach(t)' <=> OneEach(t)
<1>1. /\ UNCHANGED <<chain, working, applied>> /\ next' = next + 1
      /\ working \in 1..Len(chain) /\ next \in 1..Len(chain[working].txs)
      /\ ThisTx = chain[working].txs[next]
  BY NextTxFacts DEF ThisTx
<1>2. next \in Nat
  <2>1. Len(chain[working].txs) \in Nat
    BY <1>1, ChainFacts DEF LdInv, PlaceOK
  <2> QED
    BY <1>1, <2>1
<1>3. 1..((next + 1) - 1) = 1..(next - 1) \cup {next} /\ next \notin 1..(next - 1)
  BY <1>1, <1>2
<1>4. RecordsDone(t)' = {i \in 1..(next - 1) \cup {next} : RecordTx(chain[working].txs[i], t)}
  BY <1>1, <1>3, Zenon DEF RecordsDone
<1>5. OneEach(t)' <=> OneEach(t)
  BY <1>1 DEF OneEach, RecordOps
<1> HIDE DEF RecordTx
<1> QED
  BY <1>1, <1>3, <1>4, <1>5 DEF RecordsDone

LEMMA SameMinus ==
    ASSUME NEW a \in Int, NEW b \in Int, NEW c \in Int, Same(a, b), Same(b, c)
    PROVE  Same(a, c)
<1>1. PICK i \in Multiples : i = a - b
  BY DEF Same
<1>2. PICK j \in Multiples : j = b - c
  BY DEF Same
<1>3. i \in Int /\ j \in Int /\ i + j \in Multiples
  BY MultiplesClosed
<1>4. a - c = i + j
  BY <1>1, <1>2, <1>3
<1> QED
  BY <1>3, <1>4 DEF Same

LEMMA SameSwap ==
    ASSUME NEW a \in Int, NEW b \in Int, Same(a, b)
    PROVE  Same(b, a)
<1>1. PICK i \in Multiples : i = a - b
  BY DEF Same
<1>2. 0 - i \in Multiples /\ b - a = 0 - i
  BY <1>1, MultiplesClosed
<1> QED
  BY <1>2 DEF Same

LEMMA TokensInit == LdInit => TokensIn
<1> SUFFICES ASSUME LdInit PROVE TokensIn
  OBVIOUS
<1>1. /\ db.tokens = Empty /\ db.balances = Empty /\ next = 0
  BY DEF LdInit, EmptyDb
<1>2. batch.tokens = Empty /\ batch.balances = Empty
  BY DEF LdInit, NewBatch
<1>3. DOMAIN Empty = {}
  BY DEF Empty
<1>4. ASSUME NEW t \in Token
      PROVE  DbToken(t) /\ BatchToken(t)
  <2>1. Same(Held(t, Empty), 0)
    BY HeldNothing, SameAgain
  <2> QED
    BY <1>1, <1>2, <1>3, <2>1 DEF DbToken, BatchToken
<1> QED
  BY <1>1, <1>2, <1>3, <1>4 DEF TokensIn

LEMMA TokensAfresh ==
    ASSUME TokensIn, Afresh
    PROVE  TokensIn'
<1>1. /\ UNCHANGED <<chain, db, applied>>
      /\ batch'.balances = Empty /\ batch'.tokens = Empty
  BY AfreshFacts
<1>2. DOMAIN Empty = {}
  BY DEF Empty
<1>3. ASSUME NEW t \in Token
      PROVE  DbToken(t)' /\ BatchToken(t)'
  <2>1. AppliedTxs' = AppliedTxs /\ (OneEach(t)' <=> OneEach(t))
    BY <1>1 DEF AppliedTxs, OneEach, RecordOps
  <2>2. DbToken(t)'
    BY <1>1, <2>1 DEF DbToken, TokensIn
  <2>3. Same(Held(t, Empty), 0)
    BY HeldNothing, SameAgain
  <2>4. BatchToken(t)'
    BY <1>1, <1>2, <2>3 DEF BatchToken
  <2> QED
    BY <2>2, <2>4
<1> QED
  BY <1>1, <1>2, <1>3 DEF TokensIn

\* An operation that writes no record of t keeps what the batch says of it.
LEMMA BatchTokenKept ==
    ASSUME NEW t \in Token, DbToken(t), BatchToken(t), UNCHANGED <<chain, db>>,
           RecordsDone(t)' = RecordsDone(t), OneEach(t)' <=> OneEach(t),
           SameRecord(batch.tokens, batch'.tokens, t),
           Balances(db.balances), Balances(batch.balances), Balances(batch'.balances),
           Same(Held(t, batch'.balances), Held(t, batch.balances))
    PROVE  BatchToken(t)'
<1> DEFINE H == Held(t, db.balances)
           G == Held(t, batch.balances)
           K == Held(t, batch'.balances)
<1>1. H \in Int /\ G \in Int
  BY HeldFacts
<1>2. K \in Int
  <2>1. PICK g : g = batch'.balances
    OBVIOUS
  <2>2. Held(t, g) \in Int
    BY <2>1, HeldFacts
  <2> QED
    BY <2>1, <2>2
<1>3. Same(K, G) /\ Same(G, K)
  <2> HIDE DEF G, K
  <2>1. Same(K, G)
    BY DEF K, G
  <2> QED
    BY <1>1, <1>2, <2>1, SameSwap
<1>4. t \in DOMAIN batch'.tokens <=> t \in DOMAIN batch.tokens
  BY DEF SameRecord
<1>5. t \in DOMAIN batch.tokens => batch'.tokens[t] = batch.tokens[t]
  BY DEF SameRecord
<1>6. Same(G, 0) => Same(K, 0)
  <2> HIDE DEF G, K
  <2> QED
    BY <1>1, <1>2, <1>3, SameMinus
<1>7. ASSUME t \in DOMAIN batch.tokens, Same(batch.tokens[t].allValue, H + G)
      PROVE  Same(batch.tokens[t].allValue, H + K)
  <2>1. batch.tokens[t].allValue \in Int
    BY <1>7 DEF BatchToken, Record
  <2> HIDE DEF H, G, K
  <2>2. Same(H, H)
    BY <1>1, SameAgain
  <2>3. Same(H + G, H + K)
    BY <1>1, <1>2, <1>3, <2>2, SameSum
  <2>4. H + G \in Int /\ H + K \in Int
    BY <1>1, <1>2
  <2> QED
    BY <1>7, <2>1, <2>3, <2>4, SameMinus
<1> QED
  BY <1>4, <1>5, <1>6, <1>7 DEF BatchToken

\* The first operation of a block that writes the record of t starts from what
\* the database says.
LEMMA BatchTokenWritten ==
    ASSUME NEW t \in Token, DbToken(t), BatchToken(t), UNCHANGED <<chain, db>>,
           next \notin RecordsDone(t), RecordsDone(t)' = RecordsDone(t) \cup {next},
           OneEach(t)' <=> OneEach(t), NEW tx,
           RecordChanged(batch.tokens, batch'.tokens, t, tx),
           Balances(db.balances), Balances(batch.balances), Balances(batch'.balances),
           Supplied(tx) \in Int,
           Same(Held(t, batch'.balances), Held(t, batch.balances) + Supplied(tx)),
           tx.op = "create" => Same(Held(t, db.balances), 0)
    PROVE  BatchToken(t)'
<1> DEFINE H == Held(t, db.balances)
           G == Held(t, batch.balances)
           K == Held(t, batch'.balances)
           S == Supplied(tx)
           base == IF tx.op = "create" THEN 0 ELSE db.tokens[t].allValue
           all == batch'.tokens[t].allValue
<1>1. H \in Int /\ G \in Int
  BY HeldFacts
<1>2. K \in Int
  <2>1. PICK g : g = batch'.balances
    OBVIOUS
  <2>2. Held(t, g) \in Int
    BY <2>1, HeldFacts
  <2> QED
    BY <2>1, <2>2
<1>3. next \in RecordsDone(t)'
  OBVIOUS
<1>4. CASE tx.op = "create" \/ t \in DOMAIN db.tokens
  <2>1. t \in DOMAIN batch'.tokens /\ batch'.tokens[t] \in Record /\ Same(all, base + S)
    BY <1>4 DEF RecordChanged
  <2>2. all \in Int
    BY <2>1 DEF Record
  <2>3. ASSUME AtMostOne(RecordsDone(t)'), OneEach(t)
        PROVE  Same(all, H + K)
    <3>1. RecordsDone(t) = {}
      BY <1>3, <2>3 DEF AtMostOne
    <3>2. Same(G, 0)
      BY <3>1 DEF BatchToken
    <3>3. base \in Int /\ Same(base, H)
      <4>1. CASE tx.op = "create"
        <5>1. Same(0, H)
          <6> HIDE DEF H
          <6>1. Same(H, 0)
            BY <4>1 DEF H
          <6> QED
            BY <1>1, <6>1, SameSwap
        <5> QED
          BY <4>1, <5>1
      <4>2. CASE tx.op # "create"
        <5>1. t \in DOMAIN db.tokens /\ base = db.tokens[t].allValue
          BY <1>4, <4>2
        <5> QED
          BY <2>3, <5>1 DEF DbToken, Record
      <4> QED
        BY <4>1, <4>2
    <3> HIDE DEF H, G, K, S, base, all
    <3>4. PICK i \in Multiples : i = all - (base + S)
      BY <2>1 DEF Same
    <3>5. PICK j \in Multiples : j = base - H
      BY <3>3 DEF Same
    <3>6. PICK k \in Multiples : k = K - (G + S)
      BY DEF Same, K, G, S
    <3>7. PICK l \in Multiples : l = G - 0
      BY <3>2 DEF Same
    <3>8. ((i + j) - k) - l \in Multiples /\ i \in Int /\ j \in Int /\ k \in Int /\ l \in Int
      BY MultiplesClosed
    <3>9. S \in Int
      BY DEF S
    <3>10. all - (H + K) = ((i + j) - k) - l
      BY <1>1, <1>2, <2>2, <3>3, <3>4, <3>5, <3>6, <3>7, <3>8, <3>9
    <3> QED
      BY <3>8, <3>10 DEF Same
  <2> QED
    BY <1>3, <2>1, <2>3 DEF BatchToken
<1>5. CASE ~(tx.op = "create" \/ t \in DOMAIN db.tokens)
  <2>1. SameRecord(batch.tokens, batch'.tokens, t)
    BY <1>5 DEF RecordChanged
  <2>2. /\ t \in DOMAIN batch'.tokens <=> t \in DOMAIN batch.tokens
        /\ t \in DOMAIN batch.tokens => batch'.tokens[t] = batch.tokens[t]
    BY <2>1 DEF SameRecord
  <2>3. AtMostOne(RecordsDone(t)') => t \notin DOMAIN batch.tokens
    <3>1. ASSUME AtMostOne(RecordsDone(t)')
          PROVE  RecordsDone(t) = {}
      BY <1>3, <3>1 DEF AtMostOne
    <3> QED
      BY <3>1 DEF BatchToken
  <2>4. t \notin DOMAIN db.tokens
    BY <1>5
  <2> QED
    BY <1>3, <2>2, <2>3, <2>4 DEF BatchToken
<1> QED
  BY <1>4, <1>5

LEMMA TokensNextTx ==
    ASSUME "balance" \in Modules, "txs" \in Modules, WellFormed, WellCreated, LdInv, BooksOK,
           CounterLasts, TokensIn, NextTx
    PROVE  TokensIn'
<1> DEFINE tx == ThisTx
           id == <<working, next>>
           f == chain[working].type = "forging"
<1>1. /\ UNCHANGED <<chain, db, applied>> /\ working \in Nat
      /\ tx \in Transaction /\ WellFormedTx(tx)
      /\ IsBatch(batch) /\ KeysFor(tx) <= batch.count
      /\ batch' = ProcessTx(batch, tx, id, f) /\ id[1] = working
  BY NextTxFacts
<1>2. BatchRows(db.delegates, batch) /\ Balances(batch.balances) /\ Balances(db.balances)
  BY DEF BooksOK
<1>3. \A t : /\ RecordsDone(t)' = IF RecordTx(tx, t) THEN RecordsDone(t) \cup {next}
                                  ELSE RecordsDone(t)
             /\ next \notin RecordsDone(t)
             /\ OneEach(t)' <=> OneEach(t)
  BY RecordsDoneNext
<1>4. tx.op = "create" /\ ~NotSuccess(tx) =>
        /\ tx.amount < Modulus
        /\ \A x \in AppliedTxs : ~OnToken(At(chain, x), tx.to)
  BY NewToken
<1> HIDE DEF tx, id, f
<1>5. PICK ok \in BOOLEAN, value \in Nat : TxDone(batch, batch', tx, id, f, ok, value)
  BY <1>1, <1>2, TxStep
<1>6. PICK g : g = batch'.balances
  OBVIOUS
<1>7. /\ Balances(g)
      /\ \A w \in Wallet : WalletMoved(BalanceIn(batch.balances, w), BalanceIn(g, w), tx, w,
                                       working, f, ok, value)
  BY <1>1, <1>5, <1>6 DEF TxDone
<1>8. PICK h : h = batch'.tokens
  OBVIOUS
<1>9. h = IF ~NotSuccess(tx) /\ tx.op \in TokenOps THEN RecordsAfter(batch.tokens, tx)
          ELSE batch.tokens
  BY <1>5, <1>8, Zenon DEF TxDone
<1>10. /\ DOMAIN h \subseteq Token
       /\ \A t : ~RecordTx(tx, t) => SameRecord(batch.tokens, h, t)
       /\ \A t : RecordTx(tx, t) => RecordChanged(batch.tokens, h, t, tx)
  <2>1. \A t : SameRecord(batch.tokens, batch.tokens, t)
    BY DEF SameRecord
  <2>2. DOMAIN batch.tokens \subseteq Token
    BY DEF TokensIn
  <2>3. CASE ~NotSuccess(tx) /\ tx.op \in TokenOps
    <3>1. h = RecordsAfter(batch.tokens, tx) /\ tx.to \in Token
      BY <1>1, <1>9, <2>3 DEF WellFormedTx
    <3>2. \A t \in DOMAIN db.tokens : db.tokens[t] \in Record
      BY DEF TokensIn, DbToken
    <3>3. /\ DOMAIN h \subseteq DOMAIN batch.tokens \cup {tx.to}
          /\ \A t : t # tx.to => SameRecord(batch.tokens, h, t)
          /\ tx.op = "move" => h = batch.tokens
          /\ tx.op # "move" => RecordChanged(batch.tokens, h, tx.to, tx)
      BY <1>1, <1>4, <2>3, <3>1, <3>2, RecordStep
    <3> QED
      BY <2>1, <2>2, <2>3, <3>1, <3>3 DEF RecordTx, OnToken
  <2>4. CASE ~(~NotSuccess(tx) /\ tx.op \in TokenOps)
    <3>1. h = batch.tokens
      BY <1>9, <2>4
    <3>2. \A t : ~RecordTx(tx, t)
      BY <2>4 DEF RecordTx, OnToken
    <3> QED
      BY <2>1, <2>2, <3>1, <3>2
  <2> QED
    BY <2>3, <2>4
<1>11. ASSUME NEW t \in Token
       PROVE  DbToken(t)' /\ BatchToken(t)'
  <2>1. DbToken(t) /\ BatchToken(t)
    BY DEF TokensIn
  <2>2. DbToken(t)'
    <3>1. AppliedTxs' = AppliedTxs
      BY <1>1 DEF AppliedTxs
    <3> QED
      BY <1>1, <1>3, <2>1, <3>1 DEF DbToken
  <2>3. /\ OnToken(tx, t) => Same(Held(t, g), Held(t, batch.balances) + Supplied(tx))
                             /\ Supplied(tx) \in Int
        /\ ~OnToken(tx, t) => Same(Held(t, g), Held(t, batch.balances))
    BY <1>1, <1>2, <1>7, HeldTx
  <2>4. CASE RecordTx(tx, t)
    <3>1. OnToken(tx, t) /\ tx.to = t /\ ~NotSuccess(tx)
      BY <2>4 DEF RecordTx, OnToken
    <3>2. RecordsDone(t)' = RecordsDone(t) \cup {next}
      BY <1>3, <2>4
    <3>3. tx.op = "create" => Same(Held(t, db.balances), 0)
      BY <1>4, <2>1, <3>1 DEF DbToken
    <3>4. Same(Held(t, batch'.balances), Held(t, batch.balances) + Supplied(tx))
          /\ Supplied(tx) \in Int
      BY <1>6, <2>3, <3>1
    <3>5. RecordChanged(batch.tokens, batch'.tokens, t, tx)
      BY <1>8, <1>10, <2>4
    <3>6. BatchToken(t)'
      BY <1>1, <1>2, <1>3, <1>6, <1>7, <2>1, <3>2, <3>3, <3>4, <3>5, BatchTokenWritten
    <3> QED
      BY <2>2, <3>6
  <2>5. CASE ~RecordTx(tx, t)
    <3>1. RecordsDone(t)' = RecordsDone(t)
      BY <1>3, <2>5
    <3>2. SameRecord(batch.tokens, batch'.tokens, t)
      BY <1>8, <1>10, <2>5
    <3>3. Same(Held(t, batch'.balances), Held(t, batch.balances))
      <4>1. CASE OnToken(tx, t)
        <5>1. tx.op = "move"
          BY <2>5, <4>1 DEF RecordTx
        <5>2. Supplied(tx) = 0
          BY <5>1 DEF Supplied
        <5>3. Held(t, batch.balances) + 0 = Held(t, batch.balances)
          BY <1>2, HeldFacts
        <5> QED
          BY <1>6, <2>3, <4>1, <5>2, <5>3
      <4>2. CASE ~OnToken(tx, t)
        BY <1>6, <2>3, <4>2
      <4> QED
        BY <4>1, <4>2
    <3>4. BatchToken(t)'
      BY <1>1, <1>2, <1>3, <1>6, <1>7, <2>1, <3>1, <3>2, <3>3, BatchTokenKept
    <3> QED
      BY <2>2, <3>4
  <2> QED
    BY <2>4, <2>5
<1> QED
  BY <1>1, <1>8, <1>10, <1>11 DEF TokensIn

LEMMA TokensSave ==
    ASSUME LdInv, BooksOK, CounterLasts, TokensIn, Save
    PROVE  TokensIn'
<1>1. /\ working \in Nat /\ db.number \in Nat /\ db.number < working /\ chain' = chain
      /\ working \in 1..Len(chain)
      /\ db'.balances = NewBalances /\ db'.tokens = NewTokens
      /\ batch'.balances = Empty /\ batch'.tokens = Empty
      /\ applied' = applied \cup {working} /\ AppliedTxs' = AppliedTxs \cup DoneTxs
  BY SaveFacts
<1>2. next' = 0
  BY DEF Save
<1>3. /\ Balances(db.balances) /\ Balances(batch.balances)
      /\ \A w \in Wallet : BalanceIn(db.balances, w).blockNumber <= db.number
  BY DEF BooksOK
<1>4. \A w \in Wallet : BalanceIn(db.balances, w).blockNumber < working
  <2>1. \A w \in Wallet : BalanceIn(db.balances, w).blockNumber \in Nat
    BY <1>3, BalanceFacts DEF Balances
  <2> QED
    BY <1>1, <1>3, <2>1
<1>5. /\ Balances(NewBalances)
      /\ \A w \in Wallet : Summed(BalanceIn(db.balances, w), BalanceIn(batch.balances, w),
                                  BalanceIn(NewBalances, w))
  BY <1>1, <1>3, <1>4, SavedBalances
<1>6. DOMAIN Empty = {}
  BY DEF Empty
<1>7. /\ DOMAIN db'.tokens = DOMAIN batch.tokens \cup DOMAIN db.tokens
      /\ \A t \in DOMAIN db'.tokens :
           db'.tokens[t] = IF t \in DOMAIN batch.tokens THEN batch.tokens[t] ELSE db.tokens[t]
  BY <1>1 DEF NewTokens
<1>8. /\ DOMAIN chain[working].txs = 1..Len(chain[working].txs) /\ Len(chain[working].txs) \in Nat
      /\ next \in 1..(Len(chain[working].txs) + 1)
  <2>1. working # 0 /\ Len(chain) \in Nat
    BY <1>1
  <2> QED
    BY <1>1, <2>1, ChainFacts DEF LdInv, PlaceOK
<1>9. ASSUME NEW t \in Token
      PROVE  DbToken(t)' /\ BatchToken(t)'
  <2> DEFINE H == Held(t, db.balances)
             G == Held(t, batch.balances)
             K == Held(t, NewBalances)
  <2>1. DbToken(t) /\ BatchToken(t)
    BY DEF TokensIn
  <2>2. H \in Int /\ G \in Int /\ K \in Int
    BY <1>3, <1>5, HeldFacts
  <2>3. Same(K, H + G) /\ Same(H + G, K) /\ H + G \in Int
    <3>1. Same(K, H + G)
      BY <1>3, <1>5, HeldSaved
    <3> HIDE DEF H, G, K
    <3>2. H + G \in Int
      BY <2>2
    <3> QED
      BY <2>2, <3>1, <3>2, SameSwap
  <2>4. OneEach(t)' => OneEach(t) /\ AtMostOne(RecordOps(t, working))
    BY <1>1 DEF OneEach, RecordOps
  <2>5. RecordsDone(t) \subseteq RecordOps(t, working)
    <3>1. 1..(next - 1) \subseteq DOMAIN chain[working].txs
      BY <1>8
    <3> QED
      BY <3>1 DEF RecordsDone, RecordOps, RecordTx, OnToken, TokenOps
  <2>6. OneEach(t)' => AtMostOne(RecordsDone(t))
    BY <2>4, <2>5 DEF AtMostOne
  <2>7. t \in DOMAIN db'.tokens => db'.tokens[t] \in Record
    BY <1>7, <2>1 DEF DbToken, BatchToken
  <2>8. ASSUME OneEach(t)', t \in DOMAIN db'.tokens
        PROVE  Same(db'.tokens[t].allValue, K)
    <3>1. OneEach(t) /\ AtMostOne(RecordsDone(t))
      BY <2>4, <2>6, <2>8
    <3>2. CASE t \in DOMAIN batch.tokens
      <4>1. PICK a : a = batch.tokens[t].allValue
        OBVIOUS
      <4>2. a \in Int
        BY <2>1, <3>2, <4>1 DEF BatchToken, Record
      <4>3. Same(a, H + G)
        BY <2>1, <3>1, <3>2, <4>1 DEF BatchToken
      <4> HIDE DEF H, G, K
      <4>4. Same(a, K)
        BY <2>2, <2>3, <4>2, <4>3, SameMinus
      <4> QED
        BY <1>7, <2>8, <3>2, <4>1, <4>4
    <3>3. CASE t \notin DOMAIN batch.tokens
      <4>1. t \in DOMAIN db.tokens
        BY <1>7, <2>8, <3>3
      <4>2. PICK a : a = db.tokens[t].allValue
        OBVIOUS
      <4>3. a \in Int
        BY <2>1, <4>1, <4>2 DEF DbToken, Record
      <4>4. Same(a, H)
        BY <2>1, <3>1, <4>1, <4>2 DEF DbToken
      <4>5. Same(G, 0)
        BY <2>1, <3>1, <3>3, <4>1 DEF BatchToken
      <4> HIDE DEF H, G, K
      <4>6. Same(a + 0, H + G)
        <5>1. Same(0, G)
          BY <2>2, <4>5, SameSwap
        <5> QED
          BY <2>2, <4>3, <4>4, <5>1, SameSum
      <4>7. a + 0 = a
        BY <4>3
      <4>8. Same(a, K)
        BY <2>2, <2>3, <4>3, <4>6, <4>7, SameMinus
      <4> QED
        BY <1>7, <2>8, <3>3, <4>2, <4>8
    <3> QED
      BY <3>2, <3>3
  <2>9. ASSUME \A x \in AppliedTxs \cup DoneTxs : ~OnToken(At(chain, x), t)
        PROVE  Same(K, 0)
    <3>1. Same(H, 0)
      BY <2>1, <2>9 DEF DbToken
    <3>2. RecordsDone(t) = {}
      <4>1. ASSUME NEW i \in 1..(next - 1), RecordTx(chain[working].txs[i], t)
            PROVE  FALSE
        <5>1. <<working, i>> \in DoneTxs
          BY DEF DoneTxs
        <5>2. At(chain, <<working, i>>) = chain[working].txs[i]
          BY DEF At
        <5> QED
          BY <2>9, <4>1, <5>1, <5>2 DEF RecordTx
      <4> QED
        BY <4>1 DEF RecordsDone
    <3>3. Same(G, 0)
      BY <2>1, <3>2 DEF BatchToken
    <3> HIDE DEF H, G, K
    <3>4. Same(H + G, 0 + 0) /\ 0 + 0 = 0
      BY <2>2, <3>1, <3>3, SameSum
    <3> QED
      BY <2>2, <2>3, <3>4, SameMinus
  <2>10. DbToken(t)'
    BY <1>1, <2>7, <2>8, <2>9 DEF DbToken
  <2>11. BatchToken(t)'
    <3>1. Same(Held(t, Empty), 0)
      BY HeldNothing, SameAgain
    <3>2. t \notin DOMAIN batch'.tokens
      BY <1>1, <1>6
    <3> QED
      BY <1>1, <3>1, <3>2 DEF BatchToken
  <2> QED
    BY <2>10, <2>11
<1>10. DOMAIN db'.tokens \subseteq Token /\ DOMAIN batch'.tokens \subseteq Token
  BY <1>1, <1>6, <1>7 DEF TokensIn
<1> QED
  BY <1>9, <1>10 DEF TokensIn

TokensOK == Modules = AllModules => TokensIn

LEMMA TokensKept ==
    ASSUME WellFormed, WellCreated, LdInv, BooksOK, CounterLasts, TokensOK, [LdNext]_ldVars
    PROVE  TokensOK'
<1> SUFFICES ASSUME Modules = AllModules PROVE TokensIn'
  BY DEF TokensOK
<1>1. TokensIn /\ "balance" \in Modules /\ "txs" \in Modules
  BY DEF TokensOK, AllModules
<1>2. CASE NoChange
  <2>1. AppliedTxs' = AppliedTxs
        /\ \A t \in Token : RecordsDone(t)' = RecordsDone(t) /\ (OneEach(t)' <=> OneEach(t))
    BY <1>2 DEF NoChange, AppliedTxs, RecordsDone, OneEach, RecordOps
  <2> QED
    BY <1>1, <1>2, <2>1 DEF NoChange, TokensIn, DbToken, BatchToken
<1>3. CASE Afresh
  BY <1>1, <1>3, TokensAfresh
<1>4. CASE NextTx
  BY <1>1, <1>4, TokensNextTx
<1>5. CASE Save
  BY <1>1, <1>5, TokensSave
<1> QED
  BY <1>2, <1>3, <1>4, <1>5, Kinds

LEMMA FewOps ==
    ASSUME NEW S, IsFiniteSet(S), Cardinality(S) <= 1
    PROVE  AtMostOne(S)
<1> SUFFICES ASSUME NEW a \in S, NEW b \in S PROVE a = b
  BY DEF AtMostOne
<1>1. /\ Cardinality(S) \in Nat \ {0} /\ IsFiniteSet(S \ {a})
      /\ Cardinality(S \ {a}) = Cardinality(S) - 1
  BY OneLess
<1>2. Cardinality(S \ {a}) = 0
  BY <1>1
<1>3. S \ {a} = {}
  BY <1>1, <1>2, FS_EmptySet
<1> QED
  BY <1>3

\* The sum of the balances of a token is what the wallets have of it.
LEMMA HeldIs ==
    ASSUME NEW f, Balances(f), NEW t \in Token, NEW h,
           h = [w \in Wallet |-> ElementBalance(BalanceIn(f, w).tokens[t])]
    PROVE  /\ SumFunctionOnSet(h, Wallet) \in Int
           /\ Same(SumFunctionOnSet(h, Wallet), Held(t, f))
<1> DEFINE g == [w \in Wallet |-> Net(BalanceIn(f, w).tokens[t])]
           z == [w \in Wallet |-> 0]
<1>1. IsFiniteSet(Wallet)
  BY LedgerAssumption
<1>2. \A w \in Wallet : g[w] \in Int /\ z[w] = 0 /\ z[w] \in Int
  BY HeldFacts
<1>3. \A w \in Wallet : h[w] \in Int /\ Same(h[w], g[w] + z[w])
  <2> TAKE w \in Wallet
  <2>1. PICK e \in Element : e = BalanceIn(f, w).tokens[t]
    BY HeldFacts
  <2>2. h[w] = ElementBalance(e) /\ g[w] = Net(e) /\ z[w] = 0
    BY <2>1
  <2>3. /\ Net(e) \in Int /\ ElementBalance(e) \in 0..(Modulus - 1)
        /\ Same(ElementBalance(e), Net(e))
    BY ElementFacts
  <2>4. Net(e) + 0 = Net(e)
    BY <2>3
  <2> QED
    BY <2>2, <2>3, <2>4
<1>4. Held(t, f) = SumFunctionOnSet(g, Wallet)
  BY DEF Held
<1> HIDE DEF g, z
<1>5. SumFunctionOnSet(z, Wallet) = 0
  BY <1>1, <1>2, SumZero
<1>6. Same(SumFunctionOnSet(h, Wallet), SumFunctionOnSet(g, Wallet) + SumFunctionOnSet(z, Wallet))
  BY <1>1, <1>2, <1>3, SumsSame
<1>7. SumFunctionOnSet(h, Wallet) \in Int /\ SumFunctionOnSet(g, Wallet) \in Int
  BY <1>1, <1>2, <1>3, SumType
<1>8. SumFunctionOnSet(g, Wallet) + 0 = SumFunctionOnSet(g, Wallet)
  BY <1>7
<1> QED
  BY <1>4, <1>5, <1>6, <1>7, <1>8

LEMMA TokensProperty ==
    ASSUME LdInv, BooksOK, TokensOK
    PROVE  TokenSupply
<1> SUFFICES ASSUME Modules = AllModules, NEW t \in DOMAIN db.tokens,
                    \A n \in applied : Cardinality(RecordOps(t, n)) <= 1
             PROVE  db.tokens[t].allValue =
                      Total(LAMBDA w : ElementBalance(BalanceIn(db.balances, w).tokens[t]))
                        % Modulus
  BY DEF TokenSupply
<1>1. TokensIn /\ Balances(db.balances)
  BY DEF TokensOK, BooksOK
<1>2. t \in Token /\ DbToken(t)
  BY <1>1 DEF TokensIn
<1>3. OneEach(t)
  <2> SUFFICES ASSUME NEW n \in applied PROVE AtMostOne(RecordOps(t, n))
    BY DEF OneEach
  <2>1. n \in 1..Len(chain) /\ chain \in Chains
    <3>1. /\ chain \in Chains /\ db.number \in 0..Len(chain) /\ applied \subseteq 1..db.number
          /\ Len(chain) \in Nat
      BY ChainFacts DEF LdInv, PlaceOK
    <3> QED
      BY <3>1
  <2>2. Len(chain[n].txs) \in Nat /\ DOMAIN chain[n].txs = 1..Len(chain[n].txs)
    BY <2>1, ChainFacts
  <2>3. PICK l \in Int : l = Len(chain[n].txs)
    BY <2>2
  <2>4. IsFiniteSet(1..l)
    BY FS_Interval
  <2>5. RecordOps(t, n) \subseteq 1..l
    BY <2>2, <2>3 DEF RecordOps
  <2>6. IsFiniteSet(RecordOps(t, n))
    BY <2>4, <2>5, FS_Subset
  <2> QED
    BY <2>6, FewOps
<1>4. PICK h : h = [w \in Wallet |-> ElementBalance(BalanceIn(db.balances, w).tokens[t])]
  OBVIOUS
<1>5. Total(LAMBDA w : ElementBalance(BalanceIn(db.balances, w).tokens[t]))
        = SumFunctionOnSet(h, Wallet)
  BY <1>4 DEF Total
<1>6. PICK s : s = SumFunctionOnSet(h, Wallet)
  OBVIOUS
<1>7. PICK k : k = Held(t, db.balances)
  OBVIOUS
<1>8. s \in Int /\ Same(s, k)
  BY <1>1, <1>2, <1>4, <1>6, <1>7, HeldIs
<1>9. k \in Int
  BY <1>1, <1>2, <1>7, HeldFacts
<1>10. PICK a : a = db.tokens[t].allValue
  OBVIOUS
<1>11. a \in 0..(Modulus - 1) /\ a \in Int /\ Same(a, k)
  BY <1>2, <1>3, <1>7, <1>10 DEF DbToken, Record
<1>12. Same(k, s)
  BY <1>8, <1>9, SameSwap
<1>13. Same(a, s)
  BY <1>8, <1>9, <1>11, <1>12, SameMinus
<1>14. a % Modulus = s % Modulus
  BY <1>8, <1>11, <1>13, SameRemainder
<1>15. a % Modulus = a
  BY <1>11, LedgerAssumption
<1> QED
  BY <1>5, <1>6, <1>10, <1>14, <1>15

\* The record of a token says what all wallets hold of it together, for every
\* family of chains that create a token before they use it, as long as no block
\* has written the record twice.
THEOREM TokensAreSupplied ==
    ASSUME WellFormed, WellCreated
    PROVE  LdSpec /\ []CounterLasts => []TokenSupply
<1>1. LdInit => BooksOK /\ TokensOK
  BY BooksInit, TokensInit DEF TokensOK
<1>2. LdInv /\ BooksOK /\ TokensOK /\ CounterLasts /\ [LdNext]_ldVars => (BooksOK /\ TokensOK)'
  BY BooksStep, TokensKept
<1>3. LdInv /\ BooksOK /\ TokensOK => TokenSupply
  BY TokensProperty
<1> QED
  BY <1>1, <1>2, <1>3, LedgerInvariant, PTL DEF LdSpec

(***************************************************************************)
(* The rows of a pair as a stack: a delegation goes on top of those with   *)
(* higher keys.                                                            *)
(***************************************************************************)

Above(R, d) == {e \in R : e.key > d.key}

RowsWith(R, k) == {d \in R : Cardinality(Above(R, d)) = k - 1}

LEMMA NthRowIs ==
    ASSUME NEW R, NEW i
    PROVE  NthRow(R, i) = CHOOSE d \in RowsWith(R, i) : TRUE
BY Zenon DEF NthRow, RowsWith, Above

StateOf(d) == [value |-> d.value, hash |-> d.hash]

LEMMA StatesAre ==
    ASSUME NEW R, IsFiniteSet(R)
    PROVE  /\ Cardinality(R) \in Nat
           /\ DOMAIN States(R) = 1..Cardinality(R) /\ Len(States(R)) = Cardinality(R)
           /\ States(R) \in Seq({StateOf(NthRow(R, i)) : i \in 1..Cardinality(R)})
           /\ \A i \in 1..Cardinality(R) : States(R)[i] = StateOf(NthRow(R, i))
<1>1. PICK n \in Nat : n = Cardinality(R)
  BY FS_CardinalityType
<1>2. PICK f : f = [i \in 1..n |-> StateOf(NthRow(R, i))]
  OBVIOUS
<1>3. States(R) = f
  BY <1>1, <1>2 DEF States, StateOf
<1>4. DOMAIN f = 1..n /\ \A i \in 1..n : f[i] = StateOf(NthRow(R, i))
  BY <1>2
<1>5. PICK T : T = {StateOf(NthRow(R, i)) : i \in 1..n}
  OBVIOUS
<1>6. f \in [1..n -> T]
  BY <1>2, <1>5
<1>7. f \in Seq(T) /\ Len(f) = n
  BY <1>6, SeqOfFunction
<1> QED
  BY <1>1, <1>3, <1>4, <1>5, <1>7

LEMMA StatesPush ==
    ASSUME NEW R, IsFiniteSet(R), \A d \in R : d.key \in Nat, NEW r, r.key \in Nat,
           \A d \in R : r.key < d.key
    PROVE  States(R \cup {r}) = Append(States(R), StateOf(r))
<1> DEFINE S == R \cup {r}
<1>1. r \notin R
  OBVIOUS
<1>2. PICK n \in Nat : n = Cardinality(R)
  BY FS_CardinalityType
<1>3. IsFiniteSet(S) /\ Cardinality(S) = n + 1
  BY <1>1, <1>2, FS_AddElement
<1>4. \A d \in R : Above(S, d) = Above(R, d)
  BY DEF Above
<1>5. Above(S, r) = R
  BY DEF Above
<1>6. ASSUME NEW d \in R
      PROVE  Cardinality(Above(R, d)) \in Nat /\ Cardinality(Above(R, d)) < n
  <2>1. IsFiniteSet(R \ {d}) /\ Cardinality(R \ {d}) = n - 1
    BY <1>2, FS_RemoveElement
  <2>2. Above(R, d) \in SUBSET (R \ {d})
    BY DEF Above
  <2>3. IsFiniteSet(Above(R, d)) /\ Cardinality(Above(R, d)) <= Cardinality(R \ {d})
    BY <2>1, <2>2, FS_Subset
  <2>4. Cardinality(Above(R, d)) \in Nat
    BY <2>3, FS_CardinalityType
  <2> QED
    BY <2>1, <2>3, <2>4
<1> HIDE DEF S
<1>7. ASSUME NEW i \in 1..n
      PROVE  NthRow(S, i) = NthRow(R, i)
  <2>1. RowsWith(S, i) = RowsWith(R, i)
    <3>1. ASSUME NEW d \in R
          PROVE  d \in RowsWith(S, i) <=> d \in RowsWith(R, i)
      BY <1>4, <3>1 DEF RowsWith, S
    <3>2. r \notin RowsWith(S, i)
      BY <1>2, <1>5 DEF RowsWith
    <3> QED
      BY <3>1, <3>2 DEF RowsWith, S
  <2> QED
    BY <2>1, NthRowIs
<1>8. NthRow(S, n + 1) = r
  <2>1. \A d \in R : d \notin RowsWith(S, n + 1)
    BY <1>4, <1>6 DEF RowsWith
  <2>2. r \in RowsWith(S, n + 1)
    BY <1>2, <1>5 DEF RowsWith, S
  <2>3. RowsWith(S, n + 1) = {r}
    BY <2>1, <2>2 DEF RowsWith, S
  <2> QED
    BY <2>3, NthRowIs
<1>9. /\ Len(States(R)) = n /\ Len(States(S)) = n + 1
      /\ States(R) \in Seq({StateOf(NthRow(R, i)) : i \in 1..n})
      /\ \A i \in 1..n : States(R)[i] = StateOf(NthRow(R, i))
      /\ States(S) \in Seq({StateOf(NthRow(S, i)) : i \in 1..(n + 1)})
      /\ \A i \in 1..(n + 1) : States(S)[i] = StateOf(NthRow(S, i))
  BY <1>2, <1>3, StatesAre
<1>10. PICK T : T = {StateOf(NthRow(S, i)) : i \in 1..(n + 1)}
  OBVIOUS
<1>11. StateOf(r) \in T
  <2>1. n + 1 \in 1..(n + 1)
    OBVIOUS
  <2> QED
    BY <1>8, <1>10, <2>1
<1>12. {StateOf(NthRow(R, i)) : i \in 1..n} \subseteq T
  <2>1. \A i \in 1..n : i \in 1..(n + 1)
    OBVIOUS
  <2> QED
    BY <1>7, <1>10, <2>1
<1>13. PICK s \in Seq(T) : s = States(R)
  BY <1>9, <1>12
<1>14. PICK t \in Seq(T) : t = States(S)
  BY <1>9, <1>10
<1>15. PICK x \in T : x = StateOf(r)
  BY <1>11
<1>16. /\ Append(s, x) \in Seq(T) /\ Len(Append(s, x)) = Len(s) + 1
       /\ \A i \in 1..Len(s) : Append(s, x)[i] = s[i]
       /\ Append(s, x)[Len(s) + 1] = x
  BY AppendProperties
<1>17. Len(s) = n /\ Len(t) = n + 1 /\ \A i \in 1..n : t[i] = s[i]
  <2>1. \A i \in 1..n : i \in 1..(n + 1)
    OBVIOUS
  <2> QED
    BY <1>7, <1>9, <1>13, <1>14, <2>1
<1>18. t[n + 1] = x
  <2>1. n + 1 \in 1..(n + 1)
    OBVIOUS
  <2> QED
    BY <1>8, <1>9, <1>14, <1>15, <2>1
<1>19. PICK u \in Seq(T) : u = Append(s, x)
  BY <1>16
<1>20. Len(t) = Len(u) /\ \A i \in 1..Len(t) : t[i] = u[i]
  <2>1. \A i \in 1..(n + 1) : i \in 1..n \/ i = n + 1
    OBVIOUS
  <2> QED
    BY <1>16, <1>17, <1>18, <1>19, <2>1
<1>21. t = u
  BY <1>20, SeqEqual
<1> QED
  BY <1>13, <1>14, <1>15, <1>19, <1>21 DEF S

LEMMA StatesEmpty == States({}) = <<>>
<1>1. IsFiniteSet({}) /\ Cardinality({}) = 0
  BY FS_EmptySet
<1>2. Len(States({})) = 0 /\ States({}) \in Seq({StateOf(NthRow({}, i)) : i \in 1..Cardinality({})})
  BY <1>1, StatesAre
<1> QED
  BY <1>2, EmptySeq

\* What is left when the latest delegation is taken back.
LEMMA StatesPop ==
    ASSUME NEW R, IsFiniteSet(R), \A d \in R : d.key \in Nat, NEW r \in R,
           \A d \in R \ {r} : r.key < d.key
    PROVE  /\ States(R) # <<>> /\ Last(States(R)) = StateOf(r)
           /\ Front(States(R)) = States(R \ {r})
<1>1. PICK Q : Q = R \ {r}
  OBVIOUS
<1>2. IsFiniteSet(Q) /\ R = Q \cup {r} /\ \A d \in Q : d.key \in Nat /\ r.key < d.key
  BY <1>1, FS_RemoveElement
<1>3. States(R) = Append(States(Q), StateOf(r))
  BY <1>2, StatesPush
<1>4. PICK T : T = {StateOf(NthRow(Q, i)) : i \in 1..Cardinality(Q)} \cup {StateOf(r)}
  OBVIOUS
<1>5. {StateOf(NthRow(Q, i)) : i \in 1..Cardinality(Q)} \subseteq T /\ StateOf(r) \in T
  BY <1>4
<1>6. States(Q) \in Seq(T)
  <2>1. States(Q) \in Seq({StateOf(NthRow(Q, i)) : i \in 1..Cardinality(Q)})
    BY <1>2, StatesAre
  <2> QED
    BY <1>5, <2>1
<1>7. PICK s \in Seq(T) : s = States(Q)
  BY <1>6
<1>8. PICK x \in T : x = StateOf(r)
  BY <1>5
<1>9. Append(s, x) # <<>> /\ Last(Append(s, x)) = x
  BY DEF Last
<1>10. Front(Append(s, x)) = s
  BY DEF Front
<1> QED
  BY <1>1, <1>3, <1>7, <1>8, <1>9, <1>10

Of(F, p) == {d \in F : d.pair = p}

\* The stacks of delegations that the rows F are.
StackOf(F) == [p \in Wallet \X Wallet |-> States(Of(F, p))]

\* What Apply finds in the stacks, leaves there and takes back.
OldOf(st, tx) == IF <<tx.from, tx.to>> \in DOMAIN st THEN st[<<tx.from, tx.to>>] ELSE <<>>

NewOf(st, tx, id) ==
    CASE tx.op = "delegate" /\ Abstract!Succeeds(tx) ->
           Append(OldOf(st, tx), [value |-> tx.amount, hash |-> id])
      [] tx.op = "undelegate" /\ OldOf(st, tx) # <<>> -> Front(OldOf(st, tx))
      [] OTHER -> OldOf(st, tx)

BackOf(st, tx) ==
    IF tx.op = "undelegate" /\ OldOf(st, tx) # <<>> THEN Last(OldOf(st, tx)).value ELSE 0

LEMMA SucceedsIs ==
    ASSUME NEW tx
    PROVE  Abstract!Succeeds(tx) <=> ~NotSuccess(tx)
BY DEF Abstract!Succeeds, NotSuccess

\* F becomes G as the stacks do in Apply.
Stacked(F, G, tx, id) ==
    \A p \in Wallet \X Wallet :
        StackOf(G)[p] = IF p = <<tx.from, tx.to>> THEN NewOf(StackOf(F), tx, id)
                        ELSE StackOf(F)[p]

LEMMA StackUnmoved ==
    ASSUME NEW F, NEW tx \in Transaction, NEW id, NewOf(StackOf(F), tx, id) = OldOf(StackOf(F), tx)
    PROVE  Stacked(F, F, tx, id)
BY DEF Stacked, OldOf, StackOf

LEMMA StackMoved ==
    ASSUME NEW F, NEW G, DelegateRows(F), NEW tx \in Transaction, LendsWell(tx), NEW id,
           NEW ok \in BOOLEAN, NEW value \in Nat, RowsMoved(F, G, tx, id, ok, value),
           tx.op = "delegate" => ok = ~NotSuccess(tx), tx.op = "undelegate" => ok
    PROVE  /\ Stacked(F, G, tx, id) /\ BackOf(StackOf(F), tx) \in Nat
           /\ Lent(tx, ok, value) = (IF tx.op = "delegate" /\ ~NotSuccess(tx)
                                     THEN tx.amount ELSE 0) - BackOf(StackOf(F), tx)
<1> DEFINE pair == <<tx.from, tx.to>>
           R == Of(F, pair)
           old == OldOf(StackOf(F), tx)
<1>1. tx.amount \in Nat
  BY TxFacts
<1>2. IsFiniteSet(R) /\ \A d \in R : d.key \in Nat
  <2>1. R \in SUBSET F /\ IsFiniteSet(F) /\ \A d \in F : d.key \in Nat
    BY DEF Of, DelegateRows
  <2> QED
    BY <2>1, FS_Subset
<1>3. ASSUME tx.op \in {"delegate", "undelegate"}
      PROVE  pair \in Wallet \X Wallet /\ old = States(R)
  BY <1>3 DEF LendsWell, OldOf, StackOf
<1>4. \A p, H : Of(H, p) = {d \in H : d.pair = p}
  BY DEF Of
<1>5. CASE tx.op = "delegate" /\ ~NotSuccess(tx)
  <2>1. ok /\ Lends(F, G, tx, id)
    BY <1>5 DEF RowsMoved
  <2>2. PICK r : /\ G = F \cup {r} /\ r.pair = pair /\ r.value = tx.amount
                 /\ r.hash = id /\ r.key \in Nat /\ \A d \in F : r.key < d.key
    BY <2>1 DEF Lends
  <2>3. Of(G, pair) = R \cup {r} /\ \A p : p # pair => Of(G, p) = Of(F, p)
    BY <2>2 DEF Of
  <2>4. States(R \cup {r}) = Append(States(R), StateOf(r))
    <3>1. \A d \in R : r.key < d.key
      BY <2>2 DEF Of
    <3> HIDE DEF R
    <3> QED
      BY <1>2, <2>2, <3>1, StatesPush
  <2>5. StateOf(r) = [value |-> tx.amount, hash |-> id]
    BY <2>2 DEF StateOf
  <2>6. NewOf(StackOf(F), tx, id) = States(Of(G, pair))
    <3>1. NewOf(StackOf(F), tx, id) = Append(old, [value |-> tx.amount, hash |-> id])
      BY <1>5, SucceedsIs DEF NewOf
    <3> QED
      BY <1>3, <1>5, <2>3, <2>4, <2>5, <3>1
  <2>7. Stacked(F, G, tx, id)
    <3> SUFFICES ASSUME NEW p \in Wallet \X Wallet
                 PROVE  StackOf(G)[p] = IF p = pair THEN NewOf(StackOf(F), tx, id)
                                        ELSE StackOf(F)[p]
      BY DEF Stacked
    <3>1. StackOf(G)[p] = States(Of(G, p)) /\ StackOf(F)[p] = States(Of(F, p))
      BY DEF StackOf
    <3> QED
      BY <2>3, <2>6, <3>1
  <2>8. BackOf(StackOf(F), tx) = 0
    BY <1>5 DEF BackOf
  <2>9. Lent(tx, ok, value) = tx.amount
    BY <1>5, <2>1 DEF Lent
  <2> QED
    BY <1>1, <1>5, <2>7, <2>8, <2>9
<1>6. CASE tx.op = "undelegate" /\ R # {}
  <2>1. ok /\ G # F
    <3>1. PICK e \in F : e.pair = pair
      BY <1>6 DEF Of
    <3> QED
      BY <1>6, <3>1 DEF RowsMoved
  <2>2. PICK r \in F : /\ G = F \ {r} /\ r.pair = pair /\ r.value = value
                       /\ \A d \in F : d.pair = pair => r.key <= d.key
    BY <1>6, <2>1 DEF RowsMoved
  <2>3. Of(G, pair) = R \ {r} /\ r \in R /\ \A p : p # pair => Of(G, p) = Of(F, p)
    BY <2>2 DEF Of
  <2>4. \A d \in R \ {r} : r.key < d.key
    <3>1. \A d \in R : d \in F /\ r.key <= d.key
      BY <2>2 DEF Of
    <3>2. \A d \in R : d.key = r.key => d = r
      BY <2>2, <3>1 DEF DelegateRows
    <3> HIDE DEF R
    <3> QED
      BY <1>2, <2>3, <3>1, <3>2
  <2>5. /\ States(R) # <<>> /\ Last(States(R)) = StateOf(r)
        /\ Front(States(R)) = States(R \ {r})
    <3> HIDE DEF R
    <3> QED
      BY <1>2, <2>3, <2>4, StatesPop
  <2>6. old = States(R)
    BY <1>3, <1>6
  <2>7. NewOf(StackOf(F), tx, id) = States(Of(G, pair))
    <3>1. NewOf(StackOf(F), tx, id) = Front(old)
      BY <1>6, <2>5, <2>6 DEF NewOf
    <3> QED
      BY <2>3, <2>5, <2>6, <3>1
  <2>8. Stacked(F, G, tx, id)
    <3> SUFFICES ASSUME NEW p \in Wallet \X Wallet
                 PROVE  StackOf(G)[p] = IF p = pair THEN NewOf(StackOf(F), tx, id)
                                        ELSE StackOf(F)[p]
      BY DEF Stacked
    <3>1. StackOf(G)[p] = States(Of(G, p)) /\ StackOf(F)[p] = States(Of(F, p))
      BY DEF StackOf
    <3> QED
      BY <2>3, <2>7, <3>1
  <2>9. BackOf(StackOf(F), tx) = value
    <3>1. StateOf(r).value = value
      BY <2>2 DEF StateOf
    <3>2. BackOf(StackOf(F), tx) = Last(old).value
      BY <1>6, <2>5, <2>6 DEF BackOf
    <3> QED
      BY <2>5, <2>6, <3>1, <3>2
  <2>10. Lent(tx, ok, value) = 0 - value
    BY <1>6, <2>1 DEF Lent
  <2> QED
    BY <1>6, <2>8, <2>9, <2>10
<1>7. CASE tx.op # "delegate" \/ NotSuccess(tx)
  <2> SUFFICES ASSUME ~(tx.op = "undelegate" /\ R # {})
               PROVE  /\ Stacked(F, G, tx, id) /\ BackOf(StackOf(F), tx) = 0
                      /\ Lent(tx, ok, value) = 0
    BY <1>6, <1>7
  <2>1. G = F /\ Lent(tx, ok, value) = 0
    <3>1. ~(tx.op = "delegate" /\ ok)
      BY <1>7
    <3>2. ~(tx.op = "undelegate" /\ \E r \in F : r.pair = pair)
      BY DEF Of
    <3> QED
      BY <3>1, <3>2 DEF RowsMoved
  <2>2. tx.op = "undelegate" => old = <<>>
    BY <1>3, StatesEmpty
  <2>3. NewOf(StackOf(F), tx, id) = old /\ BackOf(StackOf(F), tx) = 0
    BY <1>7, <2>2, SucceedsIs DEF NewOf, BackOf
  <2>4. Stacked(F, F, tx, id)
    BY <2>3, StackUnmoved
  <2> QED
    BY <2>1, <2>3, <2>4
<1> QED
  BY <1>5, <1>7

(***************************************************************************)
(* What Accounts sees: the rows in force, and the balances of the database *)
(* and of the batch together.                                              *)
(***************************************************************************)

MoneyView(f, g) ==
    [w \in Wallet |-> (Net(BalanceIn(f, w).balance) + Net(BalanceIn(g, w).balance)) % Modulus]

SentView(f, g) ==
    [w \in Wallet |-> BalanceIn(f, w).countSpent + BalanceIn(g, w).countSpent]

TokenView(f, g) ==
    [t \in Token |-> [w \in Wallet |->
        (Net(BalanceIn(f, w).tokens[t]) + Net(BalanceIn(g, w).tokens[t])) % Modulus]]

ViewOf(F, f, g) ==
    [money |-> MoneyView(f, g), sent |-> SentView(f, g), stack |-> StackOf(F),
     tokens |-> TokenView(f, g)]

Stepped(a, b, c, d) == (a + c) % Modulus = (((a + b) % Modulus) + d) % Modulus

LEMMA ModStep ==
    ASSUME NEW a \in Int, NEW b \in Int, NEW c \in Int, NEW d \in Int, Same(c, b + d)
    PROVE  Stepped(a, b, c, d)
<1>1. PICK r \in Int : r = (a + b) % Modulus /\ Same(r, a + b)
  <2>1. a + b \in Int
    OBVIOUS
  <2>2. (a + b) % Modulus \in 0..(Modulus - 1) /\ Same((a + b) % Modulus, a + b)
    BY <2>1, RemainderSame
  <2> QED
    BY <2>2, LedgerAssumption
<1>2. PICK i \in Multiples : i = c - (b + d)
  BY DEF Same
<1>3. PICK j \in Multiples : j = r - (a + b)
  BY <1>1 DEF Same
<1>4. i - j \in Multiples /\ i \in Int /\ j \in Int
  BY MultiplesClosed
<1>5. (a + c) - (r + d) = i - j
  BY <1>2, <1>3, <1>4
<1>6. Same(a + c, r + d)
  BY <1>4, <1>5 DEF Same
<1>7. a + c \in Int /\ r + d \in Int
  OBVIOUS
<1>8. (a + c) % Modulus = (r + d) % Modulus
  BY <1>6, <1>7, SameRemainder
<1> QED
  BY <1>1, <1>8 DEF Stepped

\* Apply in the terms of this module.
LEMMA ApplyIs ==
    ASSUME NEW s, NEW tx, NEW id
    PROVE  Abstract!Apply(s, tx, id) =
             IF tx.status = "nodeTest" THEN s
             ELSE [money |-> [w \in Wallet |->
                       (s.money[w] + Abstract!Gain(tx, w, BackOf(s.stack, tx))) % Modulus],
                   sent |-> [w \in Wallet |-> s.sent[w] + (IF tx.from = w THEN 1 ELSE 0)],
                   stack |-> [p \in DOMAIN s.stack |->
                       IF p = <<tx.from, tx.to>> THEN NewOf(s.stack, tx, id) ELSE s.stack[p]],
                   tokens |-> [t \in Token |-> [w \in Wallet |->
                       IF t = tx.to /\ Abstract!Succeeds(tx)
                       THEN (s.tokens[t][w] + Abstract!TokenGain(tx, w)) % Modulus
                       ELSE s.tokens[t][w]]]]
BY DEF Abstract!Apply, Abstract!Last, Abstract!Front, Last, Front, BackOf, NewOf, OldOf

LEMMA GainIs ==
    ASSUME NEW tx \in Transaction, NEW w, NEW u \in Nat, NEW l \in Int,
           l = (IF tx.op = "delegate" /\ ~NotSuccess(tx) THEN tx.amount ELSE 0) - u
    PROVE  Abstract!Gain(tx, w, u) =
             (Paid(tx, w) + Got(tx, w)) + (IF tx.from = w THEN 0 - l ELSE 0)
<1>1. tx.value \in Nat /\ tx.fee \in Nat /\ tx.amount \in Nat
  BY TxFacts
<1> QED
  BY <1>1 DEF Abstract!Gain, Abstract!Succeeds, NotSuccess, NoBalance, Paid, Got

LEMMA TokenGainIs ==
    ASSUME NEW tx, NEW w
    PROVE  Abstract!TokenGain(tx, w) = TokenAdds(tx, w)
<1>1. Abstract!SumFunction(tx.dist) = SumFunction(tx.dist)
  BY Zenon DEF Abstract!SumFunction, Abstract!SumFunctionOnSet, Abstract!FoldFunctionOnSet,
               Abstract!MapThenFoldSet, SumFunction, SumFunctionOnSet, FoldFunctionOnSet,
               MapThenFoldSet
<1> QED
  BY <1>1 DEF Abstract!TokenGain, TokenAdds

\* The element x is added to e before and to f after the change of v.
LEMMA ElementStep ==
    ASSUME NEW x \in Element, NEW e \in Element, NEW f, NEW v, Moved(e, f, v)
    PROVE  /\ (Net(x) + Net(f)) % Modulus = (((Net(x) + Net(e)) % Modulus) + v) % Modulus
           /\ v = 0 => (Net(x) + Net(f)) % Modulus = (Net(x) + Net(e)) % Modulus
<1>1. f \in Element /\ v \in Int /\ Same(Net(f), Net(e) + v)
  BY DEF Moved
<1>2. PICK a \in Int : a = Net(x)
  BY ElementFacts
<1>3. PICK b \in Int : b = Net(e)
  BY ElementFacts
<1>4. PICK c \in Int : c = Net(f)
  BY <1>1, ElementFacts
<1>5. Same(c, b + v)
  BY <1>1, <1>3, <1>4
<1>6. (a + c) % Modulus = (((a + b) % Modulus) + v) % Modulus
  <2>1. PICK k \in Int : k = v
    BY <1>1
  <2>2. Same(c, b + k)
    BY <1>5, <2>1
  <2>3. Stepped(a, b, c, k)
    BY <2>2, ModStep
  <2> QED
    BY <2>1, <2>3, Zenon DEF Stepped
<1>7. ASSUME v = 0 PROVE (a + c) % Modulus = (a + b) % Modulus
  <2>1. Same(c, b) /\ Same(a, a)
    <3>1. b + v = b
      BY <1>7
    <3> QED
      BY <1>5, <3>1, SameAgain
  <2>2. Same(a + c, a + b)
    BY <2>1, SameSum
  <2>3. a + c \in Int /\ a + b \in Int
    OBVIOUS
  <2> QED
    BY <2>2, <2>3, SameRemainder
<1> QED
  BY <1>2, <1>3, <1>4, <1>6, <1>7

\* A transaction does to what the batch and the database say together what it
\* does in Accounts.
LEMMA ViewTx ==
    ASSUME NEW b, NEW c, NEW tx \in Transaction, LendsWell(tx), WellFormedTx(tx), NEW id, NEW n,
           n = id[1], NEW isForging, NEW ok \in BOOLEAN, NEW value \in Nat,
           TxDone(b, c, tx, id, isForging, ok, value), "balance" \in Modules,
           BatchRows(db.delegates, b), Balances(b.balances), NEW f, Balances(f)
    PROVE  ViewOf(InForce(db.delegates, c), f, c.balances) =
             Abstract!Apply(ViewOf(InForce(db.delegates, b), f, b.balances), tx, id)
<1> DEFINE g == b.balances
           h == c.balances
<1>1. PICK F : F = InForce(db.delegates, b)
  OBVIOUS
<1>2. PICK G : G = InForce(db.delegates, c)
  OBVIOUS
<1>3. DelegateRows(F) /\ RowsMoved(F, G, tx, id, ok, value)
  BY <1>1, <1>2, InForceRows DEF TxDone
<1>4. (tx.op = "delegate" => ok = ~NotSuccess(tx)) /\ (tx.op = "undelegate" => ok)
  BY DEF TxDone
<1>5. \A w \in Wallet :
        /\ BalanceIn(f, w) \in Balance /\ BalanceIn(g, w) \in Balance
        /\ WalletMoved(BalanceIn(g, w), BalanceIn(h, w), tx, w, n, isForging, ok, value)
  BY DEF TxDone, Balances
<1>6. PICK u \in Nat : u = BackOf(StackOf(F), tx)
  BY <1>3, <1>4, StackMoved
<1>7. PICK l \in Int : l = Lent(tx, ok, value)
                       /\ l = (IF tx.op = "delegate" /\ ~NotSuccess(tx)
                               THEN tx.amount ELSE 0) - u
  <2>1. Lent(tx, ok, value) = (IF tx.op = "delegate" /\ ~NotSuccess(tx)
                               THEN tx.amount ELSE 0) - u
    BY <1>3, <1>4, <1>6, StackMoved
  <2>2. tx.amount \in Nat
    BY TxFacts
  <2> QED
    BY <2>1, <2>2
<1>8. Stacked(F, G, tx, id)
  BY <1>3, <1>4, StackMoved
<1>9. PICK s : s = ViewOf(F, f, g)
  OBVIOUS
<1>10. /\ s.money = MoneyView(f, g) /\ s.sent = SentView(f, g) /\ s.stack = StackOf(F)
       /\ s.tokens = TokenView(f, g)
  BY <1>9 DEF ViewOf
<1>11. ASSUME NEW w \in Wallet
       PROVE  LET x == BalanceIn(f, w)  y == BalanceIn(g, w)  z == BalanceIn(h, w)
              IN  /\ x \in Balance /\ y \in Balance /\ z \in Balance
                  /\ Moved(y.balance, z.balance,
                           (IF tx.status # "nodeTest" THEN Paid(tx, w) + Got(tx, w) ELSE 0)
                             + (IF tx.from = w THEN 0 - l ELSE 0))
                  /\ z.countSpent = y.countSpent
                       + (IF tx.status # "nodeTest" /\ tx.from = w THEN 1 ELSE 0)
                  /\ \A t \in Token :
                        Moved(y.tokens[t], z.tokens[t],
                              IF tx.op \in TokenOps /\ tx.to = t THEN TokensOf(tx)[w] ELSE 0)
  BY <1>5, <1>7, <1>11 DEF WalletMoved
<1>12. \A t \in Token, w \in Wallet :
          TokenView(f, g)[t][w] = (Net(BalanceIn(f, w).tokens[t]) + Net(BalanceIn(g, w).tokens[t]))
                                     % Modulus
  BY DEF TokenView
<1>13. CASE tx.status = "nodeTest"
  <2>1. tx.op = "none" /\ G = F
    BY <1>3, <1>13 DEF LendsWell, RowsMoved
  <2>2. l = 0
    BY <1>7, <2>1 DEF Lent
  <2>3. MoneyView(f, h) = MoneyView(f, g)
    <3> SUFFICES ASSUME NEW w \in Wallet
                 PROVE  (Net(BalanceIn(f, w).balance) + Net(BalanceIn(h, w).balance)) % Modulus
                          = (Net(BalanceIn(f, w).balance) + Net(BalanceIn(g, w).balance)) % Modulus
      BY DEF MoneyView
    <3>1. Moved(BalanceIn(g, w).balance, BalanceIn(h, w).balance, 0)
      BY <1>11, <1>13, <2>2
    <3>2. BalanceIn(f, w).balance \in Element /\ BalanceIn(g, w).balance \in Element
      BY <1>5, BalanceFacts
    <3> QED
      BY <3>1, <3>2, ElementStep
  <2>4. SentView(f, h) = SentView(f, g)
    <3>1. \A w \in Wallet : BalanceIn(h, w).countSpent = BalanceIn(g, w).countSpent
      <4> TAKE w \in Wallet
      <4>1. BalanceIn(g, w).countSpent \in Nat
        BY <1>5, BalanceFacts
      <4> QED
        BY <1>11, <1>13, <4>1
    <3> QED
      BY <3>1 DEF SentView
  <2>5. TokenView(f, h) = TokenView(f, g)
    <3> SUFFICES ASSUME NEW t \in Token, NEW w \in Wallet
                 PROVE  (Net(BalanceIn(f, w).tokens[t]) + Net(BalanceIn(h, w).tokens[t])) % Modulus
                          = (Net(BalanceIn(f, w).tokens[t]) + Net(BalanceIn(g, w).tokens[t]))
                               % Modulus
      BY DEF TokenView
    <3>1. Moved(BalanceIn(g, w).tokens[t], BalanceIn(h, w).tokens[t], 0)
      BY <1>11, <2>1 DEF TokenOps
    <3>2. BalanceIn(f, w).tokens[t] \in Element /\ BalanceIn(g, w).tokens[t] \in Element
      BY <1>5, BalanceFacts
    <3> QED
      BY <3>1, <3>2, ElementStep
  <2>6. ViewOf(G, f, h) = s
    BY <1>9, <2>1, <2>3, <2>4, <2>5 DEF ViewOf
  <2>7. Abstract!Apply(s, tx, id) = s
    BY <1>13, ApplyIs
  <2> QED
    BY <1>1, <1>2, <1>9, <2>6, <2>7
<1>14. CASE tx.status # "nodeTest"
  <2>1. MoneyView(f, h) = [w \in Wallet |->
                              (s.money[w] + Abstract!Gain(tx, w, BackOf(s.stack, tx))) % Modulus]
    <3> SUFFICES ASSUME NEW w \in Wallet
                 PROVE  (Net(BalanceIn(f, w).balance) + Net(BalanceIn(h, w).balance)) % Modulus
                          = (s.money[w] + Abstract!Gain(tx, w, BackOf(s.stack, tx))) % Modulus
      BY DEF MoneyView
    <3>1. PICK v : v = (Paid(tx, w) + Got(tx, w)) + (IF tx.from = w THEN 0 - l ELSE 0)
      OBVIOUS
    <3>2. Abstract!Gain(tx, w, BackOf(s.stack, tx)) = v
      <4>1. BackOf(s.stack, tx) = u
        BY <1>6, <1>10
      <4>2. Abstract!Gain(tx, w, u) = v
        BY <1>7, <3>1, GainIs
      <4> QED
        BY <4>1, <4>2
    <3>3. Moved(BalanceIn(g, w).balance, BalanceIn(h, w).balance, v)
      BY <1>11, <1>14, <3>1
    <3>4. BalanceIn(f, w).balance \in Element /\ BalanceIn(g, w).balance \in Element
      BY <1>5, BalanceFacts
    <3>5. s.money[w] = (Net(BalanceIn(f, w).balance) + Net(BalanceIn(g, w).balance)) % Modulus
      BY <1>10 DEF MoneyView
    <3> QED
      BY <3>2, <3>3, <3>4, <3>5, ElementStep
  <2>2. SentView(f, h) = [w \in Wallet |-> s.sent[w] + (IF tx.from = w THEN 1 ELSE 0)]
    <3> SUFFICES ASSUME NEW w \in Wallet
                 PROVE  BalanceIn(f, w).countSpent + BalanceIn(h, w).countSpent
                          = s.sent[w] + (IF tx.from = w THEN 1 ELSE 0)
      BY DEF SentView
    <3>1. s.sent[w] = BalanceIn(f, w).countSpent + BalanceIn(g, w).countSpent
      BY <1>10 DEF SentView
    <3>2. BalanceIn(f, w).countSpent \in Nat /\ BalanceIn(g, w).countSpent \in Nat
      BY <1>5, BalanceFacts
    <3>3. BalanceIn(h, w).countSpent = BalanceIn(g, w).countSpent + (IF tx.from = w THEN 1 ELSE 0)
      BY <1>11, <1>14
    <3> QED
      BY <3>1, <3>2, <3>3
  <2>3. StackOf(G) = [p \in DOMAIN s.stack |->
                        IF p = <<tx.from, tx.to>> THEN NewOf(s.stack, tx, id) ELSE s.stack[p]]
    <3>1. DOMAIN StackOf(F) = Wallet \X Wallet /\ DOMAIN StackOf(G) = Wallet \X Wallet
          /\ StackOf(G) = [p \in Wallet \X Wallet |-> StackOf(G)[p]]
      BY DEF StackOf
    <3> QED
      BY <1>8, <1>10, <3>1 DEF Stacked
  <2>4. TokenView(f, h) = [t \in Token |-> [w \in Wallet |->
                              IF t = tx.to /\ Abstract!Succeeds(tx)
                              THEN (s.tokens[t][w] + Abstract!TokenGain(tx, w)) % Modulus
                              ELSE s.tokens[t][w]]]
    <3> SUFFICES ASSUME NEW t \in Token, NEW w \in Wallet
                 PROVE  (Net(BalanceIn(f, w).tokens[t]) + Net(BalanceIn(h, w).tokens[t])) % Modulus
                          = IF t = tx.to /\ Abstract!Succeeds(tx)
                            THEN (s.tokens[t][w] + Abstract!TokenGain(tx, w)) % Modulus
                            ELSE s.tokens[t][w]
      BY DEF TokenView
    <3>1. PICK v : v = IF tx.op \in TokenOps /\ tx.to = t THEN TokensOf(tx)[w] ELSE 0
      OBVIOUS
    <3>2. Moved(BalanceIn(g, w).tokens[t], BalanceIn(h, w).tokens[t], v)
      BY <1>11, <3>1
    <3>3. BalanceIn(f, w).tokens[t] \in Element /\ BalanceIn(g, w).tokens[t] \in Element
      BY <1>5, BalanceFacts
    <3>4. s.tokens[t][w] = (Net(BalanceIn(f, w).tokens[t]) + Net(BalanceIn(g, w).tokens[t]))
                              % Modulus
      BY <1>10, <1>12
    <3>5. CASE t = tx.to /\ Abstract!Succeeds(tx)
      <4>1. TokensOf(tx)[w] = TokenAdds(tx, w)
        BY <3>5, SucceedsIs DEF TokensOf
      <4>2. tx.op \notin TokenOps => TokenAdds(tx, w) = 0
        BY DEF TokenOps, TokenAdds
      <4>3. Abstract!TokenGain(tx, w) = v
        BY <3>1, <3>5, <4>1, <4>2, TokenGainIs
      <4> QED
        BY <3>2, <3>3, <3>4, <3>5, <4>3, ElementStep
    <3>6. CASE ~(t = tx.to /\ Abstract!Succeeds(tx))
      <4>1. v = 0
        BY <3>1, <3>6, SucceedsIs DEF TokensOf
      <4> QED
        BY <3>2, <3>3, <3>4, <3>6, <4>1, ElementStep
    <3> QED
      BY <3>5, <3>6
  <2>5. ViewOf(G, f, h) = Abstract!Apply(s, tx, id)
    BY <1>14, <2>1, <2>2, <2>3, <2>4, ApplyIs, Zenon DEF ViewOf
  <2> QED
    BY <1>1, <1>2, <1>9, <2>5
<1> QED
  BY <1>13, <1>14

(***************************************************************************)
(* The states a block goes through in Accounts.                            *)
(***************************************************************************)

\* g is the course of block n of the chain c from s, up to its transaction m.
IsCourse(g, c, s, n, m) ==
    g = [i \in 0..m |-> IF i = 0 THEN s ELSE Abstract!Apply(g[i - 1], c[n].txs[i], <<n, i>>)]

CourseOf(c, s, n) == CHOOSE g : IsCourse(g, c, s, n, Len(c[n].txs))

LEMMA CoursesExist ==
    ASSUME NEW c, NEW s, NEW n, NEW m \in Nat
    PROVE  \E g : IsCourse(g, c, s, n, m)
<1> DEFINE Bad == {k \in Nat : ~(\E g : IsCourse(g, c, s, n, k))}
<1> SUFFICES ASSUME Bad # {} PROVE FALSE
  OBVIOUS
<1>1. PICK k \in Bad : \A j \in Bad : k <= j
  <2>1. Bad \subseteq Nat
    OBVIOUS
  <2> QED
    BY <2>1, NatMin, Zenon
<1>2. k \in Nat /\ ~(\E g : IsCourse(g, c, s, n, k))
  OBVIOUS
<1>3. CASE k = 0
  <2>1. PICK g : g = [i \in 0..0 |-> s]
    OBVIOUS
  <2>2. IsCourse(g, c, s, n, 0)
    <3>1. \A i \in 0..0 : i = 0
      OBVIOUS
    <3> QED
      BY <2>1, <3>1 DEF IsCourse
  <2> QED
    BY <1>2, <1>3, <2>2
<1>4. CASE k # 0
  <2>1. k - 1 \in Nat /\ k - 1 \notin Bad
    BY <1>1, <1>2, <1>4
  <2>2. PICK f : IsCourse(f, c, s, n, k - 1)
    BY <2>1
  <2>3. PICK v : v = Abstract!Apply(f[k - 1], c[n].txs[k], <<n, k>>)
    OBVIOUS
  <2>4. PICK g : g = [i \in 0..k |-> IF i = k THEN v ELSE f[i]]
    OBVIOUS
  <2>5. \A i \in 0..(k - 1) : f[i] = IF i = 0 THEN s
                                     ELSE Abstract!Apply(f[i - 1], c[n].txs[i], <<n, i>>)
    BY <2>2 DEF IsCourse
  <2>6. \A i \in 0..(k - 1) : i \in 0..k /\ g[i] = f[i]
    BY <1>2, <2>4
  <2>7. g[k] = v /\ k \in 0..k
    BY <1>2, <2>4
  <2>8. ASSUME NEW i \in 0..k
        PROVE  g[i] = IF i = 0 THEN s ELSE Abstract!Apply(g[i - 1], c[n].txs[i], <<n, i>>)
    <3>1. CASE i = k
      <4>1. k - 1 \in 0..(k - 1)
        BY <2>1
      <4>2. g[k - 1] = f[k - 1]
        BY <2>6, <4>1
      <4> QED
        BY <1>4, <2>3, <2>7, <3>1, <4>2
    <3>2. CASE i # k
      <4>1. i \in 0..(k - 1)
        BY <1>2, <3>2
      <4>2. i # 0 => i - 1 \in 0..(k - 1)
        BY <4>1, <1>2
      <4>3. i # 0 => g[i - 1] = f[i - 1]
        BY <2>6, <4>2
      <4>4. g[i] = f[i]
        BY <2>6, <4>1
      <4> QED
        BY <2>5, <4>1, <4>3, <4>4
    <3> QED
      BY <3>1, <3>2
  <2>9. g = [i \in 0..k |-> g[i]]
    BY <2>4
  <2>10. IsCourse(g, c, s, n, k)
    BY <2>8, <2>9 DEF IsCourse
  <2> QED
    BY <1>2, <2>10
<1> QED
  BY <1>3, <1>4

LEMMA CourseFacts ==
    ASSUME NEW c, NEW s, NEW n, Len(c[n].txs) \in Nat
    PROVE  /\ CourseOf(c, s, n)[0] = s
           /\ \A i \in 1..Len(c[n].txs) :
                CourseOf(c, s, n)[i] =
                    Abstract!Apply(CourseOf(c, s, n)[i - 1], c[n].txs[i], <<n, i>>)
<1>1. PICK m \in Nat : m = Len(c[n].txs)
  OBVIOUS
<1>2. PICK g : g = CourseOf(c, s, n)
  OBVIOUS
<1>3. IsCourse(g, c, s, n, m)
  <2>1. \E h : IsCourse(h, c, s, n, m)
    BY CoursesExist
  <2>2. g = CHOOSE h : IsCourse(h, c, s, n, m)
    BY <1>1, <1>2 DEF CourseOf
  <2> QED
    BY <2>1, <2>2, Zenon
<1>4. \A i \in 0..m : g[i] = IF i = 0 THEN s
                             ELSE Abstract!Apply(g[i - 1], c[n].txs[i], <<n, i>>)
  BY <1>3 DEF IsCourse
<1>5. 0 \in 0..m /\ \A i \in 1..m : i \in 0..m /\ i # 0
  OBVIOUS
<1> QED
  BY <1>1, <1>2, <1>4, <1>5, Zenon

LEMMA ApplyBlockIs ==
    ASSUME NEW s, NEW n
    PROVE  Abstract!ApplyBlock(s, n) =
             IF chain[n].type = "state" THEN s ELSE CourseOf(chain, s, n)[Len(chain[n].txs)]
BY Zenon DEF Abstract!ApplyBlock, Abstract!Course, CourseOf, IsCourse

\* What Accounts sees of rows D and balances f in the database.
Seen(D, f) ==
    [money |-> [w \in Wallet |-> ElementBalance(BalanceIn(f, w).balance)],
     sent |-> [w \in Wallet |-> BalanceIn(f, w).countSpent],
     stack |-> StackOf(D),
     tokens |-> [t \in Token |-> [w \in Wallet |-> ElementBalance(BalanceIn(f, w).tokens[t])]]]

LEMMA AbstractState == Abstract!acState = Seen(db.delegates, db.balances)
BY DEF Abstract!acState, Seen, AbstractMoney, AbstractSent, AbstractStack, AbstractTokens,
       DelegateStates, StackOf, Of

LEMMA AbstractNext == Abstract!acState' = Seen(db'.delegates, db'.balances)
BY DEF Abstract!acState, Seen, AbstractMoney, AbstractSent, AbstractStack, AbstractTokens,
       DelegateStates, StackOf, Of

\* Elements that were added up when the block was written.
LEMMA ElementSaved ==
    ASSUME NEW e \in Element, NEW f \in Element, NEW g, Moved(e, g, Net(f))
    PROVE  ElementBalance(g) = (Net(e) + Net(f)) % Modulus
<1>1. g \in Element /\ Net(f) \in Int /\ Same(Net(g), Net(e) + Net(f))
  BY DEF Moved
<1>2. PICK a \in Int : a = Net(e)
  BY ElementFacts
<1>3. PICK b \in Int : b = Net(f)
  BY <1>1
<1>4. PICK c \in Int : c = Net(g)
  BY <1>1, ElementFacts
<1>5. PICK d \in Int : d = a + b
  OBVIOUS
<1>6. Same(c, d)
  BY <1>1, <1>2, <1>3, <1>4, <1>5
<1>7. c % Modulus = d % Modulus
  BY <1>6, SameRemainder
<1>8. ElementBalance(g) = Net(g) % Modulus
  BY Zenon DEF ElementBalance, Net
<1> QED
  BY <1>2, <1>3, <1>4, <1>5, <1>7, <1>8, Zenon

\* Writing the block leaves Accounts where the worker had got to.
LEMMA ViewSaved ==
    ASSUME NEW F, NEW f, Balances(f), NEW g, Balances(g), NEW h,
           \A w \in Wallet : Summed(BalanceIn(f, w), BalanceIn(g, w), BalanceIn(h, w))
    PROVE  Seen(F, h) = ViewOf(F, f, g)
<1>1. ASSUME NEW w \in Wallet
      PROVE  /\ ElementBalance(BalanceIn(h, w).balance)
                  = (Net(BalanceIn(f, w).balance) + Net(BalanceIn(g, w).balance)) % Modulus
             /\ BalanceIn(h, w).countSpent
                  = BalanceIn(f, w).countSpent + BalanceIn(g, w).countSpent
             /\ \A t \in Token :
                  ElementBalance(BalanceIn(h, w).tokens[t])
                    = (Net(BalanceIn(f, w).tokens[t]) + Net(BalanceIn(g, w).tokens[t])) % Modulus
  <2>1. PICK x \in Balance : x = BalanceIn(f, w)
    BY DEF Balances
  <2>2. PICK y \in Balance : y = BalanceIn(g, w)
    BY DEF Balances
  <2>3. PICK z : z = BalanceIn(h, w)
    OBVIOUS
  <2>4. Summed(x, y, z)
    BY <2>1, <2>2, <2>3, Zenon
  <2>5. /\ x.balance \in Element /\ y.balance \in Element
        /\ x.tokens \in [Token -> Element] /\ y.tokens \in [Token -> Element]
    BY BalanceFacts
  <2>6. ElementBalance(z.balance) = (Net(x.balance) + Net(y.balance)) % Modulus
    BY <2>4, <2>5, ElementSaved DEF Summed
  <2>7. ASSUME NEW t \in Token
        PROVE  ElementBalance(z.tokens[t]) = (Net(x.tokens[t]) + Net(y.tokens[t])) % Modulus
    <3>1. x.tokens[t] \in Element /\ y.tokens[t] \in Element
          /\ Moved(x.tokens[t], z.tokens[t], Net(y.tokens[t]))
      BY <2>4, <2>5 DEF Summed
    <3> QED
      BY <3>1, ElementSaved
  <2>8. z.countSpent = x.countSpent + y.countSpent
    BY <2>4 DEF Summed
  <2> QED
    BY <2>1, <2>2, <2>3, <2>6, <2>7, <2>8, Zenon
<1>2. MoneyView(f, g) = [w \in Wallet |-> ElementBalance(BalanceIn(h, w).balance)]
  BY <1>1 DEF MoneyView
<1>3. SentView(f, g) = [w \in Wallet |-> BalanceIn(h, w).countSpent]
  BY <1>1 DEF SentView
<1>4. TokenView(f, g) =
        [t \in Token |-> [w \in Wallet |-> ElementBalance(BalanceIn(h, w).tokens[t])]]
  BY <1>1 DEF TokenView
<1> QED
  BY <1>2, <1>3, <1>4, Zenon DEF Seen, ViewOf

\* At the start of a block there is nothing in the batch.
LEMMA ViewAfresh ==
    ASSUME NEW F, NEW f, Balances(f)
    PROVE  ViewOf(F, f, Empty) = Seen(F, f)
<1>1. ASSUME NEW e \in Element
      PROVE  (Net(e) + Net(ZeroElement)) % Modulus = ElementBalance(e)
  <2>1. PICK a \in Int : a = Net(e)
    BY ElementFacts
  <2>2. a + 0 = a
    OBVIOUS
  <2>3. ElementBalance(e) = Net(e) % Modulus
    BY Zenon DEF ElementBalance, Net
  <2> QED
    BY <2>1, <2>2, <2>3, ZeroFacts, Zenon
<1>2. /\ ZeroBalance.balance = ZeroElement /\ ZeroBalance.countSpent = 0
      /\ \A t \in Token : ZeroBalance.tokens[t] = ZeroElement
  BY DEF ZeroBalance
<1>3. ASSUME NEW w \in Wallet
      PROVE  /\ (Net(BalanceIn(f, w).balance) + Net(BalanceIn(Empty, w).balance)) % Modulus
                  = ElementBalance(BalanceIn(f, w).balance)
             /\ BalanceIn(f, w).countSpent + BalanceIn(Empty, w).countSpent
                  = BalanceIn(f, w).countSpent
             /\ \A t \in Token :
                  (Net(BalanceIn(f, w).tokens[t]) + Net(BalanceIn(Empty, w).tokens[t])) % Modulus
                    = ElementBalance(BalanceIn(f, w).tokens[t])
  <2>1. PICK x \in Balance : x = BalanceIn(f, w)
    BY DEF Balances
  <2>2. BalanceIn(Empty, w) = ZeroBalance
    BY ZeroFacts
  <2>3. x.balance \in Element /\ x.tokens \in [Token -> Element] /\ x.countSpent \in Nat
    BY BalanceFacts
  <2>4. (Net(x.balance) + Net(ZeroElement)) % Modulus = ElementBalance(x.balance)
    BY <1>1, <2>3
  <2>5. \A t \in Token : (Net(x.tokens[t]) + Net(ZeroElement)) % Modulus
                            = ElementBalance(x.tokens[t])
    <3> TAKE t \in Token
    <3>1. x.tokens[t] \in Element
      BY <2>3
    <3> QED
      BY <1>1, <3>1, Zenon
  <2>6. x.countSpent + 0 = x.countSpent
    BY <2>3
  <2> QED
    BY <1>2, <2>1, <2>2, <2>4, <2>5, <2>6, Zenon
<1>4. MoneyView(f, Empty) = [w \in Wallet |-> ElementBalance(BalanceIn(f, w).balance)]
  BY <1>3 DEF MoneyView
<1>5. SentView(f, Empty) = [w \in Wallet |-> BalanceIn(f, w).countSpent]
  BY <1>3 DEF SentView
<1>6. TokenView(f, Empty) =
        [t \in Token |-> [w \in Wallet |-> ElementBalance(BalanceIn(f, w).tokens[t])]]
  BY <1>3 DEF TokenView
<1> QED
  BY <1>4, <1>5, <1>6, Zenon DEF Seen, ViewOf

(***************************************************************************)
(* The worker follows the course of its block.                             *)
(***************************************************************************)

\* The block the worker is at extends what is saved, and the batch takes the
\* database to where Accounts is after the transactions that are done.
CourseOK ==
    working # 0 =>
      /\ db.number \in {0, working - 1}
      /\ "balance" \in Modules =>
           ViewOf(InForce(db.delegates, batch), db.balances, batch.balances)
             = CourseOf(chain, Seen(db.delegates, db.balances), working)[next - 1]

LEMMA CourseInit == LdInit => CourseOK
BY DEF LdInit, CourseOK

LEMMA ExtendsStep ==
    ASSUME CourseOK, [LdNext]_ldVars, working' # 0
    PROVE  db'.number \in {0, working' - 1}
<1>1. CASE Begin
  BY <1>1 DEF Begin, PrevHashFits
<1>2. CASE Process \/ Skip \/ AllDone \/ UNCHANGED ldVars \/ NextTx
  BY <1>2 DEF Process, Skip, AllDone, ldVars, NextTx, CourseOK
<1>3. CASE TxFails \/ StateRefused \/ SaveFails \/ Restart \/ Save
  BY <1>3 DEF TxFails, StateRefused, SaveFails, Restart, Save, Idle
<1> QED
  BY <1>1, <1>2, <1>3 DEF LdNext

LEMMA CourseAfresh ==
    ASSUME LdInv, BooksOK, Afresh, LdInv', BooksOK', working' # 0
    PROVE  ViewOf(InForce(db'.delegates, batch'), db'.balances, batch'.balances)
             = CourseOf(chain', Seen(db'.delegates, db'.balances), working')[next' - 1]
<1>1. /\ UNCHANGED <<chain, db>> /\ batch'.balances = Empty /\ batch'.put = {}
      /\ batch'.deleted = {}
  BY AfreshFacts
<1>2. next' = 1
  BY DEF Afresh
<1>3. InForce(db'.delegates, batch') = db'.delegates
  BY <1>1 DEF InForce
<1>4. Balances(db'.balances)
  BY <1>1 DEF BooksOK
<1>5. PICK s : s = Seen(db'.delegates, db'.balances)
  OBVIOUS
<1>6. PICK f : f = db'.balances
  OBVIOUS
<1>7. PICK F : F = db'.delegates
  OBVIOUS
<1>8. ViewOf(F, f, Empty) = Seen(F, f)
  BY <1>4, <1>6, ViewAfresh, Zenon
<1>9. PICK c \in Chains : c = chain'
  BY <1>1 DEF LdInv, PlaceOK
<1>10. PICK k \in 1..Len(c) : k = working'
  <2>1. working' \in 0..Len(c) /\ Len(c) \in Nat
    BY <1>9, ChainFacts DEF LdInv, PlaceOK
  <2> QED
    BY <2>1
<1>11. Len(c[k].txs) \in Nat
  BY <1>10, ChainFacts
<1>12. CourseOf(c, s, k)[0] = s
  BY <1>11, CourseFacts
<1>13. next' - 1 = 0
  BY <1>2
<1> QED
  BY <1>1, <1>3, <1>5, <1>6, <1>7, <1>8, <1>9, <1>10, <1>12, <1>13, Zenon

LEMMA CourseNextTx ==
    ASSUME "balance" \in Modules, WellFormed, WellLent, LdInv, BooksOK, CounterLasts, CourseOK,
           NextTx
    PROVE  ViewOf(InForce(db'.delegates, batch'), db'.balances, batch'.balances)
             = CourseOf(chain', Seen(db'.delegates, db'.balances), working')[next' - 1]
<1> DEFINE tx == ThisTx
           id == <<working, next>>
           f == chain[working].type = "forging"
           s == Seen(db.delegates, db.balances)
<1>1. /\ UNCHANGED <<chain, db, working>> /\ working \in Nat /\ next' = next + 1
      /\ tx \in Transaction /\ WellFormedTx(tx) /\ working \in 1..Len(chain)
      /\ IsBatch(batch) /\ KeysFor(tx) <= batch.count
      /\ batch' = ProcessTx(batch, tx, id, f)
      /\ id[1] = working /\ next \in 1..Len(chain[working].txs)
  BY NextTxFacts
<1>2. /\ BatchRows(db.delegates, batch) /\ Balances(batch.balances) /\ Balances(db.balances)
  BY DEF BooksOK
<1>3. tx = chain[working].txs[next] /\ LendsWell(tx) /\ chain \in Chains
  BY <1>1 DEF ThisTx, WellLent, LdInv, PlaceOK
<1>4. Len(chain[working].txs) \in Nat /\ working # 0
  BY <1>1, <1>3, ChainFacts
<1> HIDE DEF tx, id, f
<1>5. PICK ok \in BOOLEAN, value \in Nat : TxDone(batch, batch', tx, id, f, ok, value)
  BY <1>1, <1>2, TxStep
<1>6. PICK c : c = batch'
  OBVIOUS
<1>7. PICK b : b = batch
  OBVIOUS
<1>8. PICK g : g = db.balances
  OBVIOUS
<1>9. ViewOf(InForce(db.delegates, c), g, c.balances)
        = Abstract!Apply(ViewOf(InForce(db.delegates, b), g, b.balances), tx, id)
  <2>1. TxDone(b, c, tx, id, f, ok, value)
    BY <1>5, <1>6, <1>7
  <2>2. working = id[1] /\ tx \in Transaction /\ WellFormedTx(tx) /\ LendsWell(tx)
    BY <1>1, <1>3
  <2>3. BatchRows(db.delegates, b) /\ Balances(b.balances) /\ Balances(g)
    BY <1>2, <1>7, <1>8
  <2>4. PICK n : n = working
    OBVIOUS
  <2>5. PICK y : y = f
    OBVIOUS
  <2>6. n = id[1] /\ TxDone(b, c, tx, id, y, ok, value)
    BY <2>1, <2>2, <2>4, <2>5
  <2>7. PICK t \in Transaction : t = tx
    BY <2>2
  <2>8. PICK i : i = id
    OBVIOUS
  <2>9. /\ LendsWell(t) /\ WellFormedTx(t) /\ n = i[1] /\ TxDone(b, c, t, i, y, ok, value)
    BY <2>2, <2>6, <2>7, <2>8
  <2>10. ViewOf(InForce(db.delegates, c), g, c.balances)
           = Abstract!Apply(ViewOf(InForce(db.delegates, b), g, b.balances), t, i)
    BY <2>3, <2>9, ViewTx
  <2> QED
    BY <2>7, <2>8, <2>10
<1>10. ViewOf(InForce(db.delegates, b), g, b.balances) = CourseOf(chain, s, working)[next - 1]
  BY <1>4, <1>7, <1>8 DEF CourseOK
<1>11. CourseOf(chain, s, working)[next]
         = Abstract!Apply(CourseOf(chain, s, working)[next - 1], chain[working].txs[next], id)
  <2>1. next \in 1..Len(chain[working].txs) /\ Len(chain[working].txs) \in Nat
    BY <1>1, <1>4
  <2> HIDE DEF s
  <2>2. CourseOf(chain, s, working)[next]
          = Abstract!Apply(CourseOf(chain, s, working)[next - 1], chain[working].txs[next],
                           <<working, next>>)
    BY <2>1, CourseFacts
  <2> QED
    BY <2>2 DEF id
<1>12. next' - 1 = next
  BY <1>1, <1>4
<1>13. db' = db /\ chain' = chain /\ working' = working
  BY <1>1
<1> HIDE DEF s
<1>14. ViewOf(InForce(db.delegates, batch'), db.balances, batch'.balances)
         = CourseOf(chain, s, working)[next]
  BY <1>3, <1>6, <1>8, <1>9, <1>10, <1>11, Zenon
<1> QED
  BY <1>12, <1>13, <1>14, Zenon DEF s

LEMMA CourseStep ==
    ASSUME WellFormed, WellLent, LdInv, BooksOK, CounterLasts, CourseOK, [LdNext]_ldVars,
           LdInv', BooksOK'
    PROVE  CourseOK'
<1> SUFFICES ASSUME working' # 0
             PROVE  /\ db'.number \in {0, working' - 1}
                    /\ "balance" \in Modules =>
                        ViewOf(InForce(db'.delegates, batch'), db'.balances, batch'.balances)
                          = CourseOf(chain', Seen(db'.delegates, db'.balances), working')[next' - 1]
  BY DEF CourseOK
<1>1. db'.number \in {0, working' - 1}
  BY ExtendsStep
<1>2. CASE NoChange
  BY <1>1, <1>2 DEF NoChange, CourseOK
<1>3. CASE Afresh
  BY <1>1, <1>3, CourseAfresh
<1>4. CASE NextTx
  BY <1>1, <1>4, CourseNextTx
<1>5. CASE Save
  BY <1>5 DEF Save
<1> QED
  BY <1>2, <1>3, <1>4, <1>5, Kinds

\* What the database comes to when the block is written.
LEMMA CourseSave ==
    ASSUME "balance" \in Modules, LdInv, BooksOK, CounterLasts, CourseOK, Save
    PROVE  /\ working \in 1..Len(chain) /\ db.number \in {0, working - 1}
           /\ db'.number = working /\ chain' = chain
           /\ Abstract!acState' = Abstract!ApplyBlock(Abstract!acState, working)
<1>1. /\ working \in 1..Len(chain) /\ working \in Nat /\ db.number \in Nat /\ db.number < working
      /\ chain' = chain /\ Complete
      /\ db'.number = working /\ db'.balances = NewBalances
      /\ db'.delegates = InForce(db.delegates, batch)
  BY SaveFacts
<1>2. /\ Balances(db.balances) /\ Balances(batch.balances)
      /\ \A w \in Wallet : BalanceIn(db.balances, w).blockNumber <= db.number
  BY DEF BooksOK
<1>3. \A w \in Wallet : BalanceIn(db.balances, w).blockNumber < working
  <2>1. \A w \in Wallet : BalanceIn(db.balances, w).blockNumber \in Nat
    BY <1>2, BalanceFacts DEF Balances
  <2> QED
    BY <1>1, <1>2, <2>1
<1>4. \A w \in Wallet : Summed(BalanceIn(db.balances, w), BalanceIn(batch.balances, w),
                               BalanceIn(NewBalances, w))
  BY <1>1, <1>2, <1>3, SavedBalances
<1>5. PICK F : F = InForce(db.delegates, batch)
  OBVIOUS
<1>6. Seen(F, NewBalances) = ViewOf(F, db.balances, batch.balances)
  BY <1>2, <1>4, ViewSaved
<1>7. Abstract!acState' = Seen(F, NewBalances)
  BY <1>1, <1>5, AbstractNext
<1>8. PICK s : s = Seen(db.delegates, db.balances)
  OBVIOUS
<1>9. Abstract!acState = s
  BY <1>8, AbstractState
<1>10. db.number \in {0, working - 1}
       /\ ViewOf(F, db.balances, batch.balances) = CourseOf(chain, s, working)[next - 1]
  BY <1>1, <1>5, <1>8 DEF CourseOK
<1>11. Abstract!acState' = CourseOf(chain, s, working)[next - 1]
  BY <1>6, <1>7, <1>10
<1>12. /\ Len(chain[working].txs) \in Nat /\ next \in 1..(Len(chain[working].txs) + 1)
       /\ chain[working].type = "state" => next = 1
  BY <1>1, ChainFacts DEF LdInv, PlaceOK
<1>13. CASE chain[working].type = "state"
  <2>1. next - 1 = 0
    BY <1>12, <1>13
  <2>2. CourseOf(chain, s, working)[0] = s
    BY <1>12, CourseFacts
  <2>3. Abstract!ApplyBlock(s, working) = s
    BY <1>13, ApplyBlockIs, Zenon
  <2> QED
    BY <1>1, <1>9, <1>10, <1>11, <2>1, <2>2, <2>3
<1>14. CASE chain[working].type # "state"
  <2>1. next - 1 = Len(chain[working].txs)
    BY <1>1, <1>12, <1>14 DEF Complete
  <2>2. Abstract!ApplyBlock(s, working) = CourseOf(chain, s, working)[Len(chain[working].txs)]
    BY <1>14, ApplyBlockIs, Zenon
  <2> QED
    BY <1>1, <1>9, <1>10, <1>11, <2>1, <2>2
<1> QED
  BY <1>13, <1>14

LEMMA AbstractInit == LdInit => Abstract!AcInit
<1> SUFFICES ASSUME LdInit PROVE Abstract!AcInit
  OBVIOUS
<1>1. db.number = 0 /\ db.delegates = {} /\ db.balances = Empty
  BY DEF LdInit, EmptyDb
<1>2. /\ ZeroBalance.balance = ZeroElement /\ ZeroBalance.countSpent = 0
      /\ \A t \in Token : ZeroBalance.tokens[t] = ZeroElement
  BY DEF ZeroBalance
<1>3. \A w : BalanceIn(Empty, w) = ZeroBalance
  BY ZeroFacts
<1>4. ElementBalance(ZeroElement) = 0
  <2>1. Modulus \in Nat /\ Modulus > 0
    BY LedgerAssumption
  <2>2. 0 % Modulus = 0 /\ 0 - 0 = 0
    BY <2>1
  <2> QED
    BY <2>2 DEF ElementBalance, ZeroElement
<1>5. StackOf({}) = [p \in Wallet \X Wallet |-> <<>>]
  <2>1. \A p : States(Of({}, p)) = <<>>
    <3> TAKE p
    <3>1. Of({}, p) = {}
      BY DEF Of
    <3> QED
      BY <3>1, StatesEmpty
  <2> QED
    BY <2>1 DEF StackOf
<1>6. [w \in Wallet |-> ElementBalance(BalanceIn(Empty, w).balance)] = [w \in Wallet |-> 0]
  BY <1>2, <1>3, <1>4
<1>7. [w \in Wallet |-> BalanceIn(Empty, w).countSpent] = [w \in Wallet |-> 0]
  BY <1>2, <1>3
<1>8. [t \in Token |-> [w \in Wallet |-> ElementBalance(BalanceIn(Empty, w).tokens[t])]]
        = [t \in Token |-> [w \in Wallet |-> 0]]
  BY <1>2, <1>3, <1>4
<1>9. Seen({}, Empty) = Abstract!Nothing
  BY <1>5, <1>6, <1>7, <1>8, Zenon DEF Seen, Abstract!Nothing
<1>10. Abstract!acState = Abstract!Nothing
  BY <1>1, <1>9, AbstractState
<1> QED
  BY <1>1, <1>10 DEF Abstract!AcInit

LEMMA AbstractSame ==
    ASSUME UNCHANGED <<chain, db>>
    PROVE  UNCHANGED Abstract!acVars
<1>1. chain' = chain /\ db' = db
  OBVIOUS
<1>2. AbstractMoney' = AbstractMoney /\ AbstractSent' = AbstractSent
      /\ AbstractTokens' = AbstractTokens
  BY <1>1 DEF AbstractMoney, AbstractSent, AbstractTokens
<1>3. AbstractStack' = AbstractStack
  BY <1>1 DEF AbstractStack, DelegateStates
<1> QED
  BY <1>1, <1>2, <1>3 DEF Abstract!acVars

LEMMA AbstractStep ==
    ASSUME "balance" \in Modules, LdInv, BooksOK, CounterLasts, CourseOK, [LdNext]_ldVars
    PROVE  [Abstract!TakeEffect]_(Abstract!acVars)
<1>1. CASE NoChange \/ Afresh \/ NextTx
  <2>1. UNCHANGED <<chain, db>>
    BY <1>1 DEF NoChange, Afresh, NextTx
  <2> QED
    BY <2>1, AbstractSame
<1>2. CASE Save
  <2>1. /\ working \in 1..Len(chain) /\ db.number \in {0, working - 1}
        /\ db'.number = working /\ chain' = chain
        /\ Abstract!acState' = Abstract!ApplyBlock(Abstract!acState, working)
    BY <1>2, CourseSave
  <2> QED
    BY <2>1 DEF Abstract!TakeEffect
<1> QED
  BY <1>1, <1>2, Kinds

\* The worker implements Accounts: whatever is in the batch, whichever of the two
\* places an undelegation finds its delegation in, wherever a block fails and
\* the process restarts, the database changes by whole blocks, and each block
\* changes it as its transactions would one after the other.
THEOREM AccountsImplemented ==
    ASSUME WellFormed, WellLent, "balance" \in Modules
    PROVE  LdSpec /\ []CounterLasts => ImplementsAccounts
<1>1. LdInit => BooksOK /\ CourseOK /\ Abstract!AcInit
  BY BooksInit, CourseInit, AbstractInit
<1>2. LdInv /\ BooksOK /\ CounterLasts /\ [LdNext]_ldVars => BooksOK'
  BY BooksStep
<1>3. LdInv /\ BooksOK /\ CourseOK /\ CounterLasts /\ [LdNext]_ldVars /\ LdInv' /\ BooksOK'
      => CourseOK'
  BY CourseStep
<1>4. LdInv /\ BooksOK /\ CourseOK /\ CounterLasts /\ [LdNext]_ldVars
        => [Abstract!TakeEffect]_(Abstract!acVars)
  BY AbstractStep
<1> QED
  BY <1>1, <1>2, <1>3, <1>4, LedgerInvariant, PTL DEF LdSpec, ImplementsAccounts, Abstract!AcSpec

(***************************************************************************)
(* What a state block says of the delegations of a wallet.                 *)
(***************************************************************************)

ValuesOf(R) == [i \in DOMAIN States(R) |-> States(R)[i].value]

\* The values in the stack of R add up to what R is worth.
SumsUp(R) ==
    /\ \A i \in DOMAIN ValuesOf(R) : ValuesOf(R)[i] \in Int
    /\ SumFunction(ValuesOf(R)) = ValueOf(R)

LEMMA ValuesPush ==
    ASSUME NEW R, IsFiniteSet(R), \A d \in R : d.key \in Nat /\ d.value \in Nat,
           NEW r, r.key \in Nat, r.value \in Nat, \A d \in R : r.key < d.key,
           SumsUp(R)
    PROVE  SumsUp(R \cup {r})
<1>1. PICK S : S = R \cup {r}
  OBVIOUS
<1>2. r \notin R
  OBVIOUS
<1>3. PICK n \in Nat : n = Cardinality(R)
  BY FS_CardinalityType
<1>4. IsFiniteSet(S) /\ Cardinality(S) = n + 1 /\ S \ {r} = R /\ r \in S
  BY <1>1, <1>2, <1>3, FS_AddElement
<1>5. States(S) = Append(States(R), StateOf(r))
  BY <1>1, StatesPush
<1>6. /\ DOMAIN States(R) = 1..n /\ Len(States(R)) = n
      /\ States(R) \in Seq({StateOf(NthRow(R, i)) : i \in 1..n})
      /\ DOMAIN States(S) = 1..(n + 1)
  <2>1. /\ DOMAIN States(R) = 1..n /\ Len(States(R)) = n
        /\ States(R) \in Seq({StateOf(NthRow(R, i)) : i \in 1..n})
    BY <1>3, StatesAre
  <2>2. DOMAIN States(S) = 1..Cardinality(S)
    BY <1>4, StatesAre
  <2> QED
    BY <1>4, <2>1, <2>2
<1>7. (\A i \in 1..n : States(S)[i] = States(R)[i]) /\ States(S)[n + 1] = StateOf(r)
  <2>1. PICK T : T = {StateOf(NthRow(R, i)) : i \in 1..n} \cup {StateOf(r)}
    OBVIOUS
  <2>2. PICK s \in Seq(T) : s = States(R)
    <3>1. {StateOf(NthRow(R, i)) : i \in 1..n} \subseteq T
      BY <2>1
    <3> QED
      BY <1>6, <3>1
  <2>3. PICK x \in T : x = StateOf(r)
    BY <2>1
  <2>4. Len(s) = n /\ States(S) = Append(s, x)
    BY <1>5, <1>6, <2>2, <2>3
  <2>5. (\A i \in 1..Len(s) : Append(s, x)[i] = s[i]) /\ Append(s, x)[Len(s) + 1] = x
    BY AppendProperties
  <2> QED
    BY <2>2, <2>3, <2>4, <2>5
<1>9. PICK p : p = ValuesOf(R)
  OBVIOUS
<1>10. PICK q : q = ValuesOf(S)
  OBVIOUS
<1>11. /\ DOMAIN p = 1..n /\ \A i \in 1..n : p[i] = States(R)[i].value
  BY <1>6, <1>9 DEF ValuesOf
<1>12. /\ DOMAIN q = 1..(n + 1) /\ \A i \in 1..(n + 1) : q[i] = States(S)[i].value
  BY <1>6, <1>10 DEF ValuesOf
<1>13. q[n + 1] = r.value
  <2>1. n + 1 \in 1..(n + 1) /\ StateOf(r).value = r.value
    BY DEF StateOf
  <2> QED
    BY <1>7, <1>12, <2>1
<1>14. \A i \in 1..n : q[i] = p[i] /\ i \in 1..(n + 1)
  BY <1>7, <1>11, <1>12
<1>15. \A i \in 1..n : p[i] \in Int
  BY <1>9, <1>11 DEF SumsUp
<1>16. IsFiniteSet(1..n)
  BY FS_Interval
<1>17. SumFunctionOnSet(q, 1..n) = SumFunctionOnSet(p, 1..n)
  <2>1. \A i \in 1..n : q[i] \in Int /\ q[i] = p[i]
    BY <1>14, <1>15
  <2> QED
    BY <1>16, <2>1, SumSame
<1>18. SumFunctionOnSet(q, (1..n) \cup {n + 1}) = SumFunctionOnSet(q, 1..n) + q[n + 1]
  <2>1. n + 1 \notin 1..n /\ \A i \in (1..n) \cup {n + 1} : q[i] \in Int
    BY <1>13, <1>14, <1>15
  <2> QED
    BY <1>16, <2>1, SumAdd
<1>19. (1..n) \cup {n + 1} = 1..(n + 1)
  OBVIOUS
<1>20. SumFunction(q) = SumFunction(p) + r.value
  BY <1>11, <1>12, <1>13, <1>17, <1>18, <1>19 DEF SumFunction
<1>21. ValueOf(R) = ValueOf(S) - r.value /\ ValueOf(S) \in Int
  <2>1. \A d \in S : d.value \in Int
    BY <1>1
  <2> QED
    BY <1>4, <2>1, ValueFacts
<1>22. SumFunction(q) = ValueOf(S)
  BY <1>9, <1>20, <1>21 DEF SumsUp
<1>23. \A i \in 1..(n + 1) : q[i] \in Int
  <2>1. \A i \in 1..(n + 1) : i \in 1..n \/ i = n + 1
    OBVIOUS
  <2> QED
    BY <1>13, <1>14, <1>15, <2>1
<1> QED
  BY <1>1, <1>10, <1>12, <1>22, <1>23 DEF SumsUp

LEMMA StatesSum ==
    ASSUME NEW R, DelegateRows(R)
    PROVE  SumsUp(R)
<1> DEFINE Bad == {T \in SUBSET R : ~SumsUp(T)}
           Sizes == {Cardinality(T) : T \in Bad}
<1>1. /\ IsFiniteSet(R) /\ \A d \in R : d.key \in Nat /\ d.value \in Nat
      /\ \A d, e \in R : d.key = e.key => d = e
  BY DEF DelegateRows
<1>2. \A T \in SUBSET R : IsFiniteSet(T) /\ Cardinality(T) \in Nat
  BY <1>1, FS_Subset, FS_CardinalityType
<1>3. Sizes \subseteq Nat
  BY <1>2
<1>4. ASSUME Bad # {} PROVE FALSE
  <2>1. PICK n \in Sizes : \A m \in Sizes : n <= m
    <3>1. Sizes # {}
      BY <1>4
    <3> HIDE DEF Sizes
    <3> QED
      BY <1>3, <3>1, NatMin, Zenon
  <2>2. PICK T \in Bad : Cardinality(T) = n
    OBVIOUS
  <2>3. T \in SUBSET R /\ IsFiniteSet(T) /\ ~SumsUp(T)
    BY <1>2, <2>2
  <2>4. T # {}
    <3>1. SumFunction(ValuesOf({})) = 0 /\ DOMAIN ValuesOf({}) = {}
      <4>1. DOMAIN States({}) = {}
        BY StatesEmpty
      <4>2. DOMAIN ValuesOf({}) = {}
        BY <4>1 DEF ValuesOf
      <4> QED
        BY <4>2, SumEmpty DEF SumFunction
    <3>2. ValueOf({}) = 0
      BY SumEmpty DEF ValueOf
    <3> QED
      BY <2>3, <3>1, <3>2 DEF SumsUp
  <2>5. PICK r \in T : \A d \in T : r.key <= d.key
    <3>1. PICK K : K = {d.key : d \in T}
      OBVIOUS
    <3>2. K \subseteq Nat /\ K # {}
      BY <1>1, <2>3, <2>4, <3>1
    <3>3. PICK k \in K : \A j \in K : k <= j
      BY <3>2, NatMin, Zenon
    <3> QED
      BY <3>1, <3>3
  <2>6. PICK Q : Q = T \ {r}
    OBVIOUS
  <2>7. IsFiniteSet(Q) /\ Cardinality(Q) = n - 1 /\ Q \in SUBSET R /\ n \in Nat
    BY <1>3, <2>2, <2>3, <2>6, OneLess
  <2>8. Q \notin Bad
    <3>1. ASSUME Q \in Bad PROVE FALSE
      <4>1. n - 1 \in Sizes
        BY <2>7, <3>1
      <4> HIDE DEF Sizes
      <4> QED
        BY <2>1, <2>7, <4>1
    <3> QED
      BY <3>1
  <2>9. SumsUp(Q)
    BY <2>7, <2>8
  <2>10. \A d \in Q : r.key < d.key /\ d.key \in Nat /\ d.value \in Nat
    BY <1>1, <2>3, <2>5, <2>6
  <2>11. r.key \in Nat /\ r.value \in Nat
    BY <1>1, <2>3, <2>5
  <2>12. SumsUp(Q \cup {r})
    BY <2>7, <2>9, <2>10, <2>11, ValuesPush
  <2>13. Q \cup {r} = T
    BY <2>5, <2>6
  <2> QED
    BY <2>3, <2>12, <2>13
<1> QED
  BY <1>4

LEMMA ValueUnion ==
    ASSUME NEW A, NEW B, IsFiniteSet(A), IsFiniteSet(B), \A d \in A \cup B : d.value \in Int,
           A \cap B = {}
    PROVE  ValueOf(A \cup B) = ValueOf(A) + ValueOf(B)
<1> DEFINE G == {T \in SUBSET B : ValueOf(A \cup T) = ValueOf(A) + ValueOf(T)}
<1>1. {} \in G
  <2>1. A \cup {} = A /\ ValueOf({}) = 0
    BY SumEmpty DEF ValueOf
  <2>2. ValueOf(A) \in Int
    BY ValueFacts
  <2> QED
    BY <2>1, <2>2
<1>2. ASSUME NEW T \in SUBSET B, NEW x \in B \ T, T \in G
      PROVE  T \cup {x} \in G
  <2>1. PICK S : S = T \cup {x}
    OBVIOUS
  <2>2. PICK U : U = A \cup S
    OBVIOUS
  <2>3. /\ IsFiniteSet(T) /\ IsFiniteSet(S) /\ S \in SUBSET B /\ x \in S /\ S \ {x} = T
    BY <2>1, FS_Subset
  <2>4. IsFiniteSet(U) /\ x \in U /\ U \ {x} = A \cup T
    BY <2>1, <2>2, <2>3, FS_Union
  <2>5. \A d \in U : d.value \in Int
    BY <2>2, <2>3
  <2>6. ValueOf(S) \in Int /\ ValueOf(T) = ValueOf(S) - x.value
    BY <2>3, ValueFacts
  <2>7. ValueOf(U) \in Int /\ ValueOf(A \cup T) = ValueOf(U) - x.value
    BY <2>4, <2>5, ValueFacts
  <2>8. ValueOf(A) \in Int /\ x.value \in Int
    BY ValueFacts
  <2>9. ValueOf(A \cup T) = ValueOf(A) + ValueOf(T)
    BY <1>2
  <2>10. ValueOf(U) = ValueOf(A) + ValueOf(S)
    <3>1. PICK a \in Int : a = ValueOf(A)
      BY <2>8
    <3>2. PICK v \in Int : v = x.value
      BY <2>8
    <3>3. PICK s \in Int : s = ValueOf(S)
      BY <2>6
    <3>4. PICK u \in Int : u = ValueOf(U)
      BY <2>7
    <3>5. u - v = a + (s - v)
      BY <2>6, <2>7, <2>9, <3>1, <3>2, <3>3, <3>4
    <3>6. u = a + s
      BY <3>5
    <3> QED
      BY <3>1, <3>3, <3>4, <3>6
  <2> QED
    BY <2>1, <2>2, <2>3, <2>10
<1> HIDE DEF G
<1>3. B \in G
  BY <1>1, <1>2, SubsetInduction
<1> QED
  BY <1>3 DEF G

\* The rows of the delegations that w has made to one of V.
Between(D, w, V) == {d \in D : d.pair[1] = w /\ d.pair[2] \in V}

\* All that w has delegated, by receiver.
LEMMA OutSum ==
    ASSUME NEW D, DelegateRows(D), \A d \in D : d.pair \in Wallet \X Wallet, NEW w,
           NEW f, \A v \in Wallet : f[v] = ValueOf(Of(D, <<w, v>>))
    PROVE  /\ SumFunctionOnSet(f, Wallet) = ValueOf(RowsAt(D, 1, w))
           /\ ValueOf(RowsAt(D, 1, w)) \in Int
<1> DEFINE G == {V \in SUBSET Wallet : SumFunctionOnSet(f, V) = ValueOf(Between(D, w, V))}
<1>1. IsFiniteSet(D) /\ (\A d \in D : d.value \in Int) /\ IsFiniteSet(Wallet)
  BY LedgerAssumption DEF DelegateRows
<1>2. \A v, V : Of(D, <<w, v>>) \in SUBSET D /\ Between(D, w, V) \in SUBSET D
  BY DEF Of, Between
<1>3. \A R \in SUBSET D : IsFiniteSet(R) /\ ValueOf(R) \in Int
  <2> SUFFICES ASSUME NEW R \in SUBSET D PROVE IsFiniteSet(R) /\ ValueOf(R) \in Int
    OBVIOUS
  <2>1. IsFiniteSet(R)
    BY <1>1, FS_Subset
  <2>2. \A d \in R : d.value \in Int
    BY <1>1
  <2> QED
    BY <2>1, <2>2, ValueFacts
<1>4. \A v \in Wallet : f[v] \in Int
  BY <1>2, <1>3
<1>5. {} \in G
  <2>1. Between(D, w, {}) = {} /\ ValueOf({}) = 0
    BY SumEmpty DEF Between, ValueOf
  <2> QED
    BY <2>1, SumEmpty
<1>6. ASSUME NEW V \in SUBSET Wallet, NEW x \in Wallet \ V, V \in G
      PROVE  V \cup {x} \in G
  <2>1. PICK P : P = Between(D, w, V)
    OBVIOUS
  <2>2. PICK Q : Q = Of(D, <<w, x>>)
    OBVIOUS
  <2>3. /\ IsFiniteSet(P) /\ IsFiniteSet(Q) /\ \A d \in P \cup Q : d.value \in Int
    BY <1>1, <1>2, <1>3, <2>1, <2>2
  <2>4. P \cap Q = {}
    BY <2>1, <2>2 DEF Between, Of
  <2>5. Between(D, w, V \cup {x}) = P \cup Q
    <3>1. \A d \in D : d.pair = <<d.pair[1], d.pair[2]>>
      OBVIOUS
    <3>2. \A d \in D : d.pair = <<w, x>> <=> d.pair[1] = w /\ d.pair[2] = x
      BY <3>1
    <3> QED
      BY <2>1, <2>2, <3>2 DEF Between, Of
  <2>6. ValueOf(P \cup Q) = ValueOf(P) + ValueOf(Q)
    BY <2>3, <2>4, ValueUnion
  <2>7. SumFunctionOnSet(f, V \cup {x}) = SumFunctionOnSet(f, V) + f[x]
    <3>1. IsFiniteSet(V) /\ x \notin V /\ \A y \in V \cup {x} : f[y] \in Int
      BY <1>1, <1>4, FS_Subset
    <3> QED
      BY <3>1, SumAdd
  <2>8. SumFunctionOnSet(f, V) = ValueOf(P) /\ f[x] = ValueOf(Q)
    BY <1>6, <2>1, <2>2
  <2> QED
    BY <2>5, <2>6, <2>7, <2>8
<1> HIDE DEF G
<1>7. Wallet \in G
  BY <1>1, <1>5, <1>6, SubsetInduction
<1>8. Between(D, w, Wallet) = RowsAt(D, 1, w)
  BY DEF Between, RowsAt
<1> QED
  BY <1>2, <1>3, <1>7, <1>8 DEF G

(***************************************************************************)
(* The state after a number of blocks.                                     *)
(***************************************************************************)

BlockOf(c, s, n) ==
    IF c[n].type = "state" THEN s ELSE CourseOf(c, s, n)[Len(c[n].txs)]

\* g is the state of Accounts after each of the first m blocks of c.
IsAfter(g, c, m) ==
    g = [n \in 0..m |-> IF n = 0 THEN Abstract!Nothing ELSE BlockOf(c, g[n - 1], n)]

AfterOf(c) == CHOOSE g : IsAfter(g, c, Len(c))

LEMMA AfterExists ==
    ASSUME NEW c, NEW m \in Nat
    PROVE  \E g : IsAfter(g, c, m)
<1> DEFINE Bad == {k \in Nat : ~(\E g : IsAfter(g, c, k))}
<1> SUFFICES ASSUME Bad # {} PROVE FALSE
  OBVIOUS
<1>1. PICK k \in Bad : \A j \in Bad : k <= j
  <2>1. Bad \subseteq Nat
    OBVIOUS
  <2> QED
    BY <2>1, NatMin, Zenon
<1>2. k \in Nat /\ ~(\E g : IsAfter(g, c, k))
  OBVIOUS
<1>3. CASE k = 0
  <2>1. PICK g : g = [n \in 0..0 |-> Abstract!Nothing]
    OBVIOUS
  <2>2. IsAfter(g, c, 0)
    <3>1. \A n \in 0..0 : n = 0
      OBVIOUS
    <3> QED
      BY <2>1, <3>1 DEF IsAfter
  <2> QED
    BY <1>2, <1>3, <2>2
<1>4. CASE k # 0
  <2>1. k - 1 \in Nat /\ k - 1 \notin Bad
    BY <1>1, <1>2, <1>4
  <2>2. PICK f : IsAfter(f, c, k - 1)
    BY <2>1
  <2>3. PICK v : v = BlockOf(c, f[k - 1], k)
    OBVIOUS
  <2>4. PICK g : g = [n \in 0..k |-> IF n = k THEN v ELSE f[n]]
    OBVIOUS
  <2>5. \A n \in 0..(k - 1) : f[n] = IF n = 0 THEN Abstract!Nothing ELSE BlockOf(c, f[n - 1], n)
    BY <2>2 DEF IsAfter
  <2>6. \A n \in 0..(k - 1) : n \in 0..k /\ g[n] = f[n]
    BY <1>2, <2>4
  <2>7. g[k] = v /\ k \in 0..k
    BY <1>2, <2>4
  <2>8. ASSUME NEW n \in 0..k
        PROVE  g[n] = IF n = 0 THEN Abstract!Nothing ELSE BlockOf(c, g[n - 1], n)
    <3>1. CASE n = k
      <4>1. k - 1 \in 0..(k - 1)
        BY <2>1
      <4>2. g[k - 1] = f[k - 1]
        BY <2>6, <4>1
      <4> QED
        BY <1>4, <2>3, <2>7, <3>1, <4>2
    <3>2. CASE n # k
      <4>1. n \in 0..(k - 1)
        BY <1>2, <3>2
      <4>2. n # 0 => n - 1 \in 0..(k - 1)
        BY <1>2, <4>1
      <4>3. n # 0 => g[n - 1] = f[n - 1]
        BY <2>6, <4>2
      <4>4. g[n] = f[n]
        BY <2>6, <4>1
      <4> QED
        BY <2>5, <4>1, <4>3, <4>4
    <3> QED
      BY <3>1, <3>2
  <2>9. g = [n \in 0..k |-> g[n]]
    BY <2>4
  <2>10. IsAfter(g, c, k)
    BY <2>8, <2>9 DEF IsAfter
  <2> QED
    BY <1>2, <2>10
<1> QED
  BY <1>3, <1>4

LEMMA AfterFacts ==
    ASSUME NEW c, Len(c) \in Nat
    PROVE  /\ AfterOf(c)[0] = Abstract!Nothing
           /\ \A n \in 1..Len(c) : AfterOf(c)[n] = BlockOf(c, AfterOf(c)[n - 1], n)
<1>1. PICK m \in Nat : m = Len(c)
  OBVIOUS
<1>2. PICK g : g = AfterOf(c)
  OBVIOUS
<1>3. IsAfter(g, c, m)
  <2>1. \E h : IsAfter(h, c, m)
    BY AfterExists
  <2>2. g = CHOOSE h : IsAfter(h, c, m)
    BY <1>1, <1>2 DEF AfterOf
  <2> QED
    BY <2>1, <2>2, Zenon
<1>4. \A n \in 0..m : g[n] = IF n = 0 THEN Abstract!Nothing ELSE BlockOf(c, g[n - 1], n)
  BY <1>3 DEF IsAfter
<1>5. 0 \in 0..m /\ \A n \in 1..m : n \in 0..m /\ n # 0
  OBVIOUS
<1> QED
  BY <1>1, <1>2, <1>4, <1>5, Zenon

LEMMA AfterIs == Abstract!After = AfterOf(chain)
BY Zenon DEF Abstract!After, Abstract!ApplyBlock, Abstract!Course, AfterOf, IsAfter, BlockOf,
             CourseOf, IsCourse

\* Delegations are between wallets.
LentOK ==
    /\ \A d \in db.delegates : d.pair \in Wallet \X Wallet
    /\ \A d \in InForce(db.delegates, batch) : d.pair \in Wallet \X Wallet

\* When no block was missed the database is where the blocks lead to.
AfterOK ==
    "balance" \in Modules /\ 1..db.number \subseteq applied =>
        Seen(db.delegates, db.balances) = AfterOf(chain)[db.number]

LEMMA LentInit == LdInit => LentOK
<1> SUFFICES ASSUME LdInit PROVE LentOK
  OBVIOUS
<1>1. db.delegates = {} /\ batch.put = {}
  BY DEF LdInit, EmptyDb, NewBatch
<1> QED
  BY <1>1 DEF LentOK, InForce

LEMMA LentStep ==
    ASSUME WellFormed, WellLent, LdInv, BooksOK, CounterLasts, LentOK, [LdNext]_ldVars
    PROVE  LentOK'
<1>1. CASE NoChange
  BY <1>1 DEF NoChange, LentOK
<1>2. CASE Afresh
  <2>1. db' = db /\ batch'.put = {}
    BY <1>2, AfreshFacts
  <2>2. InForce(db'.delegates, batch') \subseteq db.delegates
    BY <2>1 DEF InForce
  <2> QED
    BY <2>1, <2>2 DEF LentOK
<1>3. CASE NextTx
  <2> DEFINE tx == ThisTx
             id == <<working, next>>
             f == chain[working].type = "forging"
  <2>1. /\ UNCHANGED <<chain, db, working>> /\ working \in Nat
        /\ tx \in Transaction /\ WellFormedTx(tx) /\ working \in 1..Len(chain)
        /\ IsBatch(batch) /\ KeysFor(tx) <= batch.count
        /\ batch' = ProcessTx(batch, tx, id, f)
        /\ id[1] = working /\ next \in 1..Len(chain[working].txs)
    BY <1>3, NextTxFacts
  <2>2. BatchRows(db.delegates, batch) /\ Balances(batch.balances)
    BY DEF BooksOK
  <2>3. LendsWell(tx)
    BY <2>1 DEF ThisTx, WellLent, LdInv, PlaceOK
  <2> HIDE DEF tx, id, f
  <2>4. PICK ok \in BOOLEAN, value \in Nat : TxDone(batch, batch', tx, id, f, ok, value)
    BY <2>1, <2>2, TxStep
  <2>5. PICK F : F = InForce(db.delegates, batch)
    OBVIOUS
  <2>6. PICK G : G = InForce(db.delegates, batch')
    OBVIOUS
  <2>7. RowsMoved(F, G, tx, id, ok, value)
    BY <2>4, <2>5, <2>6 DEF TxDone
  <2>8. ASSUME NEW d \in G PROVE d \in F \/ d.pair \in Wallet \X Wallet
    <3>1. CASE tx.op = "delegate" /\ ok /\ Lends(F, G, tx, id)
      <4>1. PICK r : G = F \cup {r} /\ r.pair = <<tx.from, tx.to>>
        BY <3>1 DEF Lends
      <4>2. tx.from \in Wallet /\ tx.to \in Wallet
        BY <2>3, <3>1 DEF LendsWell
      <4> QED
        BY <2>8, <4>1, <4>2
    <3>2. CASE ~(tx.op = "delegate" /\ ok /\ Lends(F, G, tx, id))
      <4>1. G \subseteq F
        BY <2>7, <3>2 DEF RowsMoved
      <4> QED
        BY <2>8, <4>1
    <3> QED
      BY <3>1, <3>2
  <2>9. \A d \in F : d.pair \in Wallet \X Wallet
    BY <2>5 DEF LentOK
  <2>10. \A d \in G : d.pair \in Wallet \X Wallet
    BY <2>8, <2>9
  <2>11. db' = db
    BY <2>1
  <2> QED
    BY <2>6, <2>10, <2>11 DEF LentOK
<1>4. CASE Save
  <2>1. db'.delegates = InForce(db.delegates, batch) /\ batch'.put = {}
    BY <1>4, SaveFacts
  <2>2. InForce(db'.delegates, batch') \subseteq db'.delegates
    BY <2>1 DEF InForce
  <2>3. \A d \in db'.delegates : d.pair \in Wallet \X Wallet
    BY <2>1 DEF LentOK
  <2> QED
    BY <2>2, <2>3 DEF LentOK
<1> QED
  BY <1>1, <1>2, <1>3, <1>4, Kinds

LEMMA AfterInit == LdInit => AfterOK
<1> SUFFICES ASSUME LdInit PROVE AfterOK
  OBVIOUS
<1>1. db.number = 0 /\ chain \in Chains
  BY DEF LdInit, EmptyDb
<1>2. Len(chain) \in Nat
  BY <1>1, ChainFacts
<1>3. Abstract!acState = Abstract!Nothing
  BY AbstractInit DEF Abstract!AcInit
<1>4. AfterOf(chain)[0] = Abstract!Nothing
  BY <1>2, AfterFacts
<1> QED
  BY <1>1, <1>3, <1>4, AbstractState DEF AfterOK

LEMMA AfterStep ==
    ASSUME LdInv, BooksOK, CounterLasts, CourseOK, AfterOK, [LdNext]_ldVars
    PROVE  AfterOK'
<1>1. CASE NoChange \/ Afresh \/ NextTx
  <2>1. UNCHANGED <<chain, db, applied>>
    BY <1>1 DEF NoChange, Afresh, NextTx
  <2> QED
    BY <2>1 DEF AfterOK
<1>2. CASE Save
  <2> SUFFICES ASSUME "balance" \in Modules, 1..db'.number \subseteq applied'
               PROVE  Seen(db'.delegates, db'.balances) = AfterOf(chain')[db'.number]
    BY DEF AfterOK
  <2>1. /\ working \in 1..Len(chain) /\ db.number \in {0, working - 1}
        /\ db'.number = working /\ chain' = chain
        /\ Abstract!acState' = Abstract!ApplyBlock(Abstract!acState, working)
    BY <1>2, CourseSave
  <2>2. /\ applied' = applied \cup {working} /\ applied \subseteq 1..db.number
        /\ chain \in Chains /\ Len(chain) \in Nat /\ working \in Nat
    BY <1>2, SaveFacts, ChainFacts DEF LdInv, PlaceOK
  <2>3. 1..(working - 1) \subseteq applied
    BY <2>1, <2>2
  <2>4. db.number = working - 1
    <3>1. CASE working = 1
      BY <2>1, <3>1
    <3>2. CASE working # 1
      <4>1. working - 1 \in 1..(working - 1)
        BY <2>2, <2>1, <3>2
      <4>2. working - 1 \in 1..db.number
        BY <2>2, <2>3, <4>1
      <4> QED
        BY <2>1, <2>2, <4>2
    <3> QED
      BY <3>1, <3>2
  <2>5. PICK s : s = Seen(db.delegates, db.balances)
    OBVIOUS
  <2>6. s = AfterOf(chain)[working - 1]
    BY <2>3, <2>4, <2>5 DEF AfterOK
  <2>7. AfterOf(chain)[working] = BlockOf(chain, AfterOf(chain)[working - 1], working)
    BY <2>1, <2>2, AfterFacts
  <2>8. Abstract!ApplyBlock(s, working) = BlockOf(chain, s, working)
    BY ApplyBlockIs, Zenon DEF BlockOf
  <2>9. Abstract!acState = s
    BY <2>5, AbstractState
  <2>10. Abstract!acState' = AfterOf(chain)[working]
    BY <2>1, <2>6, <2>7, <2>8, <2>9
  <2> QED
    BY <2>1, <2>10, AbstractNext
<1> QED
  BY <1>1, <1>2, Kinds

\* What a state block says when it says what the database holds.
LEMMA SaysMatch ==
    ASSUME NEW s, s = Seen(db.delegates, db.balances), BooksOK, LentOK, NEW w \in Wallet,
           BackedFor(db.delegates, BalanceIn(db.balances, w), ZeroBalance, w)
    PROVE  /\ CalcBalanceWithoutDelegate(BalanceIn(db.balances, w))
                = (s.money[w] + OutOf(s, w)) % Modulus
           /\ Delegations(s, w)
                = [v \in Wallet |-> [i \in DOMAIN DelegateStates(<<w, v>>) |->
                                        DelegateStates(<<w, v>>)[i].value]]
<1>1. PICK D : D = db.delegates
  OBVIOUS
<1>2. PICK x \in Balance : x = BalanceIn(db.balances, w)
  BY DEF BooksOK, Balances
<1>3. /\ s.stack = StackOf(D) /\ s.money[w] = ElementBalance(x.balance)
  BY <1>1, <1>2 DEF Seen
<1>4. \A v \in Wallet : s.stack[<<w, v>>] = States(Of(D, <<w, v>>))
  BY <1>3 DEF StackOf
<1>5. \A v : DelegateStates(<<w, v>>) = States(Of(D, <<w, v>>))
  BY <1>1 DEF DelegateStates, Of
<1>6. \A v \in Wallet : Delegations(s, w)[v] = ValuesOf(Of(D, <<w, v>>))
  BY <1>4 DEF Delegations, ValuesOf
<1>7. \A v \in Wallet : [i \in DOMAIN DelegateStates(<<w, v>>) |->
                             DelegateStates(<<w, v>>)[i].value] = ValuesOf(Of(D, <<w, v>>))
  BY <1>5 DEF ValuesOf
<1>8. Delegations(s, w) = [v \in Wallet |-> [i \in DOMAIN DelegateStates(<<w, v>>) |->
                                                DelegateStates(<<w, v>>)[i].value]]
  <2>1. Delegations(s, w) = [v \in Wallet |-> Delegations(s, w)[v]]
    BY DEF Delegations
  <2> QED
    BY <1>6, <1>7, <2>1
<1>9. DelegateRows(D) /\ \A d \in D : d.pair \in Wallet \X Wallet
  <2>1. DelegateRows(D \cup batch.put) /\ D \subseteq D \cup batch.put
    BY <1>1 DEF BooksOK, BatchRows
  <2>2. IsFiniteSet(D)
    BY <2>1, FS_Subset DEF DelegateRows
  <2> QED
    BY <1>1, <2>1, <2>2 DEF LentOK, DelegateRows
<1>10. PICK f : f = [v \in Wallet |-> SumFunction(Delegations(s, w)[v])]
  OBVIOUS
<1>11. OutOf(s, w) = SumFunctionOnSet(f, Wallet)
  BY <1>10 DEF OutOf, Total
<1>12. ASSUME NEW v \in Wallet
       PROVE  f[v] = ValueOf(Of(D, <<w, v>>))
  <2>1. PICK R : R = Of(D, <<w, v>>)
    OBVIOUS
  <2>2. DelegateRows(R)
    <3>1. R \subseteq D
      BY <2>1 DEF Of
    <3>2. IsFiniteSet(R)
      BY <1>9, <3>1, FS_Subset DEF DelegateRows
    <3> QED
      BY <1>9, <3>1, <3>2 DEF DelegateRows
  <2>3. SumFunction(ValuesOf(R)) = ValueOf(R)
    BY <2>2, StatesSum DEF SumsUp
  <2>4. f[v] = SumFunction(Delegations(s, w)[v])
    BY <1>10
  <2> QED
    BY <1>6, <2>1, <2>3, <2>4
<1>13. PICK o \in Int : o = OutOf(s, w) /\ o = ValueOf(RowsAt(D, 1, w))
  BY <1>9, <1>11, <1>12, OutSum
<1>14. /\ x.balance \in Element /\ x.delegate \in Element
  BY BalanceFacts
<1>15. PICK a \in Int : a = Net(x.balance)
  BY <1>14, ElementFacts
<1>16. PICK b \in Int : b = Net(x.delegate)
  BY <1>14, ElementFacts
<1>17. Same(0 - b, o)
  <2>1. Same(0 - (Net(x.delegate) + Net(ZeroBalance.delegate)), ValueOf(RowsAt(D, 1, w)))
    BY <1>1, <1>2 DEF BackedFor
  <2>2. Net(ZeroBalance.delegate) = 0
    BY ZeroFacts DEF ZeroBalance
  <2>3. b + 0 = b
    OBVIOUS
  <2> QED
    BY <1>13, <1>16, <2>1, <2>2, <2>3
<1>18. PICK m \in Int : m = s.money[w] /\ Same(m, a)
  <2>1. ElementBalance(x.balance) \in 0..(Modulus - 1) /\ Same(ElementBalance(x.balance), Net(x.balance))
    BY <1>14, ElementFacts
  <2> QED
    BY <1>3, <1>15, <2>1, LedgerAssumption
<1>19. Same(a - b, m + o)
  <2>1. PICK i \in Multiples : i = (0 - b) - o
    BY <1>17 DEF Same
  <2>2. PICK j \in Multiples : j = m - a
    BY <1>18 DEF Same
  <2>3. i - j \in Multiples /\ i \in Int /\ j \in Int
    BY MultiplesClosed
  <2>4. (a - b) - (m + o) = i - j
    BY <2>1, <2>2, <2>3
  <2> QED
    BY <2>3, <2>4 DEF Same
<1>20. PICK p \in Int : p = a - b
  OBVIOUS
<1>21. PICK q \in Int : q = m + o
  OBVIOUS
<1>22. p % Modulus = q % Modulus
  <2>1. Same(p, q)
    BY <1>19, <1>20, <1>21
  <2> QED
    BY <2>1, SameRemainder
<1>23. CalcBalanceWithoutDelegate(x) = p % Modulus
  <2>1. /\ x.balance.received \in Int /\ x.balance.spent \in Int
        /\ x.delegate.received \in Int /\ x.delegate.spent \in Int
    BY <1>14, ElementFacts
  <2>2. x.balance.received - x.balance.spent + x.delegate.spent - x.delegate.received = p
    BY <1>15, <1>16, <1>20, <2>1 DEF Net
  <2> QED
    BY <2>2, Zenon DEF CalcBalanceWithoutDelegate
<1>24. q = s.money[w] + OutOf(s, w)
  BY <1>13, <1>18, <1>21
<1> QED
  BY <1>2, <1>8, <1>22, <1>23, <1>24, Zenon

LEMMA HonestProperty ==
    ASSUME "balance" \in Modules, LdInv, BooksOK, BackedOK, CourseOK, LentOK, AfterOK
    PROVE  HonestStateAccepted
<1> SUFFICES ASSUME working # 0, 1..(working - 1) \subseteq applied
             PROVE  StateMatches(working)
  BY DEF HonestStateAccepted
<1>1. /\ working \in Nat /\ db.number \in {0, working - 1} /\ applied \subseteq 1..db.number
      /\ db.number \in Nat
  <2>1. working \in 0..Len(chain) /\ Len(chain) \in Nat /\ db.number \in 0..Len(chain)
        /\ applied \subseteq 1..db.number
    BY ChainFacts DEF LdInv, PlaceOK
  <2> QED
    BY <2>1 DEF CourseOK
<1>2. db.number = working - 1
  <2>1. CASE working = 1
    BY <1>1, <2>1
  <2>2. CASE working # 1
    <3>1. working - 1 \in 1..(working - 1)
      BY <1>1, <2>2
    <3>2. working - 1 \in 1..db.number
      BY <1>1, <3>1
    <3> QED
      BY <1>1, <3>2
  <2> QED
    BY <2>1, <2>2
<1>3. PICK s : s = StateSays(working)
  OBVIOUS
<1>4. s = Seen(db.delegates, db.balances)
  <2>1. s = AfterOf(chain)[working - 1]
    BY <1>3, AfterIs DEF StateSays
  <2> QED
    BY <1>2, <2>1 DEF AfterOK
<1>5. ASSUME NEW w \in Wallet
      PROVE  /\ CalcBalanceWithoutDelegate(BalanceIn(db.balances, w))
                  = (s.money[w] + OutOf(s, w)) % Modulus
             /\ Delegations(s, w)
                  = [v \in Wallet |-> [i \in DOMAIN DelegateStates(<<w, v>>) |->
                                          DelegateStates(<<w, v>>)[i].value]]
  <2>1. BackedFor(db.delegates, BalanceIn(db.balances, w), ZeroBalance, w)
    BY DEF BackedOK
  <2> QED
    BY <1>4, <2>1, SaysMatch
<1> QED
  BY <1>3, <1>5, Zenon DEF StateMatches

\* A state block that says what the blocks before it lead to is not refused,
\* whatever failed and restarted before it, as long as none of them was missed:
\* the sums and the stacks that validateStateBlock compares are those of
\* Accounts.
THEOREM HonestStatesAccepted ==
    ASSUME WellFormed, WellLent, "balance" \in Modules
    PROVE  LdSpec /\ []CounterLasts => []HonestStateAccepted
<1>1. LdInit => BooksOK /\ BackedOK /\ CourseOK /\ LentOK /\ AfterOK
  BY BooksInit, BackedInit, CourseInit, LentInit, AfterInit
<1>2. LdInv /\ BooksOK /\ BackedOK /\ LentOK /\ CounterLasts /\ [LdNext]_ldVars
        => BooksOK' /\ BackedOK' /\ LentOK'
  BY BooksStep, BackedStep, LentStep
<1>3. LdInv /\ BooksOK /\ CourseOK /\ CounterLasts /\ [LdNext]_ldVars /\ LdInv' /\ BooksOK'
        => CourseOK'
  BY CourseStep
<1>4. LdInv /\ BooksOK /\ CourseOK /\ AfterOK /\ CounterLasts /\ [LdNext]_ldVars => AfterOK'
  BY AfterStep
<1>5. LdInv /\ BooksOK /\ BackedOK /\ CourseOK /\ LentOK /\ AfterOK => HonestStateAccepted
  BY HonestProperty
<1> QED
  BY <1>1, <1>2, <1>3, <1>4, <1>5, LedgerInvariant, PTL DEF LdSpec

\* The thread that feeds the worker keeps to the chain, and at most one block waits.
FeedOK ==
    /\ fed \in 0..Len(chain) /\ lastSaved \in 0..db.number
    /\ queue \in {<<>>} \cup {<<n>> : n \in 1..Len(chain)}

LEMMA FedInit == LdInit => FeedOK
<1> SUFFICES ASSUME LdInit PROVE FeedOK
  OBVIOUS
<1>1. Len(chain) \in Nat
  BY ChainFacts DEF LdInit
<1> QED
  BY <1>1 DEF LdInit, EmptyDb, FeedOK

LEMMA FeedKept ==
    ASSUME LdInv, CounterLasts, FeedOK, [LdNext]_ldVars
    PROVE  FeedOK'
<1>1. Len(chain) \in Nat /\ db.number \in 0..Len(chain)
  BY ChainFacts DEF LdInv, PlaceOK
<1>2. CASE Process
  <2>1. /\ fed + 1 <= Len(chain) /\ fed' = fed + 1 /\ queue' \in {queue, <<fed + 1>>}
        /\ UNCHANGED <<chain, db, lastSaved>>
    BY <1>2 DEF Process
  <2>2. fed + 1 \in 1..Len(chain)
    BY <1>1, <2>1 DEF FeedOK
  <2> QED
    BY <2>1, <2>2 DEF FeedOK
<1>3. CASE Skip \/ Begin
  <2>1. queue # <<>> /\ queue' = Tail(queue) /\ UNCHANGED <<chain, db, fed, lastSaved>>
    BY <1>3 DEF Skip, Begin
  <2>2. PICK n \in 1..Len(chain) : queue = <<n>>
    BY <2>1 DEF FeedOK
  <2>3. queue' = <<>>
    BY <2>1, <2>2
  <2> QED
    BY <2>1, <2>3 DEF FeedOK
<1>4. CASE NextTx \/ TxFails \/ StateRefused \/ SaveFails \/ AllDone \/ UNCHANGED ldVars
  BY <1>4 DEF NextTx, TxFails, StateRefused, SaveFails, AllDone, ldVars, FeedOK
<1>5. CASE Save
  <2>1. UNCHANGED <<chain, queue, fed, lastSaved>>
    BY <1>5 DEF Save
  <2>2. db'.number = working /\ db.number < working /\ working \in Nat /\ db.number \in Nat
    BY <1>5, SaveFacts
  <2> QED
    BY <2>1, <2>2 DEF FeedOK
<1>6. CASE Restart
  BY <1>1, <1>6 DEF Restart, FeedOK
<1> QED
  BY <1>2, <1>3, <1>4, <1>5, <1>6 DEF LdNext

\* The worker stays on the chain, at most one block waits for it, and the sums
\* of every wallet, in the database and in the batch, stay in the range of size_t.
THEOREM LedgerTypes ==
    ASSUME WellFormed
    PROVE  LdSpec /\ []CounterLasts => []LdTypeOK
<1>1. LdInit => BooksOK /\ FeedOK
  BY BooksInit, FedInit
<1>2. LdInv /\ BooksOK /\ FeedOK /\ CounterLasts /\ [LdNext]_ldVars => BooksOK' /\ FeedOK'
  BY BooksStep, FeedKept
<1>3. LdInv /\ BooksOK /\ FeedOK => LdTypeOK
  <2> SUFFICES ASSUME LdInv, BooksOK, FeedOK PROVE LdTypeOK
    OBVIOUS
  <2>1. ASSUME NEW f \in {db.balances, batch.balances}
        PROVE  DOMAIN f \subseteq Wallet /\ \A w \in DOMAIN f : f[w] \in Balance
    <3>1. Balances(f)
      BY DEF BooksOK
    <3>2. \A w \in DOMAIN f : BalanceIn(f, w) = f[w]
      BY DEF BalanceIn
    <3> QED
      BY <3>1, <3>2 DEF Balances
  <2>2. /\ db.number \in 0..Len(chain) /\ working \in 0..Len(chain)
        /\ applied \subseteq 1..db.number /\ Len(chain) \in Nat
    BY ChainFacts DEF LdInv, PlaceOK
  <2>3. applied \subseteq 1..Len(chain)
    BY <2>2
  <2>4. fed \in 0..Len(chain) /\ lastSaved \in 0..db.number
        /\ queue \in {<<>>} \cup {<<n>> : n \in 1..Len(chain)}
    BY DEF FeedOK
  <2> QED
    BY <2>1, <2>2, <2>3, <2>4, Zenon DEF LdTypeOK
<1> QED
  BY <1>1, <1>2, <1>3, LedgerInvariant, PTL DEF LdSpec
=============================================================================
