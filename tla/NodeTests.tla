------------------------------ MODULE NodeTests ------------------------------
(***************************************************************************)
(* The results of the tests of other nodes: the worker thread that keeps   *)
(* them per day in a leveldb of its own (src/src/Workers/WorkerNodeTest.cpp)*)
(* and two of the queries that the server answers from it while the worker *)
(* writes, the rating of a node and its last result.                       *)
(*                                                                         *)
(* A day is the time between two state blocks.  A block is the sequence of *)
(* its transactions of the kinds that matter here; blocks are numbered     *)
(* along one chain and a hash stands for its number.  The worker reads     *)
(* before it writes and nobody else writes, so its work on a block is one  *)
(* step, at the write of the batch; a query is one step per key it reads.  *)
(***************************************************************************)
EXTENDS Integers, Sequences, FiniteSets, Ranks, SequencesExt, FiniteSetsExt

CONSTANTS
    Node,         \* addresses of tested nodes: numbers, for the order of std::set
    Chains,       \* the chains the network may have agreed on
    NoGeo,        \* the geo of the empty result
    MinTests,     \* values of the parameter countTests of a rating
    CountGroups,  \* countGroups, 5
    IntModulus,   \* 2^32, the range of int
    SizeModulus,  \* 2^64, the range of size_t
    MaxFaults,    \* how many batches leveldb may refuse
    MaxCrashes    \* how often the process may be killed

\* What the worker parses of the transactions of a block.
TestTx == [kind : {"test"}, node : Node, geo : Nat, rps : Nat, forward : BOOLEAN]
ValueTx == [kind : {"trust", "register"}, node : Node, value : Nat]
Block == [state : BOOLEAN, txs : Seq(TestTx \cup ValueTx \cup [kind : {"unreadable"}])]

ASSUME NodeTestsAssumption ==
    /\ Node \subseteq Nat /\ IsFiniteSet(Node) /\ MinTests \subseteq Nat \ {0}
    /\ CountGroups \in Nat \ {0} /\ IntModulus \in Nat \ {0}
    /\ SizeModulus \in Nat /\ SizeModulus > IntModulus
    /\ \A c \in Chains : c \in Seq(Block) /\ Len(c) < SizeModulus
    /\ MaxFaults \in Nat /\ MaxCrashes \in Nat

VARIABLES
    chain,    \* the blocks, numbered from 1
    db,       \* leveldbNodeTest
    queue,    \* the queue of the worker, of capacity 1
    fed,      \* the last block given to process
    applied,  \* history: the blocks that were written
    query,    \* the query under way, or the last one with its answer
    faults, crashes

ntVars == <<chain, db, queue, fed, applied, query, faults, crashes>>

Update(f, k, v) == [x \in DOMAIN f \cup {k} |-> IF x = k THEN v ELSE f[x]]

SumSeq(s) ==
    LET sum[i \in 0..Len(s)] == IF i = 0 THEN 0 ELSE sum[i - 1] + s[i]
    IN  sum[Len(s)]

Lookup(f, k, default) == IF k \in DOMAIN f THEN f[k] ELSE default

-----------------------------------------------------------------------------
(* What a block changes. *)

\* The places of the transactions of a kind that name node x.
OfKind(b, kind, x) ==
    {i \in DOMAIN b.txs : b.txs[i].kind = kind /\ b.txs[i].node = x}

KeysOfKind(b, kind) == {x \in Node : OfKind(b, kind, x) # {}}

\* The tests of node x in a block; one that cannot be parsed is logged and left
\* out (its kind is another).
TestsIn(b, x) == Listed(b.txs, OfKind(b, "test", x))

TestedIn(b) == KeysOfKind(b, "test")

RpsIn(b, x) == [i \in DOMAIN TestsIn(b, x) |-> TestsIn(b, x)[i].rps]

\* Mutant: the tests of a state block count for the day that it begins.
TestDay_New(b) == IF b.state THEN db.day + 1 ELSE db.day

\* currDay, read before the state block moves it.
TestDay(b) == db.day

EmptyResult == [tests |-> <<>>, day |-> 0, forward |-> FALSE]

\* BestNodeTest::addElement for the tests of a node in one block.
AddElements(old, tests, day) ==
    [tests |-> (IF old.day = day THEN old.tests ELSE <<>>) \o tests,
     day |-> day,
     forward |-> Last(tests).forward]

\* Only a state block sets trust, only another block registers nodes; of several
\* transactions of a block for one key the last counts.
LastOfKind(b, kind, x) == b.txs[Max(OfKind(b, kind, x))].value

Trusted(b) == IF b.state THEN KeysOfKind(b, "trust") ELSE {}
Registered(b) == IF b.state THEN {} ELSE KeysOfKind(b, "register")

\* AllNodes::plus: what is registered already stays (map::emplace).
PlusNodes(names, b) ==
    [x \in DOMAIN names \cup Registered(b) |->
        IF x \in DOMAIN names THEN names[x] ELSE LastOfKind(b, "register", x)]

Written(n) ==
    LET b == chain[n]
        day == TestDay(b)
        tested == TestedIn(b)
    IN  [number |-> n,
         day |-> IF b.state THEN db.day + 1 ELSE db.day,
         rps |-> [k \in DOMAIN db.rps \cup (tested \X {day}) |->
                    Lookup(db.rps, k, <<>>)
                      \o (IF k \in tested \X {day} THEN RpsIn(b, k[1]) ELSE <<>>)],
         last |-> [x \in DOMAIN db.last \cup tested |->
                    IF x \in tested
                    THEN AddElements(Lookup(db.last, x, EmptyResult), TestsIn(b, x), day)
                    ELSE db.last[x]],
         tested |-> IF tested = {} THEN db.tested
                    ELSE Update(db.tested, day, Lookup(db.tested, day, {}) \cup tested),
         names |-> PlusNodes(db.names, b),
         trust |-> [x \in DOMAIN db.trust \cup Trusted(b) |->
                    IF x \in Trusted(b) THEN LastOfKind(b, "trust", x)
                    ELSE db.trust[x]]]

-----------------------------------------------------------------------------
(* The worker. *)

\* The synchronising thread gives the worker the next block: it waits for room.
Process ==
    /\ fed < Len(chain) /\ queue = <<>>
    /\ fed' = fed + 1
    /\ queue' = <<fed + 1>>
    /\ UNCHANGED <<chain, db, applied, query, faults, crashes>>

\* Not saved yet, and on top of the last saved block, if there is one.
Fits(n) == n > db.number /\ (db.number = 0 \/ n = db.number + 1)

Work ==
    /\ queue # <<>> /\ Fits(Head(queue))
    /\ db' = Written(Head(queue))
    /\ applied' = applied \cup {Head(queue)}
    /\ queue' = Tail(queue)
    /\ UNCHANGED <<chain, fed, query, faults, crashes>>

\* A block that was saved already is passed over; one that is not on top of the
\* last saved one fails CHECK "Incorrect prev hash" and is dropped.
WorkRefused ==
    /\ queue # <<>> /\ ~Fits(Head(queue))
    /\ queue' = Tail(queue)
    /\ UNCHANGED <<chain, db, fed, applied, query, faults, crashes>>

\* leveldb refuses the batch: nothing is written and the block is dropped.
WorkFails ==
    /\ queue # <<>> /\ Fits(Head(queue))
    /\ faults < MaxFaults
    /\ faults' = faults + 1
    /\ queue' = Tail(queue)
    /\ UNCHANGED <<chain, db, fed, applied, query, crashes>>

Idle == [kind |-> "none"]

\* The process is killed and starts again.  The headers of the last blocks may
\* not have been saved: then blocks come once more that the worker has saved.
Restart ==
    /\ crashes < MaxCrashes
    /\ crashes' = crashes + 1
    /\ queue' = <<>> /\ fed' \in 0..db.number
    /\ query' = Idle
    /\ UNCHANGED <<chain, db, applied, faults>>

-----------------------------------------------------------------------------
(* calcNodeRaiting. *)

\* SerializerInt(-dayNumber): the latest day is to come first.
DayKey(d) == (-d) % SizeModulus

\* findAllTestedNodesForLastDay: the first key.  A day without nodes is 0.
LastTestedDay ==
    IF DOMAIN db.tested = {} THEN 0
    ELSE CHOOSE d \in DOMAIN db.tested :
            \A e \in DOMAIN db.tested : DayKey(d) <= DayKey(e)

\* accumulate with an initial value of type int, divided by a size_t.
FindAvg(s) ==
    LET sum == SumSeq(s) % IntModulus
        asSize == IF 2 * sum >= IntModulus THEN sum - IntModulus + SizeModulus ELSE sum
    IN  asSize \div Len(s)

\* Mutant: the numbers of normal and of larger groups are swapped.
GroupOf_Swapped(i, n) ==
    LET normal == n \div CountGroups
        countNormal == n % CountGroups
        inNormal == countNormal * normal
    IN  IF i < inNormal
        THEN i \div normal + 1
        ELSE (i - inNormal) \div (normal + 1) + countNormal + 1

\* The group of element i (from 0) of n: the larger groups come last.
GroupOf(i, n) ==
    LET normal == n \div CountGroups
        countNormal == CountGroups - (n % CountGroups)
        inNormal == countNormal * normal
    IN  IF i < inNormal
        THEN i \div normal + 1
        ELSE (i - inNormal) \div (normal + 1) + countNormal + 1

AskRating(x, count) ==
    /\ query' = [kind |-> "rating", node |-> x, count |-> count,
                 day |-> LastTestedDay,
                 todo |-> Lookup(db.tested, LastTestedDay, {}),
                 had |-> Len(Lookup(db.rps, <<x, LastTestedDay>>, <<>>)),
                 read |-> [y \in {} |-> <<>>], group |-> -1]
    /\ UNCHANGED <<chain, db, queue, fed, applied, faults, crashes>>

\* Mutant: the results of the day that is under way are read.
RatingDay_Current == db.day

RatingDay == query.day

RatingRead ==
    /\ query.kind = "rating" /\ query.todo # {}
    /\ LET y == Min(query.todo)
       IN  query' = [query EXCEPT
                       !.todo = @ \ {y},
                       !.read = Update(@, y, Lookup(db.rps, <<y, RatingDay>>, <<>>))]
    /\ UNCHANGED <<chain, db, queue, fed, applied, faults, crashes>>

\* std::sort leaves the order of equal averages open.
RatingAnswer ==
    /\ query.kind = "rating" /\ query.todo = {} /\ query.group = -1
    /\ LET rated == {y \in DOMAIN query.read : Len(query.read[y]) >= query.count}
           avg == [y \in rated |-> FindAvg(query.read[y])]
           below == {y \in rated : avg[y] < avg[query.node]}
           same == {y \in rated : avg[y] = avg[query.node]}
       IN  IF query.node \in rated
           THEN \E i \in Cardinality(below)..(Cardinality(below \cup same) - 1) :
                    query' = [query EXCEPT !.group = GroupOf(i, Cardinality(rated))]
           ELSE query' = [query EXCEPT !.group = 0]
    /\ UNCHANGED <<chain, db, queue, fed, applied, faults, crashes>>

-----------------------------------------------------------------------------
(* getLastNodeTestResult. *)

EmptyElement == [geo |-> NoGeo, rps |-> 0]

\* Mutant: results of an earlier day are taken.
GetMax_AnyDay(r, day) ==
    LET worked == {i \in DOMAIN r.tests : r.tests[i].rps # 0}
    IN  IF worked = {} THEN EmptyElement
        ELSE [geo |-> r.tests[Max(worked)].geo, rps |-> r.tests[Max(worked)].rps]

\* The last test in the geo whose tests are the best on average: the largest, or
\* the smallest when the last test gave a latency.  The first of equal geos.
GetMax(r, day) ==
    LET worked == {i \in DOMAIN r.tests : r.tests[i].rps # 0}
        geos == {r.tests[i].geo : i \in worked}
        inGeo(g) == {i \in DOMAIN r.tests : r.tests[i].geo = g}
        sum(g) == SumSeq([i \in DOMAIN r.tests |->
                            IF i \in inGeo(g) THEN r.tests[i].rps ELSE 0])
        avg(g) == sum(g) \div Cardinality(worked \cap inGeo(g))
        best == {g \in geos : \A h \in geos :
                    IF r.forward THEN avg(g) >= avg(h) ELSE avg(g) <= avg(h)}
    IN  IF r.day # day \/ geos = {} THEN EmptyElement
        ELSE [geo |-> Min(best), rps |-> r.tests[Max(inGeo(Min(best)))].rps]

AskLast(x) ==
    /\ x \in DOMAIN db.last
    /\ query' = [kind |-> "last", node |-> x, result |-> db.last[x], today |-> -1]
    /\ UNCHANGED <<chain, db, queue, fed, applied, faults, crashes>>

LastDay ==
    /\ query.kind = "last" /\ query.today = -1
    /\ query' = [kind |-> "lastRps", node |-> query.node, today |-> db.day,
                 element |-> GetMax(query.result, db.day),
                 day |-> IF GetMax(query.result, db.day) = EmptyElement THEN 0
                         ELSE query.result.day]
    /\ UNCHANGED <<chain, db, queue, fed, applied, faults, crashes>>

\* The average is over the results of the day of the answer.
LastAnswer ==
    /\ query.kind = "lastRps"
    /\ query' = [kind |-> "lastAnswer", node |-> query.node, today |-> query.today,
                 element |-> query.element, day |-> query.day,
                 rps |-> Lookup(db.rps, <<query.node, query.day>>, <<>>)]
    /\ UNCHANGED <<chain, db, queue, fed, applied, faults, crashes>>

Answered ==
    \/ query.kind \in {"none", "lastAnswer"}
    \/ query.kind = "rating" /\ query.group # -1

Ask ==
    /\ Answered
    /\ \E x \in Node : AskLast(x) \/ \E count \in MinTests : AskRating(x, count)

-----------------------------------------------------------------------------
NtInit ==
    /\ chain \in Chains
    /\ db = [number |-> 0, day |-> 0, rps |-> [k \in {} |-> <<>>],
             last |-> [x \in {} |-> EmptyResult], tested |-> [d \in {} |-> {}],
             names |-> [x \in {} |-> 0], trust |-> [x \in {} |-> 0]]
    /\ queue = <<>> /\ fed = 0 /\ applied = {}
    /\ query = Idle
    /\ faults = 0 /\ crashes = 0

NtNext ==
    \/ Process \/ Work \/ WorkRefused \/ WorkFails \/ Restart
    \/ Ask \/ RatingRead \/ RatingAnswer \/ LastDay \/ LastAnswer

NtSpec == NtInit /\ [][NtNext]_ntVars

-----------------------------------------------------------------------------
(* Properties. *)

\* The queue holds at most one block of the chain, the database names a block
\* of the chain and the two tables of a day name the same nodes.
NtTypeOK ==
    /\ queue \in {<<>>} \cup {<<n>> : n \in 1..Len(chain)}
    /\ fed \in 0..Len(chain) /\ db.number \in 0..Len(chain)
    /\ db.day \in Nat /\ applied \subseteq 1..Len(chain)
    /\ DOMAIN db.rps = UNION {db.tested[d] \X {d} : d \in DOMAIN db.tested}
    /\ \A k \in DOMAIN db.rps : db.rps[k] \in Seq(Nat) /\ db.rps[k] # <<>>
    /\ \A x \in DOMAIN db.last : db.last[x].tests # <<>>

\* The number of written state blocks before block n.
DayOf(n) == Cardinality({m \in applied : m < n /\ chain[m].state})

\* What the written blocks say about node x on day d, in their order.
DayTests(x, d) ==
    FlattenSeq([n \in DOMAIN chain |->
        IF n \in applied /\ DayOf(n) = d THEN TestsIn(chain[n], x) ELSE <<>>])

\* Refused batches, blocks that did not fit and restarts neither lose a test of
\* a written block nor count one twice or for another day: a day has the
\* results of its blocks, those of the state block that ends it included.
DaysComplete ==
    /\ db.day = DayOf(Len(chain) + 1)
    /\ \A x \in Node, d \in 0..db.day :
        Lookup(db.rps, <<x, d>>, <<>>)
            = [i \in DOMAIN DayTests(x, d) |-> DayTests(x, d)[i].rps]

\* The last results of a node are all its tests of the last day it was tested
\* on, its trust is what the last state block that names it says, and its
\* registration that of the first block that registered it.
LatestKept ==
    \A x \in Node :
        LET days == {d \in 0..db.day : DayTests(x, d) # <<>>}
            trusting == {n \in applied : x \in Trusted(chain[n])}
            registering == {n \in applied : x \in Registered(chain[n])}
        IN  /\ Lookup(db.last, x, EmptyResult).tests
                 = IF days = {} THEN <<>> ELSE DayTests(x, Max(days))
            /\ trusting # {} =>
                 db.trust[x] = LastOfKind(chain[Max(trusting)], "trust", x)
            /\ registering # {} =>
                 db.names[x] = LastOfKind(chain[Min(registering)], "register", x)

\* After the first written block the worker writes every block or none: a block
\* on top of one that was dropped is never counted.
NoGaps == \A m, n \in applied : \A k \in m..n : k \in applied

\* The tables hold what the written blocks say, all of it and nothing else, and
\* no block is missing among these.
TablesComplete == DaysComplete /\ LatestKept /\ NoGaps

\* The day a rating is about is the latest one with tests.  The key of day 0 is
\* 0 and comes before all others, so the days before the first state block must
\* have none.
LastDayIsLatest ==
    0 \notin DOMAIN db.tested /\ DOMAIN db.tested # {} =>
        LastTestedDay = Max(DOMAIN db.tested)

\* A rating is computed from one day although blocks are written and days end
\* between its reads: each result that was read is what the day had at some time
\* since the question, and a node that had enough tests then gets a group.  The
\* day is the latest.
RatingOfOneDay ==
    query.kind = "rating" =>
        /\ LastDayIsLatest
        /\ \A y \in DOMAIN query.read :
             /\ query.read[y] # <<>>
             /\ IsPrefix(query.read[y], Lookup(db.rps, <<y, query.day>>, <<>>))
        /\ query.group # -1 /\ query.had >= query.count => query.group \in 1..CountGroups

\* A last result that is not empty is of the day that was read as the present
\* one, and is among the results whose average is given with it, whatever the
\* worker wrote between the three reads.
LastResultOfToday ==
    query.kind = "lastAnswer" /\ query.element # EmptyElement =>
        /\ query.day = query.today
        /\ \E i \in DOMAIN query.rps : query.rps[i] = query.element.rps

\* The loop that calcNodeRaiting had before (kept in a comment) gives each of
\* the groups 1..g n / 5 elements, and one more to each of the last n % 5 groups.
GroupEnd(g, n) ==
    g * (n \div CountGroups) + Max({0, g - (CountGroups - (n % CountGroups))})

\* The arithmetic that replaced the loop puts every element in the same group,
\* however many nodes a rating finds: up to two elements in a group here.
GroupsAsInLoop ==
    query.kind = "rating" /\ query.todo = {} =>
        \A n \in 1..(CountGroups + 3) : \A i \in 0..(n - 1) :
            LET g == GroupOf(i, n)
            IN  /\ g \in 1..CountGroups
                /\ GroupEnd(g - 1, n) <= i /\ i < GroupEnd(g, n)
=============================================================================
