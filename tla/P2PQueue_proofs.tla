--------------------------- MODULE P2PQueue_proofs --------------------------
(***************************************************************************)
(* For every number of servers and connections, all requests and every     *)
(* interleaving of the caller and the threads: the functions of the caller *)
(* run only inside of its call, a server is asked for a segment once, a    *)
(* call succeeds exactly when it has an answer for each segment, and its   *)
(* segments cover the request.  With two servers, or with a server that    *)
(* is named in the call, no element is erased twice.                       *)
(***************************************************************************)
EXTENDS P2PQueue, Lemmas

(***************************************************************************)
(* The inductive invariant, in parts.                                      *)
(***************************************************************************)

\* A thread that may still answer or fail, and one that has an element.
Busy == {"got", "peeking", "make", "making", "request", "responding", "failed"}

Taken == Busy \cup {"remove", "removeError"}

\* Which task the queue, the caller and the threads are in.
TaskInv ==
    /\ isStopped <=> callerPc = "idle"
    /\ callerPc = "idle" => queueTask = taskId - 1
    /\ callerPc # "idle" => queueTask = taskId
    /\ destroyed = IF callerPc = "stop" THEN taskId ELSE taskId - 1
    /\ \A t \in Thread :
        /\ mine[t].task <= told[t].task /\ told[t].task <= queueTask
        /\ pc[t] \in {"making", "responding"} =>
            mine[t].task = taskId /\ callerPc \notin {"idle", "stop"}
    /\ callerPc # "newTasks" => queue = <<>>

\* Which elements there are, and which of them the threads have.
Alive ==
    \A e \in DOMAIN elements :
        e \in ToSet(queue) \/ \E t \in Thread : pc[t] = "peeking" /\ element[t] = e

Holds(t) ==
    /\ element[t] # NoElement => element[t].task = mine[t].task
    /\ element[t].task = queueTask => element[t].pos <= added
    /\ pc[t] \in Taken => element[t] # NoElement
    /\ element[t] \in DOMAIN elements =>
        mine[t].server \in elements[element[t]].servers

HoldInv ==
    /\ \A e \in ToSet(queue) : e.pos <= added
    /\ Alive
    /\ \A t \in Thread : Holds(t)
    /\ ServerAskedOnce

\* The servers of the task are those of its distribution.
OfTask(x) ==
    x.task = queueTask /\ x.task # 0 =>
        /\ x.server \in Range(distribution)
        /\ x.countUniqueServers = countUnique(distribution)

ServersInv ==
    /\ \A t \in Thread : OfTask(told[t]) /\ OfTask(mine[t])
    /\ \A e \in DOMAIN elements :
        e.task = queueTask => elements[e].servers \subseteq Range(distribution)
    /\ \A t \in Thread : element[t] \in DOMAIN elements =>
        Cardinality(elements[element[t]].servers) <= mine[t].countUniqueServers

\* The servers that failed have no thread with the element any more.
Acting == Busy \cup {"remove"}

ErrorsInv ==
    \A e \in DOMAIN elements :
        /\ elements[e].errorServers \subseteq elements[e].servers
        /\ \A t \in Thread : element[t] = e /\ pc[t] \in Acting =>
            mine[t].server \notin elements[e].errorServers

\* A server that did not fail and has no thread left that could, where only
\* the threads at the places P count.
Spare(e, P) ==
    \E s \in elements[e].servers \ elements[e].errorServers :
        \A t \in Thread : element[t] = e /\ pc[t] \in P => mine[t].server # s

Answered(e) == answers[e.pos] # NoServer

\* An element that is out of the queue or answered has a server that answered.
SpareInv ==
    \A e \in DOMAIN elements :
        /\ e \notin ToSet(queue) => Spare(e, Acting)
        /\ e.task = queueTask /\ Answered(e) => Spare(e, Busy)

\* Who is about to take an element out of the queue.
Removes(t) ==
    pc[t] = "remove" /\ element[t].task = queueTask => Answered(element[t])

GivesUp(t) ==
    pc[t] = "removeError" =>
        /\ element[t] \in ToSet(queue)
        /\ ~Answered(element[t])
        /\ \A u \in Thread : u # t /\ element[u] = element[t] => pc[u] \notin Taken
        /\ Range(distribution) \subseteq elements[element[t]].servers

RemoveInv == \A t \in Thread : Removes(t) /\ GivesUp(t)

\* A segment whose last server has failed.
Segment(i) == [task |-> queueTask, pos |-> i]

Lost(i) ==
    /\ answers[i] = NoServer
    /\ Segment(i) \notin ToSet(queue)
    /\ \A t \in Thread : pc[t] \in Busy => element[t] # Segment(i)

\* What became of the segments.
NoneForgotten ==
    callerPc \in {"newTasks", "error"} =>
        \A i \in 1..added :
            answers[i] # NoServer \/ Segment(i) \in ToSet(queue) \/ isError

ResultInv ==
    /\ NoneForgotten
    /\ callerPc = "error" => added = Len(segments)
    /\ \A i \in (added + 1)..Len(segments) : answers[i] = NoServer
    /\ SuccessMeansAnswered
    /\ isError \/ result = "error" => \E i \in 1..added : Lost(i)

AnswerInv == ServersInv /\ ErrorsInv /\ SpareInv /\ RemoveInv /\ ResultInv

P2PInv == P2PTypeOK /\ TaskInv /\ HoldInv /\ AnswerInv

(***************************************************************************)
(* The constants.                                                          *)
(***************************************************************************)

\* The servers and the threads are finitely many.
LEMMA ServerFacts ==
    /\ Len(Servers) \in Nat \ {0}
    /\ \A i \in 1..Len(Servers) : Servers[i] \in Server
    /\ NoServer \notin Server
    /\ IsFiniteSet(Server)
    /\ Cardinality(Server) \in 0..Len(Servers)
<1>1. Servers \in Seq(Server) /\ Servers # <<>> /\ NoServer \notin Server
  BY P2PAssumption DEF Server
<1>2. Len(Servers) \in Nat \ {0} /\ DOMAIN Servers = 1..Len(Servers)
  BY <1>1
<1>3. \A i \in 1..Len(Servers) : Servers[i] \in Server
  BY <1>1, <1>2
<1>4. Servers \in Surjection(1..Len(Servers), Server)
  <2>1. Servers \in [1..Len(Servers) -> Server]
    BY <1>1, <1>2, <1>3
  <2>2. \A s \in Server : \E i \in 1..Len(Servers) : Servers[i] = s
    BY <1>2 DEF Server, ToSet
  <2> QED
    BY <2>1, <2>2 DEF Surjection
<1>5. IsFiniteSet(1..Len(Servers)) /\ Cardinality(1..Len(Servers)) = Len(Servers)
  BY <1>2, FS_Interval
<1>6. IsFiniteSet(Server) /\ Cardinality(Server) <= Len(Servers)
  <2>1. IsFiniteSet(Server) /\ Cardinality(Server) <= Cardinality(1..Len(Servers))
    BY <1>4, <1>5, FS_Surjection
  <2> QED
    BY <1>5, <2>1
<1>7. Cardinality(Server) \in Nat
  BY <1>6, FS_CardinalityType
<1> QED
  BY <1>1, <1>2, <1>3, <1>6, <1>7

LEMMA ThreadFacts ==
    /\ Thread \subseteq Nat \ {0}
    /\ Cardinality(Thread) \in Nat \ {0}
    /\ 1 \in Thread
<1> DEFINE n == IF IsGraph THEN Connections ELSE Connections * Len(Servers)
<1>1. Connections \in Nat \ {0} /\ Len(Servers) \in Nat \ {0}
  BY P2PAssumption, ServerFacts
<1>2. Connections * Len(Servers) \in Nat \ {0}
  BY <1>1
<1>3. n \in Nat \ {0}
  BY <1>1, <1>2
<1>4. Thread = 1..n
  BY DEF Thread
<1> HIDE DEF n
<1>5. Cardinality(1..n) = n
  BY <1>3, FS_Interval
<1> QED
  BY <1>3, <1>4, <1>5

\* CeilDiv rounds up.
LEMMA CeilDivFacts ==
    ASSUME NEW a \in Nat \ {0}, NEW b \in Nat \ {0}
    PROVE  CeilDiv(a, b) \in Nat \ {0} /\ (CeilDiv(a, b) - 1) * b < a
<1> DEFINE n == a + b - 1
           d == n \div b
<1>1. n \in Nat /\ n >= b
  OBVIOUS
<1>2. d \in Int /\ d * b <= n /\ n < (d + 1) * b
  BY <1>1
<1> HIDE DEF d
<1>3. d \in Nat \ {0}
  BY <1>1, <1>2
<1>4. (d - 1) * b = d * b - b
  BY <1>3
<1>5. (d - 1) * b < a
  BY <1>2, <1>4
<1> QED
  BY <1>3, <1>5 DEF CeilDiv, d

\* Multiplication is monotonic.
LEMMA TimesMonotonic ==
    ASSUME NEW a \in Nat, NEW b \in Nat, NEW c \in Nat, a <= b
    PROVE  a * c <= b * c
<1>1. (b - a) * c >= 0
  <2>1. b - a \in Nat
    OBVIOUS
  <2> QED
    BY <2>1
<1>2. (b - a) * c = b * c - a * c
  OBVIOUS
<1> QED
  BY <1>1, <1>2

\* All but the last of the segments end before the request does.
LEMMA StepFacts ==
    ASSUME NEW r \in Requests
    PROVE  LET count == countSegments(r)
               step == Min({r.size, Max({r.size \div count, r.minSize})})
           IN  /\ count \in Nat \ {0} /\ step \in Nat \ {0} /\ step <= r.size
               /\ (count - 1) * step < r.size
<1> DEFINE count == countSegments(r)
           share == r.size \div count
           step == Min({r.size, Max({share, r.minSize})})
<1>1. r.size \in Nat \ {0} /\ r.minSize \in Nat \ {0}
  BY P2PAssumption
<1>2. CASE r.minSize = 1
  <2>1. count = r.size
    BY <1>2 DEF countSegments
  <2>2. share = 1
    BY <1>1, <2>1
  <2>3. Max({1, 1}) = 1 /\ Min({r.size, 1}) = 1
    BY <1>1, MaxOfTwo, MinOfTwo
  <2>4. step = 1
    BY <1>2, <2>2, <2>3
  <2> QED
    BY <1>1, <2>1, <2>4
<1>3. CASE r.minSize # 1
  <2> DEFINE ceil == CeilDiv(r.size, r.minSize)
  <2>1. ceil \in Nat \ {0} /\ (ceil - 1) * r.minSize < r.size
    BY <1>1, CeilDivFacts
  <2>2. Cardinality(Thread) \in Nat \ {0}
    BY ThreadFacts
  <2> HIDE DEF ceil
  <2>3. count = IF ceil <= Cardinality(Thread) THEN ceil ELSE Cardinality(Thread)
    BY <1>3, <2>1, <2>2, MinOfTwo DEF countSegments, ceil
  <2>4. count \in Nat \ {0} /\ count <= ceil
    BY <2>1, <2>2, <2>3
  <2> HIDE DEF count
  <2>5. (count - 1) * r.minSize < r.size
    <3>1. (count - 1) * r.minSize <= (ceil - 1) * r.minSize
      BY <1>1, <2>1, <2>4, TimesMonotonic
    <3>2. (count - 1) * r.minSize \in Int /\ (ceil - 1) * r.minSize \in Int
      BY <1>1, <2>1, <2>4
    <3> HIDE DEF count
    <3> QED
      BY <3>1, <3>2, <2>1, <1>1
  <2>6. share \in Nat /\ share * count <= r.size
    BY <1>1, <2>4
  <2> HIDE DEF share
  <2>7. (count - 1) * share = share * count - share
    BY <2>4, <2>6
  <2>8. share # 0 => (count - 1) * share < r.size
    BY <1>1, <2>4, <2>6, <2>7
  <2> DEFINE most == Max({share, r.minSize})
  <2>9. most = IF share >= r.minSize THEN share ELSE r.minSize
    BY <1>1, <2>6, MaxOfTwo
  <2>10. most \in Nat \ {0} /\ (count - 1) * most < r.size
    BY <1>1, <2>5, <2>6, <2>8, <2>9
  <2> HIDE DEF most
  <2>11. step = IF r.size <= most THEN r.size ELSE most
    BY <1>1, <2>10, MinOfTwo DEF most
  <2>12. (count - 1) * step <= (count - 1) * most
    <3>1. step \in Nat /\ step <= most
      BY <1>1, <2>10, <2>11
    <3> HIDE DEF step
    <3>2. step * (count - 1) <= most * (count - 1)
      BY <3>1, <2>4, <2>10, TimesMonotonic
    <3> QED
      BY <3>1, <3>2, <2>4, <2>10
  <2>13. step \in Nat \ {0} /\ step <= r.size
    BY <1>1, <2>10, <2>11
  <2> HIDE DEF step
  <2>14. (count - 1) * step < r.size
    <3>1. (count - 1) * step \in Int /\ (count - 1) * most \in Int
      BY <2>4, <2>10, <2>13
    <3> QED
      BY <1>1, <2>10, <2>12, <3>1
  <2> QED
    BY <2>4, <2>13, <2>14 DEF step, count, share
<1> QED
  BY <1>2, <1>3

\* The segments of a request: each but the last is one step long.
LEMMA SegmentsFacts ==
    ASSUME NEW r \in Requests
    PROVE  LET count == countSegments(r)
               segs == makeSegments(count, r.size, r.minSize)
           IN  /\ count \in Nat \ {0} /\ Len(segs) = count
               /\ segs \in Seq([fromByte : Nat, toByte : Nat])
               /\ segs[1].fromByte = 0 /\ segs[count].toByte = r.size
               /\ \A i \in 1..count : segs[i].fromByte < segs[i].toByte
               /\ \A i \in 2..count : segs[i].fromByte = segs[i - 1].toByte
<1> DEFINE count == countSegments(r)
           segs == makeSegments(count, r.size, r.minSize)
           step == Min({r.size, Max({r.size \div count, r.minSize})})
<1>1. /\ count \in Nat \ {0} /\ step \in Nat \ {0} /\ step <= r.size
      /\ (count - 1) * step < r.size
  BY StepFacts
<1>2. r.size \in Nat \ {0}
  BY P2PAssumption
<1>3. segs = [i \in 1..count |->
                [fromByte |-> Min({(i - 1) * step, r.size}),
                 toByte |-> IF i = count THEN r.size ELSE Min({i * step, r.size})]]
  BY DEF makeSegments
<1> HIDE DEF count, segs, step
<1>4. ASSUME NEW i \in 0..(count - 1)
      PROVE  i * step \in Nat /\ i * step < r.size /\ Min({i * step, r.size}) = i * step
  <2>1. i * step \in Nat /\ (count - 1) * step \in Nat
    BY <1>1
  <2>2. i * step <= (count - 1) * step
    BY <1>1, TimesMonotonic
  <2>3. i * step < r.size
    BY <1>1, <1>2, <2>1, <2>2
  <2> QED
    BY <1>2, <2>1, <2>3, MinOfTwo
<1>5. ASSUME NEW i \in 1..count
      PROVE  /\ segs[i] \in [fromByte : Nat, toByte : Nat]
             /\ segs[i].fromByte = (i - 1) * step
             /\ segs[i].toByte = IF i = count THEN r.size ELSE i * step
             /\ segs[i].fromByte < segs[i].toByte
  <2>1. i - 1 \in 0..(count - 1)
    BY <1>1
  <2> DEFINE from == (i - 1) * step
             to == IF i = count THEN r.size ELSE i * step
  <2>2. Min({(i - 1) * step, r.size}) = from /\ from \in Nat /\ from < r.size
    BY <1>4, <2>1
  <2>3. segs[i] = [fromByte |-> from, toByte |-> to] /\ to \in Nat /\ from < to
    <3>1. CASE i = count
      BY <1>2, <1>3, <2>2, <3>1
    <3>2. CASE i # count
      <4>1. i \in 0..(count - 1)
        BY <1>1, <3>2
      <4>2. Min({i * step, r.size}) = i * step /\ i * step \in Nat
        BY <1>4, <4>1
      <4>3. (i - 1) * step < i * step
        BY <1>1
      <4> QED
        BY <1>3, <2>2, <3>2, <4>2, <4>3
    <3> QED
      BY <3>1, <3>2
  <2> QED
    BY <2>2, <2>3
<1>6. segs \in Seq([fromByte : Nat, toByte : Nat]) /\ Len(segs) = count
  <2>1. \A i \in 1..count : segs[i] \in [fromByte : Nat, toByte : Nat]
    BY <1>5
  <2>2. segs = [i \in 1..count |-> segs[i]]
    BY <1>3
  <2>3. segs \in [1..count -> [fromByte : Nat, toByte : Nat]]
    BY <2>1, <2>2
  <2> QED
    BY <1>1, <2>3, SeqOfFunction, Zenon
<1>7. segs[1].fromByte = 0
  BY <1>1, <1>5
<1>8. segs[count].toByte = r.size
  BY <1>1, <1>5
<1>9. \A i \in 1..count : segs[i].fromByte < segs[i].toByte
  BY <1>5
<1>10. ASSUME NEW i \in 2..count
       PROVE  segs[i].fromByte = segs[i - 1].toByte
  <2>1. i \in 1..count /\ i - 1 \in 1..count /\ i - 1 # count
    BY <1>1
  <2>2. segs[i].fromByte = (i - 1) * step /\ segs[i - 1].toByte = (i - 1) * step
    BY <1>5, <2>1
  <2> QED
    BY <2>1, <2>2
<1> QED
  BY <1>1, <1>6, <1>7, <1>8, <1>9, <1>10 DEF segs, count

\* The threads that take part in a request have a server each; those of a
\* P2P_Graph have the same.
LEMMA ServersListFacts ==
    ASSUME NEW count \in Nat \ {0}, NEW hint \in Server
    PROVE  LET d == getServersList(count, hint)
           IN  /\ DOMAIN d \subseteq Thread
               /\ d \in [DOMAIN d -> Server]
               /\ IsGraph => \A t \in DOMAIN d : d[t] = hint
<1> DEFINE d == getServersList(count, hint)
<1>1. Connections \in Nat \ {0} /\ Len(Servers) \in Nat \ {0}
  BY P2PAssumption, ServerFacts
<1>2. CASE IsGraph
  <2> DEFINE m == Min({Connections, count})
  <2>1. m \in Nat /\ m <= Connections
    BY <1>1, MinOfTwo
  <2>2. d = [t \in 1..m |-> hint]
    BY <1>2 DEF getServersList
  <2>3. Thread = 1..Connections
    BY <1>2 DEF Thread
  <2> HIDE DEF m, d
  <2>4. DOMAIN d \subseteq Thread
    BY <1>1, <2>1, <2>2, <2>3
  <2> QED
    BY <2>2, <2>4 DEF d
<1>3. CASE ~IsGraph
  <2> DEFINE currConnections == Min({CeilDiv(count, Len(Servers)), Connections})
             D == {t \in Thread : (t - 1) % Connections < currConnections}
  <2>1. d = [t \in D |-> Servers[(t - 1) \div Connections + 1]]
    BY <1>3 DEF getServersList
  <2>2. Thread = 1..(Connections * Len(Servers))
    BY <1>3 DEF Thread
  <2> HIDE DEF currConnections
  <2>3. ASSUME NEW t \in D
        PROVE  Servers[(t - 1) \div Connections + 1] \in Server
    <3> DEFINE i == (t - 1) \div Connections
    <3>1. t \in Nat \ {0} /\ t <= Connections * Len(Servers)
      <4>1. Connections * Len(Servers) \in Nat
        BY <1>1
      <4> QED
        BY <2>2, <4>1
    <3>2. i \in Nat /\ i * Connections <= t - 1
      BY <1>1, <3>1
    <3> HIDE DEF i
    <3>3. i < Len(Servers)
      <4>1. SUFFICES ASSUME i >= Len(Servers) PROVE FALSE
        BY <1>1, <3>2
      <4>2. Len(Servers) * Connections <= i * Connections
        BY <1>1, <3>2, <4>1, TimesMonotonic
      <4>3. Len(Servers) * Connections = Connections * Len(Servers)
        BY <1>1
      <4>4. Len(Servers) * Connections \in Int /\ i * Connections \in Int
        BY <1>1, <3>2
      <4> QED
        BY <1>1, <3>1, <3>2, <4>2, <4>3, <4>4
    <3>4. i + 1 \in 1..Len(Servers)
      BY <1>1, <3>2, <3>3
    <3> QED
      BY <3>4, ServerFacts DEF i
  <2>4. D \subseteq Thread
    OBVIOUS
  <2> QED
    BY <1>3, <2>1, <2>3, <2>4
<1> QED
  BY <1>2, <1>3

(***************************************************************************)
(* What the steps do to the queue and to the elements in memory.           *)
(***************************************************************************)

CoreInv == P2PTypeOK /\ TaskInv /\ HoldInv

ElementServers == [servers : SUBSET Server, errorServers : SUBSET Server]

\* Collecting the elements that nobody refers to changes no other.
LEMMA CollectedFacts ==
    ASSUME elements' = Collected(elements, queue', pc'),
           elements \in [DOMAIN elements -> ElementServers]
    PROVE  /\ elements' \in [DOMAIN elements' -> ElementServers]
           /\ \A e \in DOMAIN elements' :
                e \in DOMAIN elements /\ elements'[e] = elements[e]
           /\ \A e : e \in DOMAIN elements' <=>
                /\ e \in DOMAIN elements
                /\ e \in ToSet(queue')
                    \/ \E t \in Thread : pc'[t] = "peeking" /\ element[t] = e
<1> DEFINE alive ==
            ToSet(queue')
                \cup {element[t] : t \in {u \in Thread : pc'[u] = "peeking"}}
           D == DOMAIN elements \cap alive
<1>1. elements' = [e \in D |-> elements[e]]
  BY DEF Collected
<1>2. \A e : e \in alive <=>
        (e \in ToSet(queue')
            \/ \E t \in Thread : pc'[t] = "peeking" /\ element[t] = e)
  OBVIOUS
<1> HIDE DEF alive
<1>3. DOMAIN elements' = D /\ \A e \in D : elements'[e] = elements[e]
  BY <1>1
<1>4. elements' \in [DOMAIN elements' -> ElementServers]
  BY <1>1, <1>3
<1> QED
  BY <1>2, <1>3, <1>4

\* An element is taken out of the queue.
LEMMA RemoveInternalFacts ==
    ASSUME P2PTypeOK, NEW t \in Thread, RemoveInternal(t), UNCHANGED element
    PROVE  /\ queue' \in Seq(DOMAIN elements') /\ IsInjective(queue')
           /\ ToSet(queue') = ToSet(queue) \ {element[t]}
           /\ elements' \in [DOMAIN elements' -> ElementServers]
           /\ \A e \in DOMAIN elements' :
                e \in DOMAIN elements /\ elements'[e] = elements[e]
           /\ \A e \in DOMAIN elements' :
                e \in ToSet(queue')
                    \/ \E u \in Thread : pc'[u] = "peeking" /\ element'[u] = e
           /\ pc' = [pc EXCEPT ![t] = "loop"]
           /\ erasedTwice' \in BOOLEAN
<1>1. /\ queue \in Seq(DOMAIN elements) /\ IsInjective(queue)
      /\ elements \in [DOMAIN elements -> ElementServers]
  BY DEF P2PTypeOK, QueueTypeOK, ElementServers
<1>2. /\ queue' = RemoveFirst(queue, element[t])
      /\ elements' = Collected(elements, queue', pc')
      /\ pc' = [pc EXCEPT ![t] = "loop"]
  BY DEF RemoveInternal
<1>3. /\ queue' \in Seq(DOMAIN elements) /\ IsInjective(queue')
      /\ ToSet(queue') = ToSet(queue) \ {element[t]}
  BY <1>1, <1>2, RemoveFirstInjective
<1>4. /\ elements' \in [DOMAIN elements' -> ElementServers]
      /\ \A e \in DOMAIN elements' : e \in DOMAIN elements /\ elements'[e] = elements[e]
      /\ \A e : e \in DOMAIN elements' <=>
            /\ e \in DOMAIN elements
            /\ e \in ToSet(queue')
                \/ \E u \in Thread : pc'[u] = "peeking" /\ element[u] = e
  BY <1>1, <1>2, CollectedFacts
<1>5. ToSet(queue') \subseteq DOMAIN elements
  BY <1>3 DEF ToSet
<1>6. ToSet(queue') \subseteq DOMAIN elements'
  BY <1>4, <1>5
<1>7. queue' \in Seq(DOMAIN elements')
  BY <1>3, <1>6, SeqOver
<1>8. erasedTwice' \in BOOLEAN
  BY Zenon DEF RemoveInternal
<1> QED
  BY <1>2, <1>3, <1>4, <1>7, <1>8

\* A thread takes an element, which moves to the front.
LEMMA GetElementFacts ==
    ASSUME P2PTypeOK, NEW t \in Thread, GetElement(t)
    PROVE  \E e \in ToSet(queue) :
            /\ e \in DOMAIN elements
            /\ mine[t].server \notin elements[e].servers
            /\ elements' = WithServer(e, mine[t].server)
            /\ element' = [element EXCEPT ![t] = e]
            /\ queue' \in Seq(DOMAIN elements) /\ IsInjective(queue')
            /\ ToSet(queue') = ToSet(queue)
            /\ pc' = [pc EXCEPT ![t] = "got"] /\ pc[t] = "getElement"
            /\ ~isStopped /\ mine[t].task = queueTask
<1>1. queue \in Seq(DOMAIN elements) /\ IsInjective(queue)
  BY DEF P2PTypeOK, QueueTypeOK
<1>2. Len(queue) \in Nat /\ DOMAIN queue = 1..Len(queue)
  BY <1>1
<1> DEFINE i == Max(Candidates(t))
           e == queue[i]
<1>3. Candidates(t) \subseteq 0..Len(queue) /\ Candidates(t) # {}
  <2>1. Candidates(t) \subseteq 0..Len(queue)
    BY <1>2 DEF Candidates
  <2> QED
    BY <2>1 DEF GetElement
<1>4. i \in Candidates(t)
  BY <1>2, <1>3, MaxOfSet, Zenon
<1>5. i \in 1..Len(queue) /\ mine[t].server \notin elements[e].servers
  BY <1>2, <1>4 DEF Candidates
<1>6. /\ elements' = WithServer(e, mine[t].server)
      /\ element' = [element EXCEPT ![t] = e]
      /\ queue' = <<queue[i]>> \o RemoveAt(queue, i)
      /\ pc' = [pc EXCEPT ![t] = "got"] /\ pc[t] = "getElement"
      /\ ~isStopped /\ mine[t].task = queueTask
  BY DEF GetElement, Spliced, Goes, Closed
<1> HIDE DEF i
<1>7. e \in DOMAIN elements /\ e \in ToSet(queue)
  BY <1>1, <1>2, <1>5 DEF ToSet
<1>8. /\ queue' \in Seq(DOMAIN elements) /\ IsInjective(queue')
      /\ ToSet(queue') = ToSet(queue)
  BY <1>1, <1>5, <1>6, MoveToFront
<1> QED
  BY <1>5, <1>6, <1>7, <1>8

\* The caller puts a segment that was never in memory into the queue.
LEMMA AddElementFacts ==
    ASSUME CoreInv, AddElement
    PROVE  LET e == [task |-> taskId, pos |-> added + 1]
           IN  /\ e \in Element /\ e \notin DOMAIN elements
               /\ \A t \in Thread : element[t] # e
               /\ queue' \in Seq(DOMAIN elements') /\ IsInjective(queue')
               /\ ToSet(queue') = ToSet(queue) \cup {e}
               /\ DOMAIN elements' = DOMAIN elements \cup {e}
               /\ elements'[e] = [servers |-> {}, errorServers |-> {}]
               /\ \A x \in DOMAIN elements : elements'[x] = elements[x]
               /\ added' = added + 1 /\ added < Len(segments)
               /\ taskId = queueTask /\ callerPc = "newTasks"
<1> DEFINE e == [task |-> taskId, pos |-> added + 1]
<1>1. /\ queue \in Seq(DOMAIN elements) /\ IsInjective(queue)
      /\ added \in Nat /\ taskId \in Nat \ {0}
      /\ element \in [Thread -> Element \cup {NoElement}]
      /\ queueTask \in 0..MaxTasks /\ MaxTasks \in Nat
  BY P2PAssumption DEF CoreInv, P2PTypeOK, QueueTypeOK, CallerTypeOK, ThreadTypeOK
<1>2. callerPc = "newTasks" /\ taskId = queueTask
  BY DEF CoreInv, TaskInv, AddElement
<1>3. e \in Element
  BY <1>1, <1>2 DEF Element
<1>4. e \notin ToSet(queue)
  <2>1. \A x \in ToSet(queue) : x.pos <= added
    BY DEF CoreInv, HoldInv
  <2> QED
    BY <1>1, <2>1
<1>5. \A t \in Thread : element[t] # e
  <2>1. \A t \in Thread : element[t].task = queueTask => element[t].pos <= added
    BY DEF CoreInv, HoldInv, Holds
  <2> QED
    BY <1>1, <1>2, <2>1
<1>6. e \notin DOMAIN elements
  BY <1>4, <1>5 DEF CoreInv, HoldInv, Alive
<1>7. /\ added' = added + 1 /\ added < Len(segments)
      /\ queue' = Append(queue, e)
      /\ elements' = [x \in DOMAIN elements \cup {e} |->
            IF x = e THEN [servers |-> {}, errorServers |-> {}] ELSE elements[x]]
  BY DEF AddElement
<1> HIDE DEF e
<1>8. /\ DOMAIN elements' = DOMAIN elements \cup {e}
      /\ elements'[e] = [servers |-> {}, errorServers |-> {}]
      /\ \A x \in DOMAIN elements : elements'[x] = elements[x]
  BY <1>6, <1>7
<1>9. /\ queue' \in Seq(DOMAIN elements') /\ IsInjective(queue')
      /\ ToSet(queue') = ToSet(queue) \cup {e}
  BY <1>1, <1>4, <1>7, <1>8, AppendNew
<1> QED
  BY <1>2, <1>3, <1>5, <1>6, <1>7, <1>8, <1>9 DEF e

\* The steps of a thread that only move it.
PcMove(t, to) ==
    /\ pc' = [pc EXCEPT ![t] = to]
    /\ to \in ThreadPc \ {"remove", "removeError"}
    /\ pc[t] # "peeking"
    /\ to \in Busy => pc[t] \in Busy
    /\ to \in {"making", "responding"} => ~IsDestroyed(t)
    /\ UNCHANGED <<queueVars, callerVars, told, mine, element>>

LEMMA PcMoves ==
    ASSUME NEW t \in Thread,
           \/ GetClosed(t) \/ Unpark(t) \/ PeekLock(t) \/ MakeBegin(t)
           \/ MakeEnd(t) \/ RequestFails(t) \/ RespondBegin(t) \/ RespondFails(t)
    PROVE  \E to : PcMove(t, to)
<1> USE DEF Goes, PcMove, Busy, ThreadPc
<1>1. CASE GetClosed(t)
  BY <1>1 DEF GetClosed
<1>2. CASE Unpark(t)
  BY <1>2 DEF Unpark
<1>3. CASE PeekLock(t)
  BY <1>3 DEF PeekLock
<1>4. CASE MakeBegin(t)
  BY <1>4 DEF MakeBegin
<1>5. CASE MakeEnd(t)
  BY <1>5 DEF MakeEnd
<1>6. CASE RequestFails(t)
  BY <1>6 DEF RequestFails
<1>7. CASE RespondBegin(t)
  BY <1>7 DEF RespondBegin
<1>8. CASE RespondFails(t)
  BY <1>8 DEF RespondFails
<1> QED
  BY <1>1, <1>2, <1>3, <1>4, <1>5, <1>6, <1>7, <1>8

(***************************************************************************)
(* The types.                                                              *)
(***************************************************************************)

LEMMA TypeInit == P2PInit => P2PTypeOK
<1> SUFFICES ASSUME P2PInit PROVE P2PTypeOK
  OBVIOUS
<1>1. QueueTypeOK
  <2>1. /\ queue \in Seq(DOMAIN elements) /\ IsInjective(queue)
        /\ \A e \in ToSet(queue) : e.task = queueTask
    BY DEF P2PInit, IsInjective, ToSet
  <2>2. /\ DOMAIN elements \subseteq Element
        /\ elements \in [DOMAIN elements ->
                            [servers : SUBSET Server, errorServers : SUBSET Server]]
    BY DEF P2PInit
  <2>3. isStopped \in BOOLEAN /\ isError \in BOOLEAN /\ erasedTwice \in BOOLEAN
    BY Zenon DEF P2PInit
  <2>4. queueTask \in 0..MaxTasks
    BY P2PAssumption DEF P2PInit
  <2> QED
    BY <2>1, <2>2, <2>3, <2>4 DEF QueueTypeOK
<1>2. CallerTypeOK
  <2>1. segments \in Seq([fromByte : Nat, toByte : Nat]) /\ Len(segments) = 0
    BY DEF P2PInit
  <2>2. /\ DOMAIN distribution \subseteq Thread
        /\ distribution \in [DOMAIN distribution -> Server]
    BY DEF P2PInit
  <2>3. answers \in [1..Len(segments) -> Server \cup {NoServer}]
    BY <2>1 DEF P2PInit
  <2> QED
    BY <2>1, <2>2, <2>3, P2PAssumption DEF P2PInit, CallerTypeOK
<1>3. ThreadTypeOK
  BY DEF P2PInit, ThreadTypeOK, ThreadPc, TaskInfo
<1> QED
  BY <1>1, <1>2, <1>3 DEF P2PTypeOK

\* The steps of the caller.
LEMMA CallerTypes ==
    ASSUME CoreInv, Caller
    PROVE  P2PTypeOK'
<1>0. /\ QueueTypeOK /\ CallerTypeOK /\ ThreadTypeOK /\ TaskInv
      /\ MaxTasks \in Nat
  BY P2PAssumption DEF CoreInv, P2PTypeOK
<1>1. ASSUME NEW r \in Requests, NEW hint \in Server, Process(r, hint)
      PROVE  P2PTypeOK'
  <2> DEFINE segs == makeSegments(countSegments(r), r.size, r.minSize)
  <2>1. /\ segments' = segs /\ distribution' = getServersList(Len(segs), hint)
        /\ answers' = [i \in DOMAIN segs |-> NoServer]
        /\ added' = 0 /\ result' = "none" /\ taskId <= MaxTasks
        /\ isStopped' = FALSE /\ isError' = FALSE /\ queueTask' = taskId
        /\ callerPc = "idle" /\ callerPc' = "newTasks"
        /\ UNCHANGED <<queue, elements, erasedTwice, taskId, destroyed, threadVars>>
    BY <1>1 DEF Process
  <2>2. /\ segs \in Seq([fromByte : Nat, toByte : Nat])
        /\ Len(segs) \in Nat \ {0} /\ DOMAIN segs = 1..Len(segs)
    BY SegmentsFacts
  <2> HIDE DEF segs
  <2>3. /\ DOMAIN distribution' \subseteq Thread
        /\ distribution' \in [DOMAIN distribution' -> Server]
    BY <2>1, <2>2, ServersListFacts
  <2>4. CallerTypeOK'
    <3>1. segments' \in Seq([fromByte : Nat, toByte : Nat])
      BY <2>1, <2>2
    <3>2. added' \in 0..Len(segments')
      BY <2>1, <2>2
    <3>3. answers' \in [1..Len(segments') -> Server \cup {NoServer}]
      BY <2>1, <2>2
    <3>4. taskId' \in 1..(MaxTasks + 1) /\ destroyed' \in 0..MaxTasks
      BY <1>0, <2>1 DEF CallerTypeOK
    <3> QED
      BY <2>1, <2>3, <3>1, <3>2, <3>3, <3>4 DEF CallerTypeOK
  <2>5. QueueTypeOK'
    <3>1. ToSet(queue) = {}
      BY <1>0, <2>1 DEF TaskInv, ToSet
    <3>2. taskId \in 0..MaxTasks
      BY <1>0, <2>1 DEF CallerTypeOK
    <3> QED
      BY <1>0, <2>1, <3>1, <3>2 DEF QueueTypeOK
  <2>6. ThreadTypeOK'
    BY <1>0, <2>1 DEF ThreadTypeOK, threadVars
  <2> QED
    BY <2>4, <2>5, <2>6 DEF P2PTypeOK
<1>2. CASE NewTask
  <2> DEFINE t == Min(NotTold)
             x == [task |-> taskId, server |-> distribution[t],
                   countUniqueServers |-> countUnique(distribution)]
  <2>1. NotTold \subseteq Nat /\ NotTold # {} /\ NotTold \subseteq Thread
    BY <1>0, <1>2, ThreadFacts DEF NotTold, NewTask, CallerTypeOK
  <2>2. t \in NotTold
    BY <2>1, MinOfSet, Zenon
  <2>3. /\ told' = [told EXCEPT ![t] = x]
        /\ pc' = [pc EXCEPT ![t] = IF @ = "unborn" THEN "loop" ELSE @]
        /\ UNCHANGED <<queueVars, callerVars, mine, element>>
    BY <1>2 DEF NewTask
  <2>4. t \in Thread /\ distribution[t] \in Server
    BY <1>0, <2>1, <2>2 DEF NotTold, CallerTypeOK
  <2>5. countUnique(distribution) \in 1..Len(Servers)
    <3>1. Range(distribution) \subseteq Server /\ distribution[t] \in Range(distribution)
      BY <1>0, <2>2 DEF CallerTypeOK, Range, NotTold
    <3>2. /\ IsFiniteSet(Range(distribution))
          /\ Cardinality(Range(distribution)) <= Cardinality(Server)
      BY <3>1, ServerFacts, FS_Subset
    <3>3. /\ Cardinality(Range(distribution)) \in Nat
          /\ Cardinality(Range(distribution)) # 0
      BY <3>1, <3>2, FS_CardinalityType, FS_EmptySet
    <3> QED
      BY <3>2, <3>3, ServerFacts DEF countUnique
  <2>6. taskId \in 1..MaxTasks
    BY <1>0, <1>2 DEF NewTask, TaskInv, QueueTypeOK, CallerTypeOK
  <2>7. x \in TaskInfo
    BY <2>4, <2>5, <2>6 DEF TaskInfo
  <2> HIDE DEF x, t
  <2>8. told' \in [Thread -> TaskInfo]
    BY <1>0, <2>3, <2>4, <2>7 DEF ThreadTypeOK
  <2>9. pc' \in [Thread -> ThreadPc]
    BY <1>0, <2>3, <2>4 DEF ThreadTypeOK, ThreadPc
  <2>10. ThreadTypeOK'
    BY <1>0, <2>3, <2>8, <2>9 DEF ThreadTypeOK
  <2>11. QueueTypeOK' /\ CallerTypeOK'
    BY <1>0, <2>3 DEF QueueTypeOK, CallerTypeOK, queueVars, callerVars
  <2> QED
    BY <2>10, <2>11 DEF P2PTypeOK
<1>3. CASE AddElement
  <2> DEFINE e == [task |-> taskId, pos |-> added + 1]
  <2>1. /\ e \in Element /\ e \notin DOMAIN elements
        /\ queue' \in Seq(DOMAIN elements') /\ IsInjective(queue')
        /\ ToSet(queue') = ToSet(queue) \cup {e}
        /\ DOMAIN elements' = DOMAIN elements \cup {e}
        /\ elements'[e] = [servers |-> {}, errorServers |-> {}]
        /\ \A x \in DOMAIN elements : elements'[x] = elements[x]
        /\ added' = added + 1 /\ added < Len(segments)
        /\ taskId = queueTask
    BY <1>3, AddElementFacts
  <2>2. UNCHANGED <<isStopped, isError, queueTask, erasedTwice, taskId, callerPc,
                    segments, distribution, answers, result, destroyed, threadVars>>
    BY <1>3 DEF AddElement
  <2>3. e.task = queueTask
    BY <2>1
  <2> HIDE DEF e
  <2>4. elements' \in [DOMAIN elements' ->
                        [servers : SUBSET Server, errorServers : SUBSET Server]]
    <3>1. elements' = [x \in DOMAIN elements' |-> elements'[x]]
      BY <1>3 DEF AddElement
    <3>2. \A x \in DOMAIN elements' :
            elements'[x] \in [servers : SUBSET Server, errorServers : SUBSET Server]
      BY <1>0, <2>1 DEF QueueTypeOK
    <3> QED
      BY <3>1, <3>2
  <2>5. QueueTypeOK'
    BY <1>0, <2>1, <2>2, <2>3, <2>4 DEF QueueTypeOK
  <2>6. CallerTypeOK'
    BY <1>0, <2>1, <2>2 DEF CallerTypeOK
  <2>7. ThreadTypeOK'
    BY <1>0, <2>2 DEF ThreadTypeOK, threadVars
  <2> QED
    BY <2>5, <2>6, <2>7 DEF P2PTypeOK
<1>4. CASE WaitEmpty \/ ReadError \/ Destroy
  <2>1. /\ UNCHANGED <<queueVars, taskId, segments, distribution, added, answers,
                       threadVars>>
        /\ result' \in {"none", "ok", "error"}
        /\ callerPc' \in {"idle", "newTasks", "error", "destroy", "stop"}
        /\ destroyed' = destroyed \/ (destroyed' = taskId /\ taskId = queueTask)
    BY <1>0, <1>4 DEF WaitEmpty, ReadError, Destroy, CallerTypeOK, TaskInv
  <2>2. destroyed' \in 0..MaxTasks
    BY <1>0, <2>1 DEF CallerTypeOK, QueueTypeOK
  <2> QED
    BY <1>0, <2>1, <2>2 DEF P2PTypeOK, QueueTypeOK, CallerTypeOK, ThreadTypeOK,
        queueVars, threadVars
<1>5. CASE Stop
  <2>1. /\ isStopped' = TRUE /\ isError' = FALSE /\ taskId' = taskId + 1
        /\ callerPc' = "idle" /\ taskId = queueTask
        /\ UNCHANGED <<queue, elements, queueTask, erasedTwice, segments,
                       distribution, added, answers, result, destroyed, threadVars>>
    BY <1>0, <1>5 DEF Stop, TaskInv
  <2>2. taskId' \in 1..(MaxTasks + 1)
    BY <1>0, <2>1 DEF CallerTypeOK, QueueTypeOK
  <2> QED
    BY <1>0, <2>1, <2>2 DEF P2PTypeOK, QueueTypeOK, CallerTypeOK, ThreadTypeOK,
        threadVars
<1>6. CASE NoMoreTasks
  BY <1>0, <1>6 DEF NoMoreTasks, vars, P2PTypeOK, QueueTypeOK, CallerTypeOK,
    ThreadTypeOK, queueVars, callerVars, threadVars
<1> QED
  BY <1>1, <1>2, <1>3, <1>4, <1>5, <1>6 DEF Caller

\* The steps of a thread.
LEMMA ThreadTypes ==
    ASSUME CoreInv, NEW t \in Thread, Work(t)
    PROVE  P2PTypeOK'
<1>0. QueueTypeOK /\ CallerTypeOK /\ ThreadTypeOK /\ P2PTypeOK
  BY DEF CoreInv, P2PTypeOK
<1>1. ASSUME NEW to, PcMove(t, to)
      PROVE  P2PTypeOK'
  <2>1. pc' \in [Thread -> ThreadPc]
    BY <1>0, <1>1 DEF PcMove, ThreadTypeOK
  <2> QED
    BY <1>0, <1>1, <2>1 DEF PcMove, P2PTypeOK, QueueTypeOK, CallerTypeOK,
        ThreadTypeOK, queueVars, callerVars
<1>2. CASE Copy(t)
  <2>1. /\ pc' = [pc EXCEPT ![t] = "getElement"]
        /\ mine' = [mine EXCEPT ![t] = told[t]]
        /\ element' = [element EXCEPT ![t] = NoElement]
        /\ UNCHANGED <<queueVars, callerVars, told>>
    BY <1>2 DEF Copy, Goes
  <2>2. ThreadTypeOK'
    BY <1>0, <2>1 DEF ThreadTypeOK, ThreadPc
  <2> QED
    BY <1>0, <2>1, <2>2 DEF P2PTypeOK, QueueTypeOK, CallerTypeOK, queueVars,
        callerVars
<1>3. CASE GetElement(t)
  <2>1. PICK e \in ToSet(queue) :
            /\ e \in DOMAIN elements
            /\ elements' = WithServer(e, mine[t].server)
            /\ element' = [element EXCEPT ![t] = e]
            /\ queue' \in Seq(DOMAIN elements) /\ IsInjective(queue')
            /\ ToSet(queue') = ToSet(queue)
            /\ pc' = [pc EXCEPT ![t] = "got"]
            /\ ~isStopped /\ mine[t].task = queueTask
    BY <1>0, <1>3, GetElementFacts
  <2>2. UNCHANGED <<isStopped, isError, queueTask, erasedTwice, callerVars, told,
                    mine>>
    BY <1>3 DEF GetElement
  <2>3. mine[t].server \in Server
    <3>1. queueTask # 0
      BY <1>0, <2>1 DEF CoreInv, TaskInv, CallerTypeOK
    <3> QED
      BY <1>0, <2>1, <3>1 DEF ThreadTypeOK, TaskInfo, NoTask
  <2>4. /\ DOMAIN elements' = DOMAIN elements
        /\ elements' \in [DOMAIN elements ->
                [servers : SUBSET Server, errorServers : SUBSET Server]]
    BY <1>0, <2>1, <2>3 DEF WithServer, QueueTypeOK
  <2>5. QueueTypeOK'
    BY <1>0, <2>1, <2>2, <2>4 DEF QueueTypeOK
  <2>6. e \in Element
    BY <1>0, <2>1 DEF QueueTypeOK
  <2>7. ThreadTypeOK'
    BY <1>0, <2>1, <2>2, <2>6 DEF ThreadTypeOK, ThreadPc
  <2> QED
    BY <1>0, <2>2, <2>5, <2>7 DEF P2PTypeOK, CallerTypeOK, callerVars
<1>4. CASE PeekDone(t)
  <2>1. /\ pc' = [pc EXCEPT ![t] = "make"]
        /\ elements' = Collected(elements, queue', pc')
        /\ UNCHANGED <<queue, isStopped, isError, queueTask, erasedTwice, callerVars,
                       told, mine, element>>
    BY <1>4 DEF PeekDone, Goes
  <2>2. /\ elements' \in [DOMAIN elements' -> ElementServers]
        /\ \A e \in DOMAIN elements' : e \in DOMAIN elements
        /\ \A e : e \in DOMAIN elements' <=>
            /\ e \in DOMAIN elements
            /\ e \in ToSet(queue')
                \/ \E u \in Thread : pc'[u] = "peeking" /\ element[u] = e
    BY <1>0, <2>1, CollectedFacts DEF QueueTypeOK, ElementServers
  <2>3. ToSet(queue) \subseteq DOMAIN elements
    BY <1>0 DEF QueueTypeOK, ToSet
  <2>4. queue' \in Seq(DOMAIN elements')
    <3>1. ToSet(queue) \subseteq DOMAIN elements'
      BY <2>1, <2>2, <2>3
    <3> QED
      BY <1>0, <2>1, <3>1, SeqOver DEF QueueTypeOK
  <2>5. QueueTypeOK'
    BY <1>0, <2>1, <2>2, <2>4 DEF QueueTypeOK, ElementServers
  <2>6. ThreadTypeOK'
    BY <1>0, <2>1 DEF ThreadTypeOK, ThreadPc
  <2> QED
    BY <1>0, <2>1, <2>5, <2>6 DEF P2PTypeOK, CallerTypeOK, callerVars
<1>5. CASE RespondEnd(t)
  <2>1. /\ pc' = [pc EXCEPT ![t] = "remove"] /\ pc[t] = "responding"
        /\ answers' = [answers EXCEPT ![element[t].pos] =
                IF @ = NoServer THEN mine[t].server ELSE @]
        /\ UNCHANGED <<queueVars, taskId, callerPc, segments, distribution, added,
                       result, destroyed, told, mine, element>>
    BY <1>5 DEF RespondEnd, Goes
  <2>2. mine[t].server \in Server
    <3>1. mine[t].task = taskId /\ taskId # 0
      BY <1>0, <2>1 DEF CoreInv, TaskInv, CallerTypeOK
    <3> QED
      BY <1>0, <3>1 DEF ThreadTypeOK, TaskInfo, NoTask
  <2>3. answers' \in [1..Len(segments) -> Server \cup {NoServer}]
    BY <1>0, <2>1, <2>2 DEF CallerTypeOK
  <2>4. CallerTypeOK'
    BY <1>0, <2>1, <2>3 DEF CallerTypeOK
  <2>5. ThreadTypeOK'
    BY <1>0, <2>1 DEF ThreadTypeOK, ThreadPc
  <2> QED
    BY <1>0, <2>1, <2>4, <2>5 DEF P2PTypeOK, QueueTypeOK, queueVars
<1>6. CASE RemoveElement(t) \/ RemoveElementError(t)
  <2>1. /\ RemoveInternal(t)
        /\ isError' \in BOOLEAN
        /\ UNCHANGED <<isStopped, queueTask, callerVars, told, mine, element>>
    BY <1>0, <1>6, Zenon DEF RemoveElement, RemoveElementError, QueueTypeOK
  <2>2. /\ queue' \in Seq(DOMAIN elements') /\ IsInjective(queue')
        /\ ToSet(queue') = ToSet(queue) \ {element[t]}
        /\ elements' \in [DOMAIN elements' -> ElementServers]
        /\ \A e \in DOMAIN elements' : e \in DOMAIN elements
        /\ pc' = [pc EXCEPT ![t] = "loop"]
        /\ erasedTwice' \in BOOLEAN
    BY <1>0, <2>1, RemoveInternalFacts
  <2>3. QueueTypeOK'
    BY <1>0, <2>1, <2>2 DEF QueueTypeOK, ElementServers
  <2>4. ThreadTypeOK'
    BY <1>0, <2>1, <2>2 DEF ThreadTypeOK, ThreadPc
  <2> QED
    BY <1>0, <2>1, <2>3, <2>4 DEF P2PTypeOK, CallerTypeOK, callerVars
<1>7. CASE ErrorElement(t)
  <2>1. /\ elements' = IF element[t] \in DOMAIN elements
                       THEN WithError(element[t], mine[t].server) ELSE elements
        /\ UNCHANGED <<queue, isStopped, isError, queueTask, erasedTwice, callerVars,
                       told, mine, element>>
        /\ pc' \in {[pc EXCEPT ![t] = "removeError"], [pc EXCEPT ![t] = "loop"]}
    BY <1>7 DEF ErrorElement, Goes, Locked
  <2>2. ThreadTypeOK'
    BY <1>0, <2>1 DEF ThreadTypeOK, ThreadPc
  <2>3. /\ DOMAIN elements' = DOMAIN elements
        /\ elements' \in [DOMAIN elements ->
                [servers : SUBSET Server, errorServers : SUBSET Server]]
    <3>1. CASE element[t] \notin DOMAIN elements
      BY <1>0, <2>1, <3>1 DEF QueueTypeOK
    <3>2. CASE element[t] \in DOMAIN elements
      <4>1. mine[t].server \in elements[element[t]].servers
        BY <3>2 DEF CoreInv, HoldInv, Holds
      <4>2. mine[t].server \in Server
        BY <1>0, <3>2, <4>1 DEF QueueTypeOK
      <4> QED
        BY <1>0, <2>1, <3>2, <4>2 DEF QueueTypeOK, WithError
    <3> QED
      BY <3>1, <3>2
  <2>4. QueueTypeOK'
    BY <1>0, <2>1, <2>3 DEF QueueTypeOK
  <2> QED
    BY <1>0, <2>1, <2>2, <2>4 DEF P2PTypeOK, CallerTypeOK, callerVars
<1> QED
  BY <1>1, <1>2, <1>3, <1>4, <1>5, <1>6, <1>7, PcMoves DEF Work

LEMMA P2PNextTypes ==
    ASSUME CoreInv, [P2PNext]_vars
    PROVE  P2PTypeOK'
<1>1. CASE UNCHANGED vars
  BY <1>1 DEF CoreInv, vars, P2PTypeOK, QueueTypeOK, CallerTypeOK, ThreadTypeOK,
    queueVars, callerVars, threadVars
<1> QED
  BY <1>1, CallerTypes, ThreadTypes DEF P2PNext

(***************************************************************************)
(* The tasks.                                                              *)
(***************************************************************************)

LEMMA TaskInit == P2PInit => TaskInv
BY DEF P2PInit, TaskInv, NoTask

LEMMA TaskStep ==
    ASSUME CoreInv, [P2PNext]_vars
    PROVE  TaskInv'
<1>0. /\ QueueTypeOK /\ CallerTypeOK /\ ThreadTypeOK /\ P2PTypeOK /\ TaskInv
      /\ MaxTasks \in Nat
  BY P2PAssumption DEF CoreInv, P2PTypeOK
<1>a. \A t \in Thread : mine[t].task \in Nat /\ told[t].task \in Nat
  BY <1>0 DEF ThreadTypeOK, TaskInfo, NoTask
<1>b. taskId \in Nat \ {0} /\ queueTask \in Nat /\ destroyed \in Nat
  BY <1>0 DEF CallerTypeOK, QueueTypeOK
<1>1. CASE UNCHANGED vars \/ NoMoreTasks
  BY <1>0, <1>1 DEF TaskInv, NoMoreTasks, vars, queueVars, callerVars, threadVars
<1>2. ASSUME NEW r \in Requests, NEW hint \in Server, Process(r, hint)
      PROVE  TaskInv'
  <2>1. /\ isStopped' = FALSE /\ queueTask' = taskId /\ queueTask = taskId - 1
        /\ callerPc = "idle" /\ callerPc' = "newTasks"
        /\ UNCHANGED <<taskId, destroyed, told, pc, mine>>
    BY <1>0, <1>2 DEF Process, threadVars, TaskInv
  <2> QED
    BY <1>0, <1>a, <1>b, <2>1 DEF TaskInv
<1>3. CASE NewTask
  <2> DEFINE t == Min(NotTold)
             x == [task |-> taskId, server |-> distribution[t],
                   countUniqueServers |-> countUnique(distribution)]
  <2>1. /\ told' = [told EXCEPT ![t] = x]
        /\ pc' = [pc EXCEPT ![t] = IF @ = "unborn" THEN "loop" ELSE @]
        /\ taskId > told[t].task /\ queueTask = taskId
        /\ UNCHANGED <<queueVars, callerVars, mine, element>>
    BY <1>3 DEF NewTask
  <2>2. x.task = taskId
    OBVIOUS
  <2> HIDE DEF t, x
  <2>3. \A u \in Thread : told'[u] = IF u = t THEN x ELSE told[u]
    BY <1>0, <2>1 DEF ThreadTypeOK
  <2>4. \A u \in Thread : pc'[u] \in {"making", "responding"} => pc'[u] = pc[u]
    BY <1>0, <2>1 DEF ThreadTypeOK
  <2>5. \A u \in Thread : mine[u].task <= told'[u].task /\ told'[u].task <= queueTask
    BY <1>0, <1>a, <1>b, <2>1, <2>2, <2>3 DEF TaskInv
  <2> QED
    BY <1>0, <2>1, <2>4, <2>5 DEF TaskInv, queueVars, callerVars
<1>4. CASE AddElement
  <2>1. /\ callerPc = "newTasks"
        /\ UNCHANGED <<isStopped, queueTask, taskId, callerPc, destroyed, told, pc, mine>>
    BY <1>4 DEF AddElement, threadVars
  <2> QED
    BY <1>0, <2>1 DEF TaskInv
<1>5. CASE WaitEmpty \/ ReadError \/ Destroy
  <2>1. /\ callerPc \in {"newTasks", "error", "destroy"}
        /\ callerPc' \in {"error", "destroy", "stop"}
        /\ destroyed' = IF callerPc' = "stop" THEN taskId ELSE destroyed
        /\ UNCHANGED <<queue, isStopped, queueTask, taskId, told, pc, mine>>
    BY <1>5 DEF WaitEmpty, ReadError, Destroy, threadVars, queueVars
  <2>2. queue = <<>>
    BY <1>0, <1>5 DEF WaitEmpty, ReadError, Destroy, QueueDrained, TaskInv
  <2>3. callerPc' = "stop" =>
            \A t \in Thread : pc[t] \in {"making", "responding"} => mine[t].task # taskId
    BY <1>5 DEF WaitEmpty, ReadError, Destroy, Destroyable
  <2> QED
    BY <1>0, <2>1, <2>2, <2>3 DEF TaskInv
<1>6. CASE Stop
  <2>1. /\ callerPc = "stop" /\ callerPc' = "idle" /\ isStopped' = TRUE
        /\ taskId' = taskId + 1
        /\ UNCHANGED <<queue, queueTask, destroyed, told, pc, mine>>
    BY <1>6 DEF Stop, threadVars
  <2> QED
    BY <1>0, <1>b, <2>1 DEF TaskInv
<1>7. ASSUME NEW t \in Thread, NEW to, PcMove(t, to)
      PROVE  TaskInv'
  <2>1. /\ pc' = [pc EXCEPT ![t] = to]
        /\ to \in {"making", "responding"} => mine[t].task > destroyed
        /\ UNCHANGED <<queue, isStopped, queueTask, taskId, callerPc, destroyed,
                       told, mine>>
    BY <1>7, <1>a, <1>b DEF PcMove, IsDestroyed, queueVars, callerVars
  <2>2. to \in {"making", "responding"} =>
            mine[t].task = taskId /\ callerPc \notin {"idle", "stop"}
    BY <1>0, <1>a, <1>b, <2>1 DEF TaskInv
  <2>3. \A u \in Thread : pc'[u] = IF u = t THEN to ELSE pc[u]
    BY <1>0, <2>1 DEF ThreadTypeOK
  <2> QED
    BY <1>0, <2>1, <2>2, <2>3 DEF TaskInv
<1>8. ASSUME NEW t \in Thread, Copy(t)
      PROVE  TaskInv'
  <2>1. /\ pc' = [pc EXCEPT ![t] = "getElement"]
        /\ mine' = [mine EXCEPT ![t] = told[t]]
        /\ UNCHANGED <<queue, isStopped, queueTask, taskId, callerPc, destroyed, told>>
    BY <1>8 DEF Copy, Goes, queueVars, callerVars
  <2>2. \A u \in Thread : /\ pc'[u] = IF u = t THEN "getElement" ELSE pc[u]
                          /\ mine'[u] = IF u = t THEN told[u] ELSE mine[u]
    BY <1>0, <2>1 DEF ThreadTypeOK
  <2> QED
    BY <1>0, <1>a, <2>1, <2>2 DEF TaskInv
<1>9. ASSUME NEW t \in Thread,
             \/ GetElement(t) \/ PeekDone(t) \/ RespondEnd(t) \/ RemoveElement(t)
             \/ ErrorElement(t) \/ RemoveElementError(t)
      PROVE  TaskInv'
  <2>1. /\ \E to \in ThreadPc \ {"making", "responding"} : pc' = [pc EXCEPT ![t] = to]
        /\ UNCHANGED <<isStopped, queueTask, taskId, callerPc, destroyed, told, mine>>
    <3>1. CASE GetElement(t)
      BY <3>1 DEF GetElement, Goes, callerVars, ThreadPc
    <3>2. CASE PeekDone(t)
      BY <3>2 DEF PeekDone, Goes, callerVars, ThreadPc
    <3>3. CASE RespondEnd(t)
      BY <3>3 DEF RespondEnd, Goes, queueVars, ThreadPc
    <3>4. CASE RemoveElement(t) \/ RemoveElementError(t)
      BY <3>4 DEF RemoveElement, RemoveElementError, RemoveInternal, callerVars, ThreadPc
    <3>5. CASE ErrorElement(t)
      BY <3>5 DEF ErrorElement, Goes, callerVars, ThreadPc
    <3> QED
      BY <1>9, <3>1, <3>2, <3>3, <3>4, <3>5
  <2>2. \A u \in Thread : pc'[u] \in {"making", "responding"} => pc'[u] = pc[u]
    BY <1>0, <2>1 DEF ThreadTypeOK
  <2>3. ASSUME callerPc # "newTasks"
        PROVE  queue' = <<>>
    <3>1. queue = <<>> /\ ToSet(queue) = {}
      BY <1>0, <2>3 DEF TaskInv, ToSet
    <3>2. ToSet(queue') = {}
      <4>1. CASE GetElement(t)
        BY <1>0, <3>1, <4>1, GetElementFacts
      <4>2. CASE PeekDone(t) \/ RespondEnd(t) \/ ErrorElement(t)
        BY <3>1, <4>2 DEF PeekDone, RespondEnd, ErrorElement, queueVars
      <4>3. CASE RemoveElement(t) \/ RemoveElementError(t)
        BY <1>0, <3>1, <4>3, RemoveInternalFacts DEF RemoveElement, RemoveElementError
      <4> QED
        BY <1>9, <4>1, <4>2, <4>3
    <3>3. queue' \in Seq(DOMAIN elements')
      BY <1>9, ThreadTypes DEF Work, P2PTypeOK, QueueTypeOK
    <3> QED
      BY <3>2, <3>3, EmptyToSet, Zenon
  <2> QED
    BY <1>0, <2>1, <2>2, <2>3 DEF TaskInv
<1> QED
  BY <1>1, <1>2, <1>3, <1>4, <1>5, <1>6, <1>7, <1>8, <1>9, PcMoves
    DEF P2PNext, Caller, Work

(***************************************************************************)
(* The elements and their threads.                                         *)
(***************************************************************************)

LEMMA HoldInit == P2PInit => HoldInv
<1> SUFFICES ASSUME P2PInit PROVE HoldInv
  OBVIOUS
<1>1. ToSet(queue) = {} /\ DOMAIN elements = {}
  BY DEF P2PInit, ToSet
<1>2. \A t \in Thread : element[t] = NoElement /\ pc[t] = "unborn"
  BY DEF P2PInit
<1>3. added = 0
  BY DEF P2PInit
<1> QED
  BY <1>1, <1>2, <1>3 DEF HoldInv, Alive, Holds, ServerAskedOnce, NoElement, Taken,
    Busy

LEMMA HoldStep ==
    ASSUME CoreInv, [P2PNext]_vars
    PROVE  HoldInv'
<1>0. /\ QueueTypeOK /\ CallerTypeOK /\ ThreadTypeOK /\ P2PTypeOK /\ TaskInv
      /\ HoldInv /\ Alive /\ (\A t \in Thread : Holds(t)) /\ ServerAskedOnce
  BY DEF CoreInv, P2PTypeOK, HoldInv
<1>a. /\ added \in Nat /\ taskId \in Nat /\ queueTask \in Nat
      /\ \A t \in Thread : mine[t].task \in Nat /\ told[t].task \in Nat
  <2>1. added \in Nat /\ taskId \in Nat /\ queueTask \in Nat
    BY <1>0 DEF CallerTypeOK, QueueTypeOK
  <2>2. \A t \in Thread : mine[t].task \in Nat /\ told[t].task \in Nat
    BY <1>0, P2PAssumption DEF ThreadTypeOK, TaskInfo, NoTask
  <2> QED
    BY <2>1, <2>2
<1>b. NoElement \notin DOMAIN elements
  BY <1>0 DEF QueueTypeOK, NoElement, Element
<1>1. CASE UNCHANGED vars \/ NoMoreTasks \/ WaitEmpty \/ ReadError \/ Destroy \/ Stop
  <2>1. UNCHANGED <<queue, elements, queueTask, added, pc, mine, element>>
    BY <1>1 DEF NoMoreTasks, WaitEmpty, ReadError, Destroy, Stop, vars, queueVars,
        callerVars, threadVars
  <2> QED
    BY <1>0, <2>1 DEF HoldInv, Alive, Holds, ServerAskedOnce
<1>2. ASSUME NEW r \in Requests, NEW hint \in Server, Process(r, hint)
      PROVE  HoldInv'
  <2>1. /\ queue = <<>> /\ queueTask' = taskId /\ queueTask = taskId - 1
        /\ UNCHANGED <<queue, elements, pc, mine, element>>
    BY <1>0, <1>2 DEF Process, TaskInv, threadVars
  <2>2. ToSet(queue') = {}
    BY <2>1 DEF ToSet
  <2>3. \A t \in Thread : element[t].task < taskId
    BY <1>0, <1>a, <2>1 DEF Holds, TaskInv, NoElement
  <2>4. \A t \in Thread : element[t].task # taskId
    BY <1>a, <2>3
  <2>5. \A t \in Thread : Holds(t)'
    BY <1>0, <2>1, <2>4 DEF Holds
  <2> QED
    BY <1>0, <2>1, <2>2, <2>5 DEF HoldInv, Alive, ServerAskedOnce
<1>3. CASE NewTask
  <2>1. /\ UNCHANGED <<queue, elements, queueTask, added, mine, element>>
        /\ \A u \in Thread :
            pc'[u] = pc[u] \/ (pc[u] = "unborn" /\ pc'[u] = "loop")
    <3> DEFINE t == Min(NotTold)
    <3>1. /\ pc' = [pc EXCEPT ![t] = IF @ = "unborn" THEN "loop" ELSE @]
          /\ UNCHANGED <<queueVars, callerVars, mine, element>>
      BY <1>3 DEF NewTask
    <3> HIDE DEF t
    <3>2. \A u \in Thread :
            pc'[u] = IF u = t /\ pc[u] = "unborn" THEN "loop" ELSE pc[u]
      BY <1>0, <3>1 DEF ThreadTypeOK
    <3>3. UNCHANGED <<queue, elements, queueTask, added, mine, element>>
      BY <3>1 DEF queueVars, callerVars
    <3> QED
      BY <3>2, <3>3
  <2>2. \A u \in Thread : (pc'[u] \in Taken => pc[u] \in Taken)
                            /\ (pc[u] = "peeking" => pc'[u] = "peeking")
    BY <2>1 DEF Taken, Busy
  <2> QED
    BY <1>0, <2>1, <2>2 DEF HoldInv, Alive, Holds, ServerAskedOnce
<1>4. CASE AddElement
  <2> DEFINE e == [task |-> taskId, pos |-> added + 1]
  <2>1. /\ e \notin DOMAIN elements /\ \A t \in Thread : element[t] # e
        /\ ToSet(queue') = ToSet(queue) \cup {e}
        /\ DOMAIN elements' = DOMAIN elements \cup {e}
        /\ \A x \in DOMAIN elements : elements'[x] = elements[x]
        /\ added' = added + 1
    BY <1>4, AddElementFacts
  <2>2. UNCHANGED <<queueTask, pc, mine, element>>
    BY <1>4 DEF AddElement, threadVars
  <2>3. e.pos = added + 1
    OBVIOUS
  <2> HIDE DEF e
  <2>4. \A x \in ToSet(queue) : x.pos \in Nat
    BY <1>0 DEF QueueTypeOK, ToSet, Element
  <2>5. \A x \in ToSet(queue') : x.pos <= added'
    BY <1>0, <1>a, <2>1, <2>3, <2>4 DEF HoldInv
  <2>6. Alive'
    BY <1>0, <2>1, <2>2 DEF Alive
  <2>7. ASSUME NEW t \in Thread
        PROVE  Holds(t)'
    <3>1. element[t] \in DOMAIN elements' => element[t] \in DOMAIN elements
      BY <2>1
    <3>2. element[t].pos \in Nat
      BY <1>0 DEF ThreadTypeOK, Element, NoElement
    <3> QED
      BY <1>0, <1>a, <2>1, <2>2, <3>1, <3>2 DEF Holds
  <2> QED
    BY <1>0, <2>2, <2>5, <2>6, <2>7 DEF HoldInv, ServerAskedOnce
<1>5. ASSUME NEW t \in Thread, NEW to, PcMove(t, to)
      PROVE  HoldInv'
  <2>1. /\ UNCHANGED <<queue, elements, queueTask, added, mine, element>>
        /\ \A u \in Thread : pc'[u] = IF u = t THEN to ELSE pc[u]
        /\ pc[t] # "peeking" /\ (to \in Taken => pc[t] \in Taken)
    BY <1>0, <1>5 DEF PcMove, ThreadTypeOK, queueVars, callerVars, Taken
  <2> QED
    BY <1>0, <2>1 DEF HoldInv, Alive, Holds, ServerAskedOnce
<1>6. ASSUME NEW t \in Thread, Copy(t)
      PROVE  HoldInv'
  <2>1. /\ UNCHANGED <<queue, elements, queueTask, added>> /\ pc[t] = "loop"
        /\ \A u \in Thread :
            /\ pc'[u] = IF u = t THEN "getElement" ELSE pc[u]
            /\ mine'[u] = IF u = t THEN told[u] ELSE mine[u]
            /\ element'[u] = IF u = t THEN NoElement ELSE element[u]
    BY <1>0, <1>6 DEF Copy, Goes, ThreadTypeOK, queueVars, callerVars
  <2>2. ASSUME NEW u \in Thread
        PROVE  Holds(u)'
    <3>1. CASE u = t
      <4>1. element'[u] = NoElement /\ pc'[u] = "getElement"
        BY <2>1, <3>1
      <4>2. NoElement.pos <= added /\ "getElement" \notin Taken
        BY <1>a DEF NoElement, Taken, Busy
      <4> QED
        BY <1>b, <2>1, <4>1, <4>2 DEF Holds
    <3>2. CASE u # t
      BY <1>0, <2>1, <3>2 DEF Holds
    <3> QED
      BY <3>1, <3>2
  <2>3. Alive'
    BY <1>0, <2>1 DEF Alive
  <2>4. ServerAskedOnce'
    BY <1>0, <2>1 DEF ServerAskedOnce
  <2> QED
    BY <1>0, <2>1, <2>2, <2>3, <2>4 DEF HoldInv
<1>7. ASSUME NEW t \in Thread, GetElement(t)
      PROVE  HoldInv'
  <2>1. PICK e \in ToSet(queue) :
            /\ e \in DOMAIN elements
            /\ mine[t].server \notin elements[e].servers
            /\ elements' = WithServer(e, mine[t].server)
            /\ element' = [element EXCEPT ![t] = e]
            /\ ToSet(queue') = ToSet(queue)
            /\ pc' = [pc EXCEPT ![t] = "got"] /\ pc[t] = "getElement"
            /\ mine[t].task = queueTask
    BY <1>0, <1>7, GetElementFacts
  <2>2. /\ UNCHANGED <<queueTask, added, mine>>
        /\ \A u \in Thread : /\ pc'[u] = IF u = t THEN "got" ELSE pc[u]
                             /\ element'[u] = IF u = t THEN e ELSE element[u]
    BY <1>0, <1>7, <2>1 DEF GetElement, ThreadTypeOK, callerVars
  <2>3. /\ DOMAIN elements' = DOMAIN elements
        /\ elements'[e].servers = elements[e].servers \cup {mine[t].server}
        /\ \A x \in DOMAIN elements : x # e => elements'[x] = elements[x]
    BY <1>0, <2>1 DEF WithServer, QueueTypeOK
  <2>4. Alive'
    BY <1>0, <2>1, <2>2, <2>3 DEF Alive
  <2>5. e.task = queueTask /\ e.pos <= added /\ e # NoElement
    BY <1>0, <1>b, <2>1 DEF QueueTypeOK, HoldInv
  <2>6. ASSUME NEW u \in Thread
        PROVE  Holds(u)'
    <3>1. CASE u = t
      BY <2>1, <2>2, <2>3, <2>5, <3>1 DEF Holds
    <3>2. CASE u # t
      <4>1. pc'[u] = pc[u] /\ element'[u] = element[u] /\ mine'[u] = mine[u]
        BY <2>2, <3>2
      <4>2. element[u] \in DOMAIN elements =>
                mine[u].server \in elements'[element[u]].servers
        BY <1>0, <2>3 DEF Holds
      <4> QED
        BY <1>0, <2>2, <2>3, <4>1, <4>2 DEF Holds
    <3> QED
      BY <3>1, <3>2
  <2>7. ASSUME NEW u \in Thread, u # t, element[u] = e
        PROVE  mine[u].server # mine[t].server
    BY <1>0, <2>1, <2>7 DEF Holds
  <2>8. ServerAskedOnce'
    BY <1>0, <2>2, <2>7 DEF ServerAskedOnce
  <2> QED
    BY <1>0, <2>1, <2>2, <2>4, <2>6, <2>8 DEF HoldInv
<1>8. ASSUME NEW t \in Thread, PeekDone(t)
      PROVE  HoldInv'
  <2>1. /\ UNCHANGED <<queue, queueTask, added, mine, element>>
        /\ elements' = Collected(elements, queue', pc')
        /\ pc[t] = "peeking"
        /\ \A u \in Thread : pc'[u] = IF u = t THEN "make" ELSE pc[u]
    BY <1>0, <1>8 DEF PeekDone, Goes, ThreadTypeOK, callerVars
  <2>2. /\ \A e \in DOMAIN elements' : e \in DOMAIN elements /\ elements'[e] = elements[e]
        /\ \A e : e \in DOMAIN elements' <=>
            /\ e \in DOMAIN elements
            /\ e \in ToSet(queue')
                \/ \E u \in Thread : pc'[u] = "peeking" /\ element[u] = e
    BY <1>0, <2>1, CollectedFacts DEF QueueTypeOK, ElementServers
  <2>3. Alive'
    BY <2>1, <2>2 DEF Alive
  <2>4. \A u \in Thread : pc'[u] \in Taken => pc[u] \in Taken
    BY <2>1 DEF Taken, Busy
  <2> QED
    BY <1>0, <2>1, <2>2, <2>3, <2>4 DEF HoldInv, Holds, ServerAskedOnce
<1>9. ASSUME NEW t \in Thread, RespondEnd(t)
      PROVE  HoldInv'
  <2>1. /\ UNCHANGED <<queue, elements, queueTask, added, mine, element>>
        /\ pc[t] = "responding"
        /\ \A u \in Thread : pc'[u] = IF u = t THEN "remove" ELSE pc[u]
    BY <1>0, <1>9 DEF RespondEnd, Goes, ThreadTypeOK, queueVars
  <2>2. "responding" \in Taken
    BY DEF Taken, Busy
  <2> QED
    BY <1>0, <2>1, <2>2 DEF HoldInv, Alive, Holds, ServerAskedOnce
<1>10. ASSUME NEW t \in Thread, RemoveElement(t) \/ RemoveElementError(t)
       PROVE  HoldInv'
  <2>1. RemoveInternal(t) /\ UNCHANGED <<queueTask, added, mine, element>>
    BY <1>10 DEF RemoveElement, RemoveElementError, callerVars
  <2>2. /\ ToSet(queue') = ToSet(queue) \ {element[t]}
        /\ \A e \in DOMAIN elements' : e \in DOMAIN elements /\ elements'[e] = elements[e]
        /\ \A e \in DOMAIN elements' :
            e \in ToSet(queue')
                \/ \E u \in Thread : pc'[u] = "peeking" /\ element'[u] = e
        /\ pc' = [pc EXCEPT ![t] = "loop"]
    BY <1>0, <2>1, RemoveInternalFacts
  <2>3. \A u \in Thread : pc'[u] \in Taken => pc[u] \in Taken
    BY <1>0, <2>2 DEF Taken, Busy, ThreadTypeOK
  <2> QED
    BY <1>0, <2>1, <2>2, <2>3 DEF HoldInv, Alive, Holds, ServerAskedOnce
<1>11. ASSUME NEW t \in Thread, ErrorElement(t)
       PROVE  HoldInv'
  <2>1. /\ elements' = IF element[t] \in DOMAIN elements
                       THEN WithError(element[t], mine[t].server) ELSE elements
        /\ UNCHANGED <<queue, queueTask, added, mine, element>>
        /\ pc[t] = "failed"
        /\ \A u \in Thread : u # t => pc'[u] = pc[u]
        /\ pc'[t] \in {"removeError", "loop"}
    BY <1>0, <1>11 DEF ErrorElement, Goes, Locked, ThreadTypeOK, callerVars
  <2>2. /\ DOMAIN elements' = DOMAIN elements
        /\ \A x \in DOMAIN elements : elements'[x].servers = elements[x].servers
    BY <1>0, <2>1 DEF WithError, QueueTypeOK
  <2>3. /\ \A u \in Thread : pc'[u] \in Taken => pc[u] \in Taken
        /\ \A u \in Thread : pc[u] = "peeking" => pc'[u] = "peeking"
    BY <2>1 DEF Taken, Busy
  <2> QED
    BY <1>0, <2>1, <2>2, <2>3 DEF HoldInv, Alive, Holds, ServerAskedOnce
<1> QED
  BY <1>1, <1>2, <1>3, <1>4, <1>5, <1>6, <1>7, <1>8, <1>9, <1>10, <1>11, PcMoves
    DEF P2PNext, Caller, Work

(***************************************************************************)
(* The steps, as the rest of the proof sees them.                          *)
(***************************************************************************)

Moves(t, to) == \A u \in Thread : pc'[u] = IF u = t THEN to ELSE pc[u]

\* No thread comes to an element or to its removal.
QuietStep ==
    /\ UNCHANGED <<queue, elements, queueTask, distribution, added, answers,
                   segments, mine, element>>
    /\ \A u \in Thread :
        /\ pc'[u] \in Busy => pc[u] \in Busy
        /\ pc'[u] \in {"remove", "removeError"} => pc'[u] = pc[u]

ProcessStep ==
    /\ ToSet(queue) = {} /\ queueTask' = taskId
    /\ \A t \in Thread :
        element[t].task # taskId /\ told[t].task # taskId /\ mine[t].task # taskId
    /\ \A e \in DOMAIN elements : e.task # taskId
    /\ added' = 0 /\ callerPc' = "newTasks" /\ result' = "none" /\ isError' = FALSE
    /\ \A i \in 1..Len(segments') : answers'[i] = NoServer
    /\ UNCHANGED <<queue, elements, taskId, pc, told, mine, element>>

AddStep(e) ==
    /\ e = [task |-> queueTask, pos |-> added + 1]
    /\ e \notin DOMAIN elements /\ \A t \in Thread : element[t] # e
    /\ ToSet(queue') = ToSet(queue) \cup {e}
    /\ DOMAIN elements' = DOMAIN elements \cup {e}
    /\ elements'[e] = [servers |-> {}, errorServers |-> {}]
    /\ \A x \in DOMAIN elements : elements'[x] = elements[x]
    /\ added' = added + 1 /\ added < Len(segments)
    /\ UNCHANGED <<isError, queueTask, callerPc, segments, distribution, answers,
                   result, told, pc, mine, element>>

CopyStep(t) ==
    /\ pc[t] = "loop" /\ Moves(t, "getElement")
    /\ \A u \in Thread : /\ mine'[u] = IF u = t THEN told[u] ELSE mine[u]
                         /\ element'[u] = IF u = t THEN NoElement ELSE element[u]
    /\ UNCHANGED <<queueVars, callerVars, told>>

GetStep(t, e) ==
    /\ e \in ToSet(queue) /\ e \in DOMAIN elements
    /\ mine[t].task = queueTask /\ queueTask # 0
    /\ mine[t].server \notin elements[e].servers
    /\ pc[t] = "getElement" /\ Moves(t, "got")
    /\ \A u \in Thread : element'[u] = IF u = t THEN e ELSE element[u]
    /\ ToSet(queue') = ToSet(queue)
    /\ DOMAIN elements' = DOMAIN elements
    /\ elements'[e].servers = elements[e].servers \cup {mine[t].server}
    /\ elements'[e].errorServers = elements[e].errorServers
    /\ \A x \in DOMAIN elements : x # e => elements'[x] = elements[x]
    /\ UNCHANGED <<isStopped, isError, queueTask, callerVars, told, mine>>

Shrinks ==
    \A e \in DOMAIN elements' : e \in DOMAIN elements /\ elements'[e] = elements[e]

PeekStep(t) ==
    /\ pc[t] = "peeking" /\ Moves(t, "make")
    /\ Shrinks
    /\ UNCHANGED <<queue, isStopped, isError, queueTask, callerVars, told, mine,
                   element>>

RespondStep(t) ==
    /\ pc[t] = "responding" /\ Moves(t, "remove")
    /\ element[t].task = queueTask /\ element[t].pos \in 1..added
    /\ \A i \in 1..Len(segments) :
        answers'[i] = IF i = element[t].pos /\ answers[i] = NoServer
                      THEN mine[t].server ELSE answers[i]
    /\ mine[t].server \in Server
    /\ UNCHANGED <<queueVars, taskId, callerPc, segments, distribution, added, result,
                   told, mine, element>>

RemoveStep(t) ==
    /\ pc[t] \in {"remove", "removeError"} /\ Moves(t, "loop")
    /\ ToSet(queue') = ToSet(queue) \ {element[t]}
    /\ Shrinks
    /\ \A e \in DOMAIN elements' :
        e \in ToSet(queue') \/ \E u \in Thread : pc'[u] = "peeking" /\ element[u] = e
    /\ isError' = IF pc[t] = "remove" THEN isError ELSE TRUE
    /\ UNCHANGED <<isStopped, queueTask, callerVars, told, mine, element>>

ErrorStep(t) ==
    /\ pc[t] = "failed" /\ pc'[t] \in {"loop", "removeError"}
    /\ \A u \in Thread : u # t => pc'[u] = pc[u]
    /\ DOMAIN elements' = DOMAIN elements
    /\ \A x \in DOMAIN elements :
        /\ elements'[x].servers = elements[x].servers
        /\ elements'[x].errorServers =
            IF x = element[t] THEN elements[x].errorServers \cup {mine[t].server}
            ELSE elements[x].errorServers
    /\ pc'[t] = "removeError" =>
        /\ element[t] \in DOMAIN elements
        /\ Cardinality(elements'[element[t]].errorServers) >= mine[t].countUniqueServers
    /\ UNCHANGED <<queue, isStopped, isError, queueTask, callerVars, told, mine,
                   element>>

\* Quiet steps, of the caller and of the threads.
LEMMA QuietSteps ==
    ASSUME ThreadTypeOK,
           \/ UNCHANGED vars \/ NewTask \/ WaitEmpty \/ ReadError \/ Destroy \/ Stop
           \/ NoMoreTasks \/ \E t \in Thread : \E to : PcMove(t, to)
    PROVE  QuietStep
<1>1. CASE UNCHANGED vars \/ WaitEmpty \/ ReadError \/ Destroy \/ Stop \/ NoMoreTasks
  <2>1. UNCHANGED <<queue, elements, queueTask, distribution, added, answers, segments,
                    mine, element, pc>>
    BY <1>1 DEF vars, WaitEmpty, ReadError, Destroy, Stop, NoMoreTasks, queueVars,
        callerVars, threadVars
  <2> QED
    BY <2>1 DEF QuietStep
<1>2. CASE NewTask
  <2> DEFINE t == Min(NotTold)
  <2>1. /\ pc' = [pc EXCEPT ![t] = IF @ = "unborn" THEN "loop" ELSE @]
        /\ UNCHANGED <<queueVars, callerVars, mine, element>>
    BY <1>2 DEF NewTask
  <2> HIDE DEF t
  <2>2. \A u \in Thread :
            pc'[u] = IF u = t /\ pc[u] = "unborn" THEN "loop" ELSE pc[u]
    BY <2>1 DEF ThreadTypeOK
  <2>3. \A u \in Thread :
            /\ pc'[u] \in Busy => pc[u] \in Busy
            /\ pc'[u] \in {"remove", "removeError"} => pc'[u] = pc[u]
    BY <2>2 DEF Busy
  <2> QED
    BY <2>1, <2>3 DEF QuietStep, queueVars, callerVars
<1>3. ASSUME NEW t \in Thread, NEW to, PcMove(t, to)
      PROVE  QuietStep
  <2>1. \A u \in Thread : pc'[u] = IF u = t THEN to ELSE pc[u]
    BY <1>3 DEF PcMove, ThreadTypeOK
  <2>2. \A u \in Thread :
            /\ pc'[u] \in Busy => pc[u] \in Busy
            /\ pc'[u] \in {"remove", "removeError"} => pc'[u] = pc[u]
    BY <1>3, <2>1 DEF PcMove
  <2> QED
    BY <1>3, <2>2 DEF PcMove, QuietStep, queueVars, callerVars
<1> QED
  BY <1>1, <1>2, <1>3

LEMMA CallerShapes ==
    ASSUME CoreInv
    PROVE  /\ \A r \in Requests, hint \in Server : Process(r, hint) => ProcessStep
           /\ AddElement => \E e : AddStep(e)
<1>0. QueueTypeOK /\ CallerTypeOK /\ ThreadTypeOK /\ TaskInv /\ HoldInv
  BY DEF CoreInv, P2PTypeOK
<1>1. ASSUME NEW r \in Requests, NEW hint \in Server, Process(r, hint)
      PROVE  ProcessStep
  <2> DEFINE segs == makeSegments(countSegments(r), r.size, r.minSize)
  <2>1. /\ segments' = segs /\ answers' = [i \in DOMAIN segs |-> NoServer]
        /\ queueTask' = taskId /\ added' = 0 /\ callerPc' = "newTasks"
        /\ result' = "none" /\ isError' = FALSE
        /\ UNCHANGED <<queue, elements, taskId, pc, told, mine, element>>
    BY <1>1 DEF Process, threadVars
  <2>2. queue = <<>> /\ queueTask = taskId - 1
    BY <1>0, <1>1 DEF Process, TaskInv
  <2>3. DOMAIN segs = 1..Len(segs)
    BY SegmentsFacts
  <2> HIDE DEF segs
  <2>4. \A i \in 1..Len(segments') : answers'[i] = NoServer
    BY <2>1, <2>3
  <2>5. taskId \in Nat \ {0} /\ \A t \in Thread : mine[t].task \in Nat /\ told[t].task \in Nat
    <3>1. \A t \in Thread : mine[t].task \in Nat /\ told[t].task \in Nat
      BY <1>0, P2PAssumption DEF ThreadTypeOK, TaskInfo, NoTask
    <3> QED
      BY <1>0, <3>1 DEF CallerTypeOK
  <2>6. \A t \in Thread : mine[t].task # taskId /\ told[t].task # taskId
    BY <1>0, <2>2, <2>5 DEF TaskInv
  <2>7. \A t \in Thread : element[t].task # taskId
    BY <1>0, <2>5, <2>6 DEF HoldInv, Holds, NoElement
  <2>8. ToSet(queue) = {}
    BY <2>2 DEF ToSet
  <2>9. \A e \in DOMAIN elements : e.task # taskId
    BY <1>0, <2>7, <2>8 DEF HoldInv, Alive
  <2> QED
    BY <2>1, <2>4, <2>6, <2>7, <2>8, <2>9 DEF ProcessStep
<1>2. ASSUME AddElement
      PROVE  \E e : AddStep(e)
  <2> DEFINE e == [task |-> taskId, pos |-> added + 1]
  <2>1. /\ e \notin DOMAIN elements /\ \A t \in Thread : element[t] # e
        /\ ToSet(queue') = ToSet(queue) \cup {e}
        /\ DOMAIN elements' = DOMAIN elements \cup {e}
        /\ elements'[e] = [servers |-> {}, errorServers |-> {}]
        /\ \A x \in DOMAIN elements : elements'[x] = elements[x]
        /\ added' = added + 1 /\ added < Len(segments) /\ taskId = queueTask
    BY <1>2, AddElementFacts
  <2>2. UNCHANGED <<isError, queueTask, callerPc, segments, distribution, answers,
                    result, told, pc, mine, element>>
    BY <1>2 DEF AddElement, threadVars
  <2>3. e = [task |-> queueTask, pos |-> added + 1]
    BY <2>1
  <2> HIDE DEF e
  <2> QED
    BY <2>1, <2>2, <2>3 DEF AddStep
<1> QED
  BY <1>1, <1>2

LEMMA ThreadShapes ==
    ASSUME CoreInv, NEW t \in Thread
    PROVE  /\ Copy(t) => CopyStep(t)
           /\ GetElement(t) => \E e : GetStep(t, e)
           /\ PeekDone(t) => PeekStep(t)
           /\ RespondEnd(t) => RespondStep(t)
           /\ RemoveElement(t) \/ RemoveElementError(t) => RemoveStep(t)
           /\ ErrorElement(t) => ErrorStep(t)
<1>0. /\ QueueTypeOK /\ CallerTypeOK /\ ThreadTypeOK /\ P2PTypeOK /\ TaskInv
      /\ HoldInv /\ Holds(t)
  BY DEF CoreInv, P2PTypeOK, HoldInv
<1>1. ASSUME Copy(t) PROVE CopyStep(t)
  BY <1>0, <1>1 DEF Copy, Goes, CopyStep, Moves, ThreadTypeOK
<1>2. ASSUME GetElement(t) PROVE \E e : GetStep(t, e)
  <2>1. PICK e \in ToSet(queue) :
            /\ e \in DOMAIN elements
            /\ mine[t].server \notin elements[e].servers
            /\ elements' = WithServer(e, mine[t].server)
            /\ element' = [element EXCEPT ![t] = e]
            /\ ToSet(queue') = ToSet(queue)
            /\ pc' = [pc EXCEPT ![t] = "got"] /\ pc[t] = "getElement"
            /\ ~isStopped /\ mine[t].task = queueTask
    BY <1>0, <1>2, GetElementFacts
  <2>2. queueTask # 0
    BY <1>0, <2>1 DEF TaskInv, CallerTypeOK
  <2>3. Moves(t, "got") /\ \A u \in Thread : element'[u] = IF u = t THEN e ELSE element[u]
    BY <1>0, <2>1 DEF ThreadTypeOK, Moves
  <2>4. /\ DOMAIN elements' = DOMAIN elements
        /\ elements'[e].servers = elements[e].servers \cup {mine[t].server}
        /\ elements'[e].errorServers = elements[e].errorServers
        /\ \A x \in DOMAIN elements : x # e => elements'[x] = elements[x]
    BY <1>0, <2>1 DEF WithServer, QueueTypeOK
  <2>5. UNCHANGED <<isStopped, isError, queueTask, callerVars, told, mine>>
    BY <1>2 DEF GetElement
  <2> QED
    BY <2>1, <2>2, <2>3, <2>4, <2>5 DEF GetStep
<1>3. ASSUME PeekDone(t) PROVE PeekStep(t)
  <2>1. /\ UNCHANGED <<queue, isStopped, isError, queueTask, callerVars, told, mine,
                       element>>
        /\ elements' = Collected(elements, queue', pc')
        /\ pc[t] = "peeking" /\ Moves(t, "make")
    BY <1>0, <1>3 DEF PeekDone, Goes, ThreadTypeOK, Moves
  <2>2. Shrinks
    BY <1>0, <2>1, CollectedFacts DEF QueueTypeOK, ElementServers, Shrinks
  <2> QED
    BY <2>1, <2>2 DEF PeekStep
<1>4. ASSUME RespondEnd(t) PROVE RespondStep(t)
  <2>1. /\ pc[t] = "responding" /\ Moves(t, "remove")
        /\ answers' = [answers EXCEPT ![element[t].pos] =
                IF @ = NoServer THEN mine[t].server ELSE @]
        /\ UNCHANGED <<queueVars, taskId, callerPc, segments, distribution, added,
                       result, told, mine, element>>
    BY <1>0, <1>4 DEF RespondEnd, Goes, ThreadTypeOK, Moves
  <2>2. mine[t].task = queueTask /\ queueTask # 0 /\ element[t] # NoElement
    BY <1>0, <2>1 DEF TaskInv, CallerTypeOK, Holds, Taken, Busy
  <2>3. mine[t].server \in Server
    BY <1>0, <2>2 DEF ThreadTypeOK, TaskInfo, NoTask
  <2>4. element[t].task = queueTask /\ element[t].pos <= added /\ element[t] \in Element
    BY <1>0, <2>2 DEF Holds, ThreadTypeOK
  <2>5. element[t].pos \in 1..added
    BY <1>0, <2>4 DEF Element, CallerTypeOK
  <2>6. \A i \in 1..Len(segments) :
            answers'[i] = IF i = element[t].pos /\ answers[i] = NoServer
                          THEN mine[t].server ELSE answers[i]
    BY <1>0, <2>1 DEF CallerTypeOK
  <2> QED
    BY <2>1, <2>3, <2>4, <2>5, <2>6 DEF RespondStep
<1>5. ASSUME RemoveElement(t) \/ RemoveElementError(t) PROVE RemoveStep(t)
  <2>1. /\ RemoveInternal(t) /\ pc[t] \in {"remove", "removeError"}
        /\ isError' = IF pc[t] = "remove" THEN isError ELSE TRUE
        /\ UNCHANGED <<isStopped, queueTask, callerVars, told, mine, element>>
    BY <1>5 DEF RemoveElement, RemoveElementError
  <2>2. /\ ToSet(queue') = ToSet(queue) \ {element[t]}
        /\ Shrinks
        /\ \A e \in DOMAIN elements' :
            e \in ToSet(queue')
                \/ \E u \in Thread : pc'[u] = "peeking" /\ element'[u] = e
        /\ pc' = [pc EXCEPT ![t] = "loop"]
    BY <1>0, <2>1, RemoveInternalFacts DEF Shrinks
  <2>3. Moves(t, "loop")
    BY <1>0, <2>2 DEF ThreadTypeOK, Moves
  <2> QED
    BY <2>1, <2>2, <2>3 DEF RemoveStep
<1>6. ASSUME ErrorElement(t) PROVE ErrorStep(t)
  <2> DEFINE n == IF element[t] \in DOMAIN elements
                  THEN Cardinality(elements'[element[t]].errorServers) ELSE 0
  <2>1. /\ elements' = IF element[t] \in DOMAIN elements
                       THEN WithError(element[t], mine[t].server) ELSE elements
        /\ UNCHANGED <<queue, isStopped, isError, queueTask, callerVars, told, mine,
                       element>>
        /\ pc[t] = "failed"
        /\ pc' = [pc EXCEPT ![t] = IF n >= mine[t].countUniqueServers
                                   THEN "removeError" ELSE "loop"]
    BY <1>6 DEF ErrorElement, Goes, Locked, TooManyErrors
  <2> HIDE DEF n
  <2>2. /\ pc'[t] = IF n >= mine[t].countUniqueServers THEN "removeError" ELSE "loop"
        /\ \A u \in Thread : u # t => pc'[u] = pc[u]
    BY <1>0, <2>1 DEF ThreadTypeOK
  <2>3. /\ DOMAIN elements' = DOMAIN elements
        /\ \A x \in DOMAIN elements :
            /\ elements'[x].servers = elements[x].servers
            /\ elements'[x].errorServers =
                IF x = element[t] THEN elements[x].errorServers \cup {mine[t].server}
                ELSE elements[x].errorServers
    BY <1>0, <2>1 DEF WithError, QueueTypeOK
  <2>4. mine[t].countUniqueServers \in Nat \ {0}
    <3>1. element[t] # NoElement /\ element[t].task = mine[t].task
      BY <1>0, <2>1 DEF Holds, Taken, Busy
    <3>2. mine[t].task # 0
      BY <1>0, <3>1 DEF ThreadTypeOK, Element
    <3> QED
      BY <1>0, <3>2, ServerFacts DEF ThreadTypeOK, TaskInfo, NoTask
  <2>5. pc'[t] = "removeError" =>
            /\ element[t] \in DOMAIN elements
            /\ Cardinality(elements'[element[t]].errorServers)
                >= mine[t].countUniqueServers
    BY <2>2, <2>4 DEF n
  <2> QED
    BY <2>1, <2>2, <2>3, <2>5 DEF ErrorStep
<1> QED
  BY <1>1, <1>2, <1>3, <1>4, <1>5, <1>6

\* Every step has one of the shapes.
LEMMA StepShapes ==
    ASSUME CoreInv, [P2PNext]_vars
    PROVE  \/ QuietStep \/ ProcessStep \/ \E e : AddStep(e)
           \/ \E t \in Thread :
                \/ CopyStep(t) \/ PeekStep(t) \/ RespondStep(t) \/ RemoveStep(t)
                \/ ErrorStep(t) \/ \E e : GetStep(t, e)
<1>0. ThreadTypeOK
  BY DEF CoreInv, P2PTypeOK
<1>1. CASE UNCHANGED vars
  BY <1>0, <1>1, QuietSteps
<1>2. CASE Caller
  BY <1>0, <1>2, QuietSteps, CallerShapes DEF Caller
<1>3. ASSUME NEW t \in Thread, Work(t)
      PROVE  \/ QuietStep \/ CopyStep(t) \/ PeekStep(t) \/ RespondStep(t)
             \/ RemoveStep(t) \/ ErrorStep(t) \/ \E e : GetStep(t, e)
  <2>1. CASE \/ GetClosed(t) \/ Unpark(t) \/ PeekLock(t) \/ MakeBegin(t)
             \/ MakeEnd(t) \/ RequestFails(t) \/ RespondBegin(t) \/ RespondFails(t)
    <3>1. \E to : PcMove(t, to)
      BY <2>1, PcMoves
    <3> QED
      BY <1>0, <3>1, QuietSteps
  <2>2. CASE \/ Copy(t) \/ GetElement(t) \/ PeekDone(t) \/ RespondEnd(t)
             \/ RemoveElement(t) \/ ErrorElement(t) \/ RemoveElementError(t)
    BY <2>2, ThreadShapes, Zenon
  <2> QED
    BY <1>3, <2>1, <2>2 DEF Work
<1> QED
  BY <1>1, <1>2, <1>3 DEF P2PNext

(***************************************************************************)
(* The servers of a task and of an element.                                *)
(***************************************************************************)

\* The servers of a distribution are finitely many.
LEMMA DistributionFinite ==
    ASSUME CallerTypeOK
    PROVE  /\ IsFiniteSet(Range(distribution))
           /\ Cardinality(Range(distribution)) \in Nat
<1>1. Range(distribution) \subseteq Server
  BY DEF CallerTypeOK, Range
<1>2. IsFiniteSet(Range(distribution))
  BY <1>1, ServerFacts, FS_Subset
<1> QED
  BY <1>2, FS_CardinalityType

LEMMA ServersStep ==
    ASSUME CoreInv, ServersInv, [P2PNext]_vars
    PROVE  ServersInv'
<1>0. /\ QueueTypeOK /\ CallerTypeOK /\ ThreadTypeOK /\ TaskInv /\ HoldInv
      /\ \A t \in Thread : Holds(t)
  BY DEF CoreInv, P2PTypeOK, HoldInv
<1> DEFINE Told == \A t \in Thread : OfTask(told[t]) /\ OfTask(mine[t])
           Within == \A e \in DOMAIN elements :
              e.task = queueTask => elements[e].servers \subseteq Range(distribution)
           Count(t) == element[t] \in DOMAIN elements =>
              Cardinality(elements[element[t]].servers) <= mine[t].countUniqueServers
<1>1. Told /\ Within /\ \A t \in Thread : Count(t)
  BY DEF ServersInv
<1>2. CASE QuietStep
  <2>1. \A t \in Thread : OfTask(told[t])'
    <3>1. CASE NewTask
      <4> DEFINE t == Min(NotTold)
                 x == [task |-> taskId, server |-> distribution[t],
                       countUniqueServers |-> countUnique(distribution)]
      <4>1. NotTold \subseteq Nat /\ NotTold # {}
        BY <1>0, <3>1, ThreadFacts DEF NotTold, NewTask, CallerTypeOK
      <4>2. t \in NotTold
        BY <4>1, MinOfSet, Zenon
      <4>3. t \in DOMAIN distribution
        BY <4>2 DEF NotTold
      <4>4. told' = [told EXCEPT ![t] = x]
        BY <3>1 DEF NewTask
      <4>5. x.server \in Range(distribution) /\ x.countUniqueServers = countUnique(distribution)
        BY <4>3 DEF Range
      <4> HIDE DEF t, x
      <4>6. \A u \in Thread : told'[u] = IF u = t THEN x ELSE told[u]
        BY <1>0, <4>4 DEF ThreadTypeOK
      <4> QED
        BY <1>1, <1>2, <4>5, <4>6 DEF OfTask, QuietStep, countUnique
    <3>2. CASE UNCHANGED told
      BY <1>1, <1>2, <3>2 DEF OfTask, QuietStep, countUnique
    <3>3. NewTask \/ UNCHANGED told
      BY <1>2 DEF QuietStep, P2PNext, Caller, Work, vars, threadVars, Process, AddElement,
        WaitEmpty, ReadError, Destroy, Stop, NoMoreTasks, Copy, GetElement, GetClosed,
        Unpark, PeekLock, PeekDone, MakeBegin, MakeEnd, RequestFails, RespondBegin,
        RespondEnd, RespondFails, RemoveElement, ErrorElement, RemoveElementError
    <3> QED
      BY <3>1, <3>2, <3>3
  <2> QED
    BY <1>1, <1>2, <2>1 DEF ServersInv, OfTask, QuietStep, countUnique
<1>3. CASE ProcessStep
  BY <1>1, <1>3 DEF ServersInv, OfTask, ProcessStep
<1>4. ASSUME NEW e, AddStep(e)
      PROVE  ServersInv'
  BY <1>1, <1>4 DEF ServersInv, OfTask, AddStep, countUnique
<1>5. ASSUME NEW t \in Thread, CopyStep(t)
      PROVE  ServersInv'
  <2>1. NoElement \notin DOMAIN elements
    BY <1>0 DEF QueueTypeOK, NoElement, Element
  <2> QED
    BY <1>1, <1>5, <2>1 DEF ServersInv, OfTask, CopyStep, countUnique, queueVars,
        callerVars
<1>6. ASSUME NEW t \in Thread, NEW e, GetStep(t, e)
      PROVE  ServersInv'
  <2>1. mine[t].server \in Range(distribution) /\ e.task = queueTask
    BY <1>0, <1>1, <1>6 DEF OfTask, GetStep, QueueTypeOK
  <2>2. \A u \in Thread : OfTask(told[u])' /\ OfTask(mine[u])'
    BY <1>1, <1>6 DEF OfTask, GetStep, countUnique, callerVars
  <2>3. elements'[e].servers \subseteq Range(distribution)
    BY <1>1, <1>6, <2>1 DEF GetStep
  <2>4. Within'
    BY <1>1, <1>6, <2>3 DEF GetStep, callerVars
  <2>5. ASSUME NEW u \in Thread
        PROVE  Count(u)'
    <3>1. CASE element'[u] = e
      <4>1. mine[u].task = queueTask
        <5>1. CASE u = t
          BY <1>6, <5>1 DEF GetStep
        <5>2. CASE u # t
          <6>1. element[u] = e /\ e # NoElement
            BY <1>0, <1>6, <3>1, <5>2 DEF GetStep, QueueTypeOK, NoElement, Element
          <6> QED
            BY <1>0, <2>1, <6>1 DEF Holds
        <5> QED
          BY <5>1, <5>2
      <4>2. mine[u].countUniqueServers = Cardinality(Range(distribution))
        BY <1>1, <1>6, <4>1 DEF OfTask, GetStep, countUnique
      <4>3. Cardinality(elements'[e].servers) <= Cardinality(Range(distribution))
        BY <1>0, <2>3, DistributionFinite, FS_Subset
      <4> QED
        BY <1>6, <3>1, <4>2, <4>3 DEF GetStep
    <3>2. CASE element'[u] # e
      <4>1. element'[u] = element[u]
        BY <1>6, <3>2 DEF GetStep
      <4> QED
        BY <1>1, <1>6, <3>2, <4>1 DEF GetStep
    <3> QED
      BY <3>1, <3>2
  <2> QED
    BY <2>2, <2>4, <2>5 DEF ServersInv
<1>7. ASSUME NEW t \in Thread, PeekStep(t) \/ RemoveStep(t)
      PROVE  ServersInv'
  <2>1. Shrinks /\ UNCHANGED <<queueTask, callerVars, told, mine, element>>
    BY <1>7 DEF PeekStep, RemoveStep
  <2> QED
    BY <1>1, <2>1 DEF ServersInv, OfTask, Shrinks, countUnique, callerVars
<1>8. ASSUME NEW t \in Thread, RespondStep(t)
      PROVE  ServersInv'
  BY <1>1, <1>8 DEF ServersInv, OfTask, RespondStep, countUnique, queueVars
<1>9. ASSUME NEW t \in Thread, ErrorStep(t)
      PROVE  ServersInv'
  BY <1>1, <1>9 DEF ServersInv, OfTask, ErrorStep, countUnique, callerVars
<1> QED
  BY <1>2, <1>3, <1>4, <1>5, <1>6, <1>7, <1>8, <1>9, StepShapes

\* The servers that failed.
LEMMA ErrorsStep ==
    ASSUME CoreInv, ErrorsInv, [P2PNext]_vars
    PROVE  ErrorsInv'
<1>0. /\ QueueTypeOK /\ HoldInv /\ ServerAskedOnce /\ \A t \in Thread : Holds(t)
  BY DEF CoreInv, P2PTypeOK, HoldInv
<1>1. NoElement \notin DOMAIN elements
  BY <1>0 DEF QueueTypeOK, NoElement, Element
<1>2. CASE QuietStep
  <2>1. \A u \in Thread : pc'[u] \in Acting => pc[u] \in Acting
    BY <1>2 DEF QuietStep, Acting
  <2> QED
    BY <1>2, <2>1 DEF ErrorsInv, QuietStep
<1>3. CASE ProcessStep
  BY <1>3 DEF ErrorsInv, ProcessStep
<1>4. ASSUME NEW e, AddStep(e)
      PROVE  ErrorsInv'
  BY <1>4 DEF ErrorsInv, AddStep
<1>5. ASSUME NEW t \in Thread, CopyStep(t)
      PROVE  ErrorsInv'
  BY <1>1, <1>5 DEF ErrorsInv, CopyStep, Moves, queueVars
<1>6. ASSUME NEW t \in Thread, NEW e, GetStep(t, e)
      PROVE  ErrorsInv'
  <2>1. ASSUME NEW x \in DOMAIN elements
        PROVE  elements'[x].errorServers \subseteq elements'[x].servers
    BY <1>6 DEF ErrorsInv, GetStep
  <2>2. ASSUME NEW x \in DOMAIN elements, NEW u \in Thread,
               element'[u] = x, pc'[u] \in Acting
        PROVE  mine[u].server \notin elements'[x].errorServers
    <3>1. elements'[x].errorServers = elements[x].errorServers
      BY <1>6 DEF GetStep
    <3>2. CASE u = t
      BY <1>6, <2>2, <3>1, <3>2 DEF ErrorsInv, GetStep
    <3>3. CASE u # t
      BY <1>6, <2>2, <3>1, <3>3 DEF ErrorsInv, GetStep, Moves
    <3> QED
      BY <3>2, <3>3
  <2> QED
    BY <1>6, <2>1, <2>2 DEF ErrorsInv, GetStep
<1>7. ASSUME NEW t \in Thread, PeekStep(t) \/ RemoveStep(t)
      PROVE  ErrorsInv'
  <2>1. /\ Shrinks /\ UNCHANGED <<mine, element>>
        /\ \A u \in Thread : pc'[u] \in Acting => pc[u] \in Acting
    BY <1>7 DEF PeekStep, RemoveStep, Moves, Acting, Busy
  <2> QED
    BY <2>1 DEF ErrorsInv, Shrinks
<1>8. ASSUME NEW t \in Thread, RespondStep(t)
      PROVE  ErrorsInv'
  <2>1. \A u \in Thread : pc'[u] \in Acting => pc[u] \in Acting
    BY <1>8 DEF RespondStep, Moves, Acting, Busy
  <2> QED
    BY <1>8, <2>1 DEF ErrorsInv, RespondStep, queueVars
<1>9. ASSUME NEW t \in Thread, ErrorStep(t)
      PROVE  ErrorsInv'
  <2>a. \A x \in DOMAIN elements :
            /\ elements'[x].servers = elements[x].servers
            /\ elements'[x].errorServers =
                IF x = element[t] THEN elements[x].errorServers \cup {mine[t].server}
                ELSE elements[x].errorServers
    BY <1>9 DEF ErrorStep
  <2>1. pc[t] \in Acting /\ pc'[t] \notin Acting /\ pc[t] \in Taken
    BY <1>9 DEF ErrorStep, Acting, Busy, Taken
  <2>2. element[t] # NoElement
    BY <1>0, <2>1 DEF Holds
  <2>3. ASSUME NEW x \in DOMAIN elements
        PROVE  elements'[x].errorServers \subseteq elements'[x].servers
    <3>1. elements[x].errorServers \subseteq elements[x].servers
      BY DEF ErrorsInv
    <3>2. x = element[t] => mine[t].server \in elements[x].servers
      BY <1>0 DEF Holds
    <3> QED
      BY <2>a, <3>1, <3>2
  <2>4. ASSUME NEW x \in DOMAIN elements, NEW u \in Thread,
               element[u] = x, pc'[u] \in Acting
        PROVE  mine[u].server \notin elements'[x].errorServers
    <3>1. u # t /\ pc[u] \in Acting
      BY <1>9, <2>1, <2>4 DEF ErrorStep
    <3>2. x = element[t] => mine[u].server # mine[t].server
      BY <1>0, <2>2, <2>4, <3>1 DEF ServerAskedOnce
    <3>3. mine[u].server \notin elements[x].errorServers
      BY <2>4, <3>1 DEF ErrorsInv
    <3> QED
      BY <2>a, <3>2, <3>3
  <2> QED
    BY <1>9, <2>3, <2>4 DEF ErrorsInv, ErrorStep
<1> QED
  BY <1>2, <1>3, <1>4, <1>5, <1>6, <1>7, <1>8, <1>9, StepShapes

(***************************************************************************)
(* The server that answered.                                               *)
(***************************************************************************)

\* A spare server stays one while no thread with another server comes.
LEMMA SpareKept ==
    ASSUME NEW e, NEW P, Spare(e, P),
           elements[e].servers \subseteq elements'[e].servers,
           elements'[e].errorServers = elements[e].errorServers,
           \A u \in Thread : element'[u] = e /\ pc'[u] \in P =>
                \/ element[u] = e /\ pc[u] \in P /\ mine'[u] = mine[u]
                \/ mine'[u].server \notin elements[e].servers
    PROVE  Spare(e, P)'
<1>1. PICK s \in elements[e].servers \ elements[e].errorServers :
        \A t \in Thread : element[t] = e /\ pc[t] \in P => mine[t].server # s
  BY DEF Spare
<1>2. s \in elements'[e].servers \ elements'[e].errorServers
  BY <1>1
<1>3. \A t \in Thread : element'[t] = e /\ pc'[t] \in P => mine'[t].server # s
  BY <1>1
<1> QED
  BY <1>2, <1>3 DEF Spare

\* The server of a thread that no longer counts is a spare one.
LEMMA SpareMine ==
    ASSUME CoreInv, ErrorsInv, NEW t \in Thread, NEW P,
           element[t] \in DOMAIN elements, element[t] # NoElement, pc[t] \in Acting,
           elements'[element[t]] = elements[element[t]], pc'[t] \notin P,
           UNCHANGED <<mine, element>>
    PROVE  Spare(element[t], P)'
<1>1. mine[t].server \in elements[element[t]].servers
  BY DEF CoreInv, HoldInv, Holds
<1>2. mine[t].server \notin elements[element[t]].errorServers
  BY DEF ErrorsInv
<1>3. \A u \in Thread : element[u] = element[t] /\ pc'[u] \in P =>
        mine[u].server # mine[t].server
  BY DEF CoreInv, HoldInv, ServerAskedOnce
<1> QED
  BY <1>1, <1>2, <1>3 DEF Spare

LEMMA SpareStep ==
    ASSUME CoreInv, AnswerInv, [P2PNext]_vars
    PROVE  SpareInv'
<1>0. /\ QueueTypeOK /\ CallerTypeOK /\ ThreadTypeOK /\ HoldInv /\ ServerAskedOnce
      /\ \A t \in Thread : Holds(t)
  BY DEF CoreInv, P2PTypeOK, HoldInv
<1>1. ErrorsInv /\ SpareInv /\ RemoveInv /\ ResultInv
  BY DEF AnswerInv
<1>a. NoElement \notin DOMAIN elements
  BY <1>0 DEF QueueTypeOK, NoElement, Element
<1>2. CASE QuietStep
  <2>1. \A u \in Thread : /\ pc'[u] \in Acting => pc[u] \in Acting
                          /\ pc'[u] \in Busy => pc[u] \in Busy
    BY <1>2 DEF QuietStep, Acting
  <2>2. UNCHANGED <<queue, elements, queueTask, answers, mine, element>>
    BY <1>2 DEF QuietStep
  <2>3. \A e : /\ Spare(e, Acting) => Spare(e, Acting)'
               /\ Spare(e, Busy) => Spare(e, Busy)'
    BY <2>1, <2>2 DEF Spare
  <2> QED
    BY <1>1, <2>2, <2>3 DEF SpareInv, Answered
<1>3. CASE ProcessStep
  <2>1. /\ UNCHANGED <<queue, elements, pc, mine, element>> /\ queueTask' = taskId
        /\ \A e \in DOMAIN elements : e.task # taskId
    BY <1>3 DEF ProcessStep
  <2>2. \A e : Spare(e, Acting) => Spare(e, Acting)'
    BY <2>1 DEF Spare
  <2> QED
    BY <1>1, <2>1, <2>2 DEF SpareInv
<1>4. ASSUME NEW x, AddStep(x)
      PROVE  SpareInv'
  <2>1. ASSUME NEW e \in DOMAIN elements
        PROVE  /\ Spare(e, Acting) => Spare(e, Acting)'
               /\ Spare(e, Busy) => Spare(e, Busy)'
    BY <1>4 DEF AddStep, Spare
  <2>2. ~Answered(x)'
    <3>1. added + 1 \in (added + 1)..Len(segments) /\ x.pos = added + 1
      BY <1>0, <1>4 DEF AddStep, CallerTypeOK
    <3> QED
      BY <1>1, <1>4, <3>1 DEF ResultInv, Answered, AddStep
  <2>3. \A e \in DOMAIN elements : Answered(e)' = Answered(e)
    BY <1>4 DEF AddStep, Answered
  <2> QED
    BY <1>1, <1>4, <2>1, <2>2, <2>3 DEF SpareInv, AddStep
<1>5. ASSUME NEW t \in Thread, CopyStep(t)
      PROVE  SpareInv'
  <2>1. /\ UNCHANGED <<queue, elements, queueTask, answers>>
        /\ \A u \in Thread :
            element'[u] = NoElement
                \/ (element'[u] = element[u] /\ pc'[u] = pc[u] /\ mine'[u] = mine[u])
    BY <1>5 DEF CopyStep, Moves, queueVars, callerVars
  <2>2. ASSUME NEW e \in DOMAIN elements
        PROVE  /\ Spare(e, Acting) => Spare(e, Acting)'
               /\ Spare(e, Busy) => Spare(e, Busy)'
    BY <1>a, <2>1 DEF Spare
  <2> QED
    BY <1>1, <2>1, <2>2 DEF SpareInv, Answered
<1>6. ASSUME NEW t \in Thread, NEW x, GetStep(t, x)
      PROVE  SpareInv'
  <2>1. /\ UNCHANGED <<queueTask, answers, mine>> /\ ToSet(queue') = ToSet(queue)
        /\ DOMAIN elements' = DOMAIN elements
    BY <1>6 DEF GetStep, callerVars
  <2>2. ASSUME NEW e \in DOMAIN elements, NEW P
        PROVE  Spare(e, P) => Spare(e, P)'
    <3>1. elements[e].servers \subseteq elements'[e].servers
      BY <1>6 DEF GetStep
    <3>2. elements'[e].errorServers = elements[e].errorServers
      BY <1>6 DEF GetStep
    <3>3. \A u \in Thread : element'[u] = e /\ pc'[u] \in P =>
            \/ element[u] = e /\ pc[u] \in P /\ mine'[u] = mine[u]
            \/ mine'[u].server \notin elements[e].servers
      BY <1>6 DEF GetStep, Moves
    <3> QED
      BY <3>1, <3>2, <3>3, SpareKept
  <2> QED
    BY <1>1, <2>1, <2>2 DEF SpareInv, Answered
<1>7. ASSUME NEW t \in Thread, PeekStep(t)
      PROVE  SpareInv'
  <2>1. /\ UNCHANGED <<queue, queueTask, answers, mine, element>> /\ Shrinks
        /\ \A u \in Thread : /\ pc'[u] \in Acting => pc[u] \in Acting
                             /\ pc'[u] \in Busy => pc[u] \in Busy
    BY <1>7 DEF PeekStep, Moves, Acting, Busy, callerVars
  <2>2. ASSUME NEW e \in DOMAIN elements'
        PROVE  /\ Spare(e, Acting) => Spare(e, Acting)'
               /\ Spare(e, Busy) => Spare(e, Busy)'
    BY <2>1 DEF Spare, Shrinks
  <2> QED
    BY <1>1, <2>1, <2>2 DEF SpareInv, Answered, Shrinks
<1>8. ASSUME NEW t \in Thread, RespondStep(t)
      PROVE  SpareInv'
  <2>1. /\ UNCHANGED <<queue, elements, queueTask, mine, element>>
        /\ pc[t] \in Acting /\ pc[t] \in Taken /\ pc'[t] \notin Busy
        /\ \A u \in Thread : /\ pc'[u] \in Acting => pc[u] \in Acting
                             /\ pc'[u] \in Busy => pc[u] \in Busy
    BY <1>8 DEF RespondStep, Moves, Acting, Taken, Busy, queueVars
  <2>2. \A e : /\ Spare(e, Acting) => Spare(e, Acting)'
               /\ Spare(e, Busy) => Spare(e, Busy)'
    BY <2>1 DEF Spare
  <2>3. ASSUME NEW e \in DOMAIN elements, e.task = queueTask, Answered(e)'
        PROVE  Spare(e, Busy)'
    <3>1. CASE Answered(e)
      BY <1>1, <2>2, <2>3, <3>1 DEF SpareInv
    <3>2. CASE ~Answered(e)
      <4>1. e \in Element /\ element[t] \in Element
        BY <1>0, <1>8, <2>1 DEF QueueTypeOK, ThreadTypeOK, Holds
      <4>2. e.pos \in 1..Len(segments)
        <5>1. e \in ToSet(queue) \/ \E u \in Thread : element[u] = e
          BY <1>0 DEF HoldInv, Alive
        <5>2. e.pos <= added
          BY <1>0, <2>3, <5>1 DEF HoldInv, Holds
        <5> QED
          BY <1>0, <4>1, <5>2 DEF Element, CallerTypeOK
      <4>3. e.pos = element[t].pos /\ e.task = element[t].task
        BY <1>8, <2>3, <3>2, <4>2 DEF Answered, RespondStep
      <4>4. e = element[t]
        BY <4>1, <4>3 DEF Element
      <4> QED
        BY <1>1, <1>a, <2>1, <4>4, SpareMine
    <3> QED
      BY <3>1, <3>2
  <2> QED
    BY <1>1, <2>1, <2>2, <2>3 DEF SpareInv
<1>9. ASSUME NEW t \in Thread, RemoveStep(t)
      PROVE  SpareInv'
  <2>1. /\ UNCHANGED <<queueTask, answers, mine, element>> /\ Shrinks
        /\ ToSet(queue') = ToSet(queue) \ {element[t]} /\ pc'[t] \notin Acting
        /\ pc'[t] # "peeking"
        /\ \A u \in Thread : /\ pc'[u] \in Acting => pc[u] \in Acting
                             /\ pc'[u] \in Busy => pc[u] \in Busy
                             /\ u # t => pc'[u] = pc[u]
    BY <1>9 DEF RemoveStep, Moves, Acting, Busy, callerVars
  <2>2. ASSUME NEW e \in DOMAIN elements'
        PROVE  /\ Spare(e, Acting) => Spare(e, Acting)'
               /\ Spare(e, Busy) => Spare(e, Busy)'
    BY <2>1 DEF Spare, Shrinks
  <2>3. ASSUME NEW e \in DOMAIN elements', e \notin ToSet(queue')
        PROVE  Spare(e, Acting)'
    <3>1. CASE e # element[t]
      BY <1>1, <2>1, <2>2, <2>3, <3>1 DEF SpareInv, Shrinks
    <3>2. CASE e = element[t] /\ pc[t] = "remove"
      <4>1. /\ element[t] \in DOMAIN elements /\ pc[t] \in Acting
            /\ elements'[element[t]] = elements[element[t]]
        BY <2>1, <2>3, <3>2 DEF Shrinks, Acting
      <4> QED
        BY <1>1, <1>a, <2>1, <3>2, <4>1, SpareMine
    <3>3. CASE e = element[t] /\ pc[t] = "removeError"
      <4>1. PICK u \in Thread : pc'[u] = "peeking" /\ element[u] = e
        BY <1>9, <2>3 DEF RemoveStep
      <4>2. u # t /\ pc[u] \in Taken
        BY <2>1, <4>1 DEF Taken, Busy
      <4> QED
        BY <1>1, <3>3, <4>1, <4>2 DEF RemoveInv, GivesUp
    <3> QED
      BY <1>9, <3>1, <3>2, <3>3 DEF RemoveStep
  <2> QED
    BY <1>1, <2>1, <2>2, <2>3 DEF SpareInv, Answered, Shrinks
<1>10. ASSUME NEW t \in Thread, ErrorStep(t)
       PROVE  SpareInv'
  <2>1. /\ UNCHANGED <<queue, queueTask, answers, mine, element>>
        /\ DOMAIN elements' = DOMAIN elements
        /\ pc[t] \in Busy /\ pc[t] \in Acting
        /\ \A u \in Thread : /\ pc'[u] \in Acting => pc[u] \in Acting
                             /\ pc'[u] \in Busy => pc[u] \in Busy
    BY <1>10 DEF ErrorStep, Acting, Busy, callerVars
  <2>2. ASSUME NEW e \in DOMAIN elements, NEW P, pc[t] \in P, Spare(e, P),
               \A u \in Thread : pc'[u] \in P => pc[u] \in P
        PROVE  Spare(e, P)'
    <3>1. PICK s \in elements[e].servers \ elements[e].errorServers :
            \A u \in Thread : element[u] = e /\ pc[u] \in P => mine[u].server # s
      BY <2>2 DEF Spare
    <3>2. e = element[t] => s # mine[t].server
      BY <2>2, <3>1
    <3>3. s \in elements'[e].servers \ elements'[e].errorServers
      BY <1>10, <3>1, <3>2 DEF ErrorStep
    <3> QED
      BY <2>1, <2>2, <3>1, <3>3 DEF Spare
  <2> QED
    BY <1>1, <2>1, <2>2 DEF SpareInv, Answered
<1> QED
  BY <1>2, <1>3, <1>4, <1>5, <1>6, <1>7, <1>8, <1>9, <1>10, StepShapes

(***************************************************************************)
(* Who takes an element out of the queue.                                  *)
(***************************************************************************)

\* When the errors are as many as the servers, then the element is in the
\* queue and unanswered, and no other thread has it.
LEMMA LastError ==
    ASSUME CoreInv, AnswerInv, NEW t \in Thread, ErrorStep(t), pc'[t] = "removeError"
    PROVE  /\ element[t] \in ToSet(queue) /\ ~Answered(element[t])
           /\ \A u \in Thread : u # t /\ element[u] = element[t] => pc[u] \notin Taken
           /\ Range(distribution) \subseteq elements[element[t]].servers
<1>0. /\ QueueTypeOK /\ CallerTypeOK /\ ThreadTypeOK /\ HoldInv /\ ServerAskedOnce
      /\ \A u \in Thread : Holds(u)
  BY DEF CoreInv, P2PTypeOK, HoldInv
<1>1. ServersInv /\ ErrorsInv /\ SpareInv /\ RemoveInv
  BY DEF AnswerInv
<1> DEFINE e == element[t]
           S == elements[e].servers
           E == elements[e].errorServers \cup {mine[t].server}
<1>2. e \in DOMAIN elements /\ Cardinality(E) >= mine[t].countUniqueServers
  <2>1. e \in DOMAIN elements /\ elements'[e].errorServers = E
    BY DEF ErrorStep
  <2> QED
    BY <2>1 DEF ErrorStep
<1>3. pc[t] \in Busy /\ pc[t] \in Acting /\ pc[t] \in Taken /\ e # NoElement
  <2>1. pc[t] \in Busy /\ pc[t] \in Acting /\ pc[t] \in Taken
    BY DEF ErrorStep, Busy, Acting, Taken
  <2> QED
    BY <1>0, <2>1 DEF Holds
<1>4. E \subseteq S
  BY <1>0, <1>1, <1>2 DEF ErrorsInv, Holds
<1>5. S \subseteq Server /\ IsFiniteSet(S)
  <2>1. S \subseteq Server
    BY <1>0, <1>2 DEF QueueTypeOK
  <2> QED
    BY <2>1, ServerFacts, FS_Subset
<1>6. Cardinality(S) <= mine[t].countUniqueServers
  BY <1>1, <1>2 DEF ServersInv
<1> HIDE DEF E, S, e
<1>7. /\ Cardinality(E) \in Nat /\ Cardinality(S) \in Nat
      /\ Cardinality(E) <= Cardinality(S)
      /\ Cardinality(S) = Cardinality(E) => S = E
  BY <1>4, <1>5, FS_Subset, FS_CardinalityType
<1>8. mine[t].countUniqueServers \in Nat
  BY <1>0 DEF ThreadTypeOK, TaskInfo, NoTask
<1>9. S = E /\ mine[t].countUniqueServers = Cardinality(S)
  BY <1>2, <1>6, <1>7, <1>8
<1>10. ASSUME NEW P, pc[t] \in P
       PROVE  ~Spare(e, P)
  BY <1>9, <1>10 DEF Spare, E, S, e
<1>11. e \in ToSet(queue)
  BY <1>1, <1>2, <1>3, <1>10 DEF SpareInv
<1>12. e.task = queueTask
  BY <1>0, <1>11 DEF QueueTypeOK
<1>13. ~Answered(e)
  BY <1>1, <1>2, <1>3, <1>10, <1>12 DEF SpareInv
<1>14. ASSUME NEW u \in Thread, u # t, element[u] = e
       PROVE  pc[u] \notin Taken
  <2>1. mine[u].server # mine[t].server
    BY <1>0, <1>3, <1>14 DEF ServerAskedOnce, e
  <2>2. mine[u].server \in S
    BY <1>0, <1>2, <1>14 DEF Holds, S
  <2>3. mine[u].server \in elements[e].errorServers
    BY <1>9, <2>1, <2>2 DEF E
  <2>4. pc[u] \notin Acting
    BY <1>1, <1>2, <1>14, <2>3 DEF ErrorsInv
  <2>5. pc[u] # "removeError"
    BY <1>1, <1>3, <1>14 DEF RemoveInv, GivesUp, e
  <2> QED
    BY <2>4, <2>5 DEF Taken, Acting
<1>15. Range(distribution) \subseteq S
  <2>1. mine[t].task = queueTask /\ queueTask # 0
    BY <1>0, <1>2, <1>3, <1>12 DEF Holds, e, QueueTypeOK, Element
  <2>2. mine[t].countUniqueServers = Cardinality(Range(distribution))
    BY <1>1, <2>1 DEF ServersInv, OfTask, countUnique
  <2>3. S \subseteq Range(distribution)
    BY <1>1, <1>2, <1>12 DEF ServersInv, S
  <2>4. IsFiniteSet(Range(distribution))
    BY <1>0, DistributionFinite
  <2> QED
    BY <1>9, <2>2, <2>3, <2>4, FS_Subset
<1> QED
  BY <1>11, <1>13, <1>14, <1>15 DEF S, e

LEMMA RemoveInvStep ==
    ASSUME CoreInv, AnswerInv, [P2PNext]_vars
    PROVE  RemoveInv'
<1>0. /\ QueueTypeOK /\ CallerTypeOK /\ ThreadTypeOK /\ HoldInv /\ TaskInv
      /\ \A u \in Thread : Holds(u)
  BY DEF CoreInv, P2PTypeOK, HoldInv
<1>1. ServersInv /\ RemoveInv /\ \A u \in Thread : Removes(u) /\ GivesUp(u)
  BY DEF AnswerInv, RemoveInv
<1>a. ToSet(queue) \subseteq DOMAIN elements /\ NoElement \notin DOMAIN elements
  <2>1. ToSet(queue) \subseteq DOMAIN elements
    BY <1>0 DEF QueueTypeOK, ToSet
  <2> QED
    BY <1>0, <2>1 DEF QueueTypeOK, NoElement, Element
<1>2. CASE QuietStep
  <2>1. /\ UNCHANGED <<queue, elements, queueTask, distribution, answers, element>>
        /\ \A u \in Thread :
            /\ pc'[u] \in Taken => pc[u] \in Taken
            /\ pc'[u] \in {"remove", "removeError"} => pc'[u] = pc[u]
    BY <1>2 DEF QuietStep, Taken
  <2> QED
    BY <1>1, <2>1 DEF RemoveInv, Removes, GivesUp, Answered
<1>3. CASE ProcessStep
  <2>1. \A u \in Thread : pc[u] # "removeError"
    BY <1>1, <1>3 DEF GivesUp, ProcessStep
  <2> QED
    BY <1>3, <2>1 DEF RemoveInv, Removes, GivesUp, ProcessStep
<1>4. ASSUME NEW x, AddStep(x)
      PROVE  RemoveInv'
  <2>1. \A u \in Thread : Removes(u)'
    BY <1>1, <1>4 DEF Removes, Answered, AddStep
  <2>2. ASSUME NEW u \in Thread, pc'[u] = "removeError"
        PROVE  GivesUp(u)'
    <3>1. pc[u] = "removeError" /\ element[u] \in ToSet(queue)
      BY <1>1, <1>4, <2>2 DEF AddStep, GivesUp
    <3>2. elements'[element[u]] = elements[element[u]]
      BY <1>4, <1>a, <3>1 DEF AddStep
    <3> QED
      BY <1>1, <1>4, <3>1, <3>2 DEF AddStep, GivesUp, Answered
  <2> QED
    BY <2>1, <2>2 DEF RemoveInv, GivesUp
<1>5. ASSUME NEW t \in Thread, CopyStep(t)
      PROVE  RemoveInv'
  <2>1. /\ UNCHANGED <<queue, elements, queueTask, distribution, answers>>
        /\ \A u \in Thread :
            /\ u # t => element'[u] = element[u] /\ pc'[u] = pc[u]
            /\ pc'[t] = "getElement" /\ element'[t] = NoElement
    BY <1>5 DEF CopyStep, Moves, queueVars, callerVars
  <2>2. \A u \in Thread : Removes(u)'
    BY <1>1, <2>1 DEF Removes, Answered
  <2>3. ASSUME NEW u \in Thread, pc'[u] = "removeError"
        PROVE  GivesUp(u)'
    <3>1. u # t /\ pc[u] = "removeError" /\ element'[u] = element[u]
      BY <2>1, <2>3
    <3>2. element[u] # NoElement
      BY <1>1, <1>a, <3>1 DEF GivesUp
    <3> QED
      BY <1>1, <2>1, <3>1, <3>2 DEF GivesUp, Answered
  <2> QED
    BY <2>2, <2>3 DEF RemoveInv, GivesUp
<1>6. ASSUME NEW t \in Thread, NEW x, GetStep(t, x)
      PROVE  RemoveInv'
  <2>1. /\ UNCHANGED <<queueTask, distribution, answers>>
        /\ ToSet(queue') = ToSet(queue) /\ pc'[t] = "got" /\ element'[t] = x
        /\ \A u \in Thread : u # t => element'[u] = element[u] /\ pc'[u] = pc[u]
        /\ \A e \in DOMAIN elements : elements[e].servers \subseteq elements'[e].servers
    BY <1>6 DEF GetStep, Moves, callerVars
  <2>2. \A u \in Thread : Removes(u)'
    BY <1>1, <2>1 DEF Removes, Answered
  <2>3. ASSUME NEW u \in Thread, pc'[u] = "removeError"
        PROVE  GivesUp(u)'
    <3>1. u # t /\ pc[u] = "removeError" /\ element'[u] = element[u]
      BY <2>1, <2>3
    <3>2. mine[t].server \in Range(distribution)
      BY <1>1, <1>6 DEF ServersInv, OfTask, GetStep
    <3>3. element[u] # x
      BY <1>1, <1>6, <3>1, <3>2 DEF GivesUp, GetStep
    <3>4. /\ element[u] \in ToSet(queue) /\ ~Answered(element[u])
          /\ \A v \in Thread : v # u /\ element[v] = element[u] => pc[v] \notin Taken
          /\ Range(distribution) \subseteq elements[element[u]].servers
      BY <1>1, <3>1 DEF GivesUp
    <3>5. \A v \in Thread : v # u /\ element'[v] = element'[u] => pc'[v] \notin Taken
      BY <2>1, <3>1, <3>3, <3>4
    <3>6. Range(distribution') \subseteq elements'[element'[u]].servers
      BY <1>a, <2>1, <3>1, <3>4
    <3> QED
      BY <2>1, <3>1, <3>4, <3>5, <3>6 DEF GivesUp, Answered
  <2> QED
    BY <2>2, <2>3 DEF RemoveInv, GivesUp
<1>7. ASSUME NEW t \in Thread, PeekStep(t)
      PROVE  RemoveInv'
  <2>1. /\ UNCHANGED <<queue, queueTask, distribution, answers, element>>
        /\ \A u \in Thread :
            /\ pc'[u] \in Taken => pc[u] \in Taken
            /\ pc'[u] \in {"remove", "removeError"} => pc'[u] = pc[u]
    BY <1>7 DEF PeekStep, Moves, Taken, Busy, callerVars
  <2>2. ToSet(queue) \subseteq DOMAIN elements'
    <3>1. queue' \in Seq(DOMAIN elements')
      BY <1>7, P2PNextTypes DEF P2PTypeOK, QueueTypeOK
    <3> QED
      BY <2>1, <3>1 DEF ToSet
  <2>3. \A e \in DOMAIN elements' : elements'[e] = elements[e]
    BY <1>7 DEF PeekStep, Shrinks
  <2> QED
    BY <1>1, <2>1, <2>2, <2>3 DEF RemoveInv, Removes, GivesUp, Answered
<1>8. ASSUME NEW t \in Thread, RespondStep(t)
      PROVE  RemoveInv'
  <2>1. /\ UNCHANGED <<queue, elements, queueTask, distribution, element>>
        /\ pc'[t] = "remove" /\ pc[t] \in Taken
        /\ \A u \in Thread : u # t => pc'[u] = pc[u]
    BY <1>8 DEF RespondStep, Moves, Taken, Busy, queueVars
  <2>2. NoServer \notin Server
    BY ServerFacts
  <2>3. \A u \in Thread : element[u].task = queueTask /\ element[u] # NoElement =>
            element[u].pos \in 1..Len(segments)
    BY <1>0 DEF Holds, ThreadTypeOK, Element, CallerTypeOK
  <2>4. ASSUME NEW u \in Thread, pc'[u] = "remove", element[u].task = queueTask
        PROVE  answers'[element[u].pos] # NoServer
    <3>1. element[u] # NoElement
      BY <1>0, <2>1, <2>4 DEF Holds, Taken
    <3>2. CASE element[u].pos = element[t].pos
      BY <1>8, <2>2, <2>3, <2>4, <3>1, <3>2 DEF RespondStep
    <3>3. CASE element[u].pos # element[t].pos
      <4>1. pc[u] = "remove"
        BY <2>1, <2>4, <3>3
      <4>2. answers[element[u].pos] # NoServer
        BY <1>1, <2>4, <4>1 DEF Removes, Answered
      <4> QED
        BY <1>8, <2>3, <2>4, <3>1, <3>3, <4>2 DEF RespondStep
    <3> QED
      BY <3>2, <3>3
  <2>5. ASSUME NEW u \in Thread, pc'[u] = "removeError"
        PROVE  GivesUp(u)'
    <3>1. u # t /\ pc[u] = "removeError"
      BY <2>1, <2>5
    <3>2. /\ element[u] \in ToSet(queue) /\ ~Answered(element[u])
          /\ \A v \in Thread : v # u /\ element[v] = element[u] => pc[v] \notin Taken
          /\ Range(distribution) \subseteq elements[element[u]].servers
      BY <1>1, <3>1 DEF GivesUp
    <3>3. element[u].task = queueTask /\ element[u] # element[t]
      BY <1>0, <2>1, <3>1, <3>2 DEF QueueTypeOK
    <3>4. element[t] \in Element /\ element[u] \in Element
      BY <1>0, <1>a, <2>1, <3>2 DEF Holds, ThreadTypeOK, QueueTypeOK
    <3>5. element[u].pos # element[t].pos
      BY <1>8, <3>3, <3>4 DEF RespondStep, Element
    <3>6. element[u].pos \in 1..Len(segments)
      BY <1>a, <2>3, <3>2, <3>3
    <3>7. ~Answered(element[u])'
      BY <1>8, <2>1, <3>2, <3>5, <3>6 DEF Answered, RespondStep
    <3> QED
      BY <2>1, <3>1, <3>2, <3>7 DEF GivesUp, Taken
  <2> QED
    BY <2>1, <2>4, <2>5 DEF RemoveInv, Removes, GivesUp, Answered
<1>9. ASSUME NEW t \in Thread, RemoveStep(t)
      PROVE  RemoveInv'
  <2>1. /\ UNCHANGED <<queueTask, distribution, answers, element>>
        /\ ToSet(queue') = ToSet(queue) \ {element[t]}
        /\ pc[t] \in Taken /\ pc'[t] = "loop"
        /\ \A u \in Thread : u # t => pc'[u] = pc[u]
    BY <1>9 DEF RemoveStep, Moves, Taken, callerVars
  <2>2. ToSet(queue') \subseteq DOMAIN elements'
    <3>1. queue' \in Seq(DOMAIN elements')
      BY P2PNextTypes DEF P2PTypeOK, QueueTypeOK
    <3> QED
      BY <3>1 DEF ToSet
  <2>3. \A e \in DOMAIN elements' : elements'[e] = elements[e]
    BY <1>9 DEF RemoveStep, Shrinks
  <2>4. \A u \in Thread : Removes(u)'
    BY <1>1, <2>1 DEF Removes, Answered
  <2>5. ASSUME NEW u \in Thread, pc'[u] = "removeError"
        PROVE  GivesUp(u)'
    <3>1. u # t /\ pc[u] = "removeError"
      BY <2>1, <2>5
    <3>2. /\ element[u] \in ToSet(queue) /\ ~Answered(element[u])
          /\ \A v \in Thread : v # u /\ element[v] = element[u] => pc[v] \notin Taken
          /\ Range(distribution) \subseteq elements[element[u]].servers
      BY <1>1, <3>1 DEF GivesUp
    <3>3. element[u] \in ToSet(queue')
      BY <2>1, <3>1, <3>2
    <3>4. "loop" \notin Taken
      BY DEF Taken, Busy
    <3> QED
      BY <2>1, <2>2, <2>3, <3>1, <3>2, <3>3, <3>4 DEF GivesUp, Answered
  <2> QED
    BY <2>4, <2>5 DEF RemoveInv, GivesUp
<1>10. ASSUME NEW t \in Thread, ErrorStep(t)
       PROVE  RemoveInv'
  <2>1. /\ UNCHANGED <<queue, queueTask, distribution, answers, element>>
        /\ pc[t] \in Taken /\ pc'[t] \in {"loop", "removeError"}
        /\ \A u \in Thread : u # t => pc'[u] = pc[u]
        /\ DOMAIN elements' = DOMAIN elements
        /\ \A e \in DOMAIN elements : elements'[e].servers = elements[e].servers
    BY <1>10 DEF ErrorStep, Taken, Busy, callerVars
  <2>2. \A u \in Thread : Removes(u)'
    BY <1>1, <2>1 DEF Removes, Answered
  <2>3. ASSUME NEW u \in Thread, pc'[u] = "removeError"
        PROVE  GivesUp(u)'
    <3>1. /\ element[u] \in ToSet(queue) /\ ~Answered(element[u])
          /\ \A v \in Thread : v # u /\ element[v] = element[u] => pc[v] \notin Taken
          /\ Range(distribution) \subseteq elements[element[u]].servers
      <4>1. CASE u = t
        BY <1>10, <2>3, <4>1, LastError
      <4>2. CASE u # t
        BY <1>1, <2>1, <2>3, <4>2 DEF GivesUp
      <4> QED
        BY <4>1, <4>2
    <3>2. u # t => element[u] # element[t]
      BY <2>1, <3>1
    <3>3. \A v \in Thread : v # u /\ element[v] = element[u] => pc'[v] \notin Taken
      BY <2>1, <3>1, <3>2
    <3> QED
      BY <1>a, <2>1, <3>1, <3>3 DEF GivesUp, Answered
  <2> QED
    BY <2>2, <2>3 DEF RemoveInv, GivesUp
<1> QED
  BY <1>2, <1>3, <1>4, <1>5, <1>6, <1>7, <1>8, <1>9, <1>10, StepShapes

(***************************************************************************)
(* What becomes of the segments.                                           *)
(***************************************************************************)

\* A lost segment stays lost while no thread comes to it.
LEMMA LostKept ==
    ASSUME NEW i, Lost(i), queueTask' = queueTask, answers'[i] = answers[i],
           Segment(i) \notin ToSet(queue'),
           \A u \in Thread : pc'[u] \in Busy /\ element'[u] = Segment(i) =>
                pc[u] \in Busy /\ element[u] = Segment(i)
    PROVE  Lost(i)'
BY DEF Lost, Segment

LEMMA ResultStep ==
    ASSUME CoreInv, AnswerInv, [P2PNext]_vars
    PROVE  ResultInv'
<1>0. /\ QueueTypeOK /\ CallerTypeOK /\ ThreadTypeOK /\ HoldInv /\ TaskInv
      /\ \A u \in Thread : Holds(u)
  BY DEF CoreInv, P2PTypeOK, HoldInv
<1>1. /\ RemoveInv /\ ResultInv /\ NoneForgotten /\ SuccessMeansAnswered
      /\ callerPc = "error" => added = Len(segments)
      /\ \A i \in (added + 1)..Len(segments) : answers[i] = NoServer
      /\ isError \/ result = "error" => \E i \in 1..added : Lost(i)
  BY DEF AnswerInv, ResultInv
<1>a. /\ added \in Nat /\ Len(segments) \in Nat /\ added <= Len(segments)
      /\ DOMAIN answers = 1..Len(segments)
  BY <1>0 DEF CallerTypeOK
<1>b. ASSUME NEW e \in Element, e.task = queueTask
      PROVE  e = Segment(e.pos) /\ e.pos \in Nat \ {0}
  BY <1>b DEF Element, Segment
<1>c. ToSet(queue) \subseteq Element
  BY <1>0 DEF QueueTypeOK, ToSet
<1>2. ASSUME QuietStep
      PROVE  /\ UNCHANGED <<queue, queueTask, answers, added, segments>>
             /\ \A i : Lost(i) => Lost(i)'
             /\ \A i \in (added' + 1)..Len(segments') : answers'[i] = NoServer
  BY <1>1, <1>2 DEF QuietStep, Lost, Segment
<1>3. CASE QuietStep /\ UNCHANGED <<isError, callerPc, result>>
  BY <1>1, <1>2, <1>3 DEF ResultInv, NoneForgotten, SuccessMeansAnswered, Segment
<1>4. CASE WaitEmpty
  <2>1. QuietStep
    BY <1>0, <1>4, QuietSteps
  <2>2. /\ UNCHANGED <<isError, result>> /\ callerPc = "newTasks" /\ callerPc' = "error"
        /\ added = Len(segments)
    BY <1>4 DEF WaitEmpty, queueVars
  <2> QED
    BY <1>1, <1>2, <2>1, <2>2
      DEF ResultInv, NoneForgotten, SuccessMeansAnswered, Segment
<1>5. CASE ReadError
  <2>1. QuietStep
    BY <1>0, <1>5, QuietSteps
  <2>2. /\ isError' = isError /\ callerPc = "error" /\ callerPc' = "destroy"
        /\ result' = IF isError THEN "error" ELSE "ok"
    BY <1>5 DEF ReadError, queueVars
  <2>3. ToSet(queue) = {}
    BY <1>0, <2>2 DEF TaskInv, ToSet
  <2>4. ~isError => \A i \in 1..Len(segments) : answers[i] # NoServer
    BY <1>1, <2>2, <2>3 DEF NoneForgotten
  <2>5. SuccessMeansAnswered'
    BY <1>2, <1>a, <2>1, <2>2, <2>4 DEF SuccessMeansAnswered
  <2>6. isError' \/ result' = "error" => \E i \in 1..added' : Lost(i)'
    BY <1>1, <1>2, <2>1, <2>2
  <2> QED
    BY <1>2, <2>1, <2>2, <2>5, <2>6 DEF ResultInv, NoneForgotten
<1>6. CASE Destroy \/ Stop
  <2>1. QuietStep
    BY <1>0, <1>6, QuietSteps
  <2>2. /\ UNCHANGED result /\ callerPc' \in {"stop", "idle"}
        /\ isError' = isError \/ isError' = FALSE
    BY <1>6 DEF Destroy, Stop, queueVars
  <2>3. isError' \/ result' = "error" => \E i \in 1..added' : Lost(i)'
    BY <1>1, <1>2, <2>1, <2>2
  <2> QED
    BY <1>1, <1>2, <2>1, <2>2, <2>3 DEF ResultInv, NoneForgotten, SuccessMeansAnswered
<1>7. CASE ProcessStep
  BY <1>7 DEF ResultInv, NoneForgotten, SuccessMeansAnswered, ProcessStep
<1>8. ASSUME NEW x, AddStep(x), callerPc = "newTasks"
      PROVE  ResultInv'
  <2>1. /\ ToSet(queue') = ToSet(queue) \cup {x} /\ added' = added + 1
        /\ added < Len(segments)
        /\ x = Segment(added + 1)
        /\ UNCHANGED <<isError, queueTask, callerPc, segments, answers, result, pc,
                       element>>
    BY <1>8 DEF AddStep, Segment
  <2>2. NoneForgotten'
    <3>1. ASSUME NEW i \in 1..added'
          PROVE  answers'[i] # NoServer \/ Segment(i)' \in ToSet(queue') \/ isError'
      <4>1. CASE i = added + 1
        BY <2>1, <4>1 DEF Segment
      <4>2. CASE i # added + 1
        <5>1. i \in 1..added
          BY <1>a, <2>1, <4>2
        <5> QED
          BY <1>1, <1>8, <2>1, <5>1 DEF NoneForgotten, Segment
      <4> QED
        BY <4>1, <4>2
    <3> QED
      BY <3>1 DEF NoneForgotten
  <2>3. \A i \in (added' + 1)..Len(segments') : answers'[i] = NoServer
    BY <1>1, <1>a, <2>1
  <2>4. ASSUME NEW i \in 1..added, Lost(i)
        PROVE  i \in 1..added' /\ Lost(i)'
    <3>1. Segment(i) # x
      BY <1>a, <2>1 DEF Segment
    <3>2. Segment(i) \notin ToSet(queue')
      BY <2>1, <2>4, <3>1 DEF Lost
    <3>3. Lost(i)'
      BY <2>1, <2>4, <3>2, LostKept
    <3> QED
      BY <1>a, <2>1, <3>3
  <2>5. SuccessMeansAnswered'
    BY <1>1, <2>1 DEF SuccessMeansAnswered
  <2>6. callerPc' # "error"
    BY <1>8, <2>1
  <2> QED
    BY <1>1, <2>1, <2>2, <2>3, <2>4, <2>5, <2>6 DEF ResultInv
<1>9. ASSUME NEW t \in Thread, CopyStep(t) \/ PeekStep(t)
      PROVE  ResultInv'
  <2>1. /\ UNCHANGED <<queue, isError, queueTask, callerPc, added, segments, answers,
                       result>>
        /\ \A u \in Thread : pc'[u] \in Busy =>
            pc[u] \in Busy /\ element'[u] = element[u]
    BY <1>9 DEF CopyStep, PeekStep, Moves, Busy, queueVars, callerVars
  <2>2. \A i : Lost(i) => Lost(i)'
    BY <2>1 DEF Lost, Segment
  <2> QED
    BY <1>1, <2>1, <2>2 DEF ResultInv, NoneForgotten, SuccessMeansAnswered, Segment
<1>10. ASSUME NEW t \in Thread, NEW x, GetStep(t, x)
       PROVE  ResultInv'
  <2>1. /\ UNCHANGED <<isError, queueTask, callerPc, added, segments, answers, result>>
        /\ ToSet(queue') = ToSet(queue) /\ x \in ToSet(queue)
        /\ \A u \in Thread :
            element'[u] = x \/ (element'[u] = element[u] /\ pc'[u] = pc[u])
    BY <1>10 DEF GetStep, Moves, callerVars
  <2>2. \A i : Lost(i) => Lost(i)'
    BY <2>1 DEF Lost, Segment
  <2> QED
    BY <1>1, <2>1, <2>2 DEF ResultInv, NoneForgotten, SuccessMeansAnswered, Segment
<1>11. ASSUME NEW t \in Thread, RespondStep(t)
       PROVE  ResultInv'
  <2>1. /\ UNCHANGED <<queue, isError, queueTask, callerPc, added, segments, result,
                       element>>
        /\ \A u \in Thread : pc'[u] \in Busy => pc[u] \in Busy
        /\ pc[t] \in Busy /\ element[t].task = queueTask
    BY <1>11 DEF RespondStep, Moves, Busy, queueVars
  <2>2. NoServer \notin Server
    BY ServerFacts
  <2>3. \A i \in 1..Len(segments) : answers[i] # NoServer => answers'[i] # NoServer
    BY <1>11 DEF RespondStep
  <2>4. element[t].pos \in 1..added
    BY <1>11 DEF RespondStep
  <2>5. \A i \in (added + 1)..Len(segments) : answers'[i] = NoServer
    BY <1>1, <1>11, <1>a, <2>4 DEF RespondStep
  <2>6. ASSUME NEW i \in 1..added, Lost(i)
        PROVE  Lost(i)'
    <3>1. element[t] \in Element
      <4>1. element[t] # NoElement
        BY <1>0, <2>1 DEF Holds, Taken
      <4> QED
        BY <1>0, <4>1 DEF ThreadTypeOK
    <3>2. element[t] = Segment(element[t].pos)
      BY <1>b, <2>1, <3>1
    <3>3. i # element[t].pos
      BY <2>1, <2>6, <3>2 DEF Lost
    <3>4. answers'[i] = answers[i]
      BY <1>11, <1>a, <3>3 DEF RespondStep
    <3>5. Segment(i) \notin ToSet(queue')
      BY <2>1, <2>6 DEF Lost
    <3> QED
      BY <2>1, <2>6, <3>4, <3>5, LostKept
  <2>7. NoneForgotten'
    BY <1>1, <1>a, <2>1, <2>3 DEF NoneForgotten, Segment
  <2>8. SuccessMeansAnswered'
    <3>1. DOMAIN answers' = 1..Len(segments)
      BY <2>1, P2PNextTypes DEF P2PTypeOK, CallerTypeOK
    <3> QED
      BY <1>1, <1>a, <2>1, <2>3, <3>1 DEF SuccessMeansAnswered
  <2> QED
    BY <1>1, <2>1, <2>5, <2>6, <2>7, <2>8 DEF ResultInv
<1>12. ASSUME NEW t \in Thread, RemoveStep(t)
       PROVE  ResultInv'
  <2>1. /\ UNCHANGED <<queueTask, callerPc, added, segments, answers, result, element>>
        /\ ToSet(queue') = ToSet(queue) \ {element[t]}
        /\ pc[t] \in {"remove", "removeError"} /\ pc'[t] \notin Busy
        /\ \A u \in Thread : pc'[u] \in Busy => pc[u] \in Busy /\ u # t
        /\ isError' = IF pc[t] = "remove" THEN isError ELSE TRUE
    BY <1>12 DEF RemoveStep, Moves, Busy, callerVars
  <2>2. \A i : Lost(i) => Lost(i)'
    BY <2>1 DEF Lost, Segment
  <2>3. CASE pc[t] = "remove"
    <3>1. ASSUME NEW i, element[t] = Segment(i)
          PROVE  answers[i] # NoServer
      BY <1>1, <2>3, <3>1 DEF RemoveInv, Removes, Answered, Segment
    <3>2. NoneForgotten'
      BY <1>1, <2>1, <2>3, <3>1 DEF NoneForgotten, Segment
    <3> QED
      BY <1>1, <2>1, <2>2, <2>3, <3>2 DEF ResultInv, SuccessMeansAnswered
  <2>4. CASE pc[t] = "removeError"
    <3>0. PICK i : i = element[t].pos
      OBVIOUS
    <3>1. /\ element[t] \in ToSet(queue) /\ answers[i] = NoServer
          /\ \A u \in Thread : u # t /\ element[u] = element[t] => pc[u] \notin Taken
      BY <1>1, <2>4, <3>0 DEF RemoveInv, GivesUp, Answered
    <3>2. element[t] = Segment(i) /\ i \in Nat \ {0}
      BY <1>0, <1>b, <1>c, <3>0, <3>1 DEF QueueTypeOK
    <3>3. i \in 1..added
      BY <1>0, <1>a, <3>0, <3>1, <3>2 DEF HoldInv
    <3>4. \A u \in Thread : pc'[u] \in Busy => element[u] # Segment(i)
      BY <2>1, <3>1, <3>2 DEF Taken
    <3>5. Lost(i)'
      BY <2>1, <3>1, <3>2, <3>4 DEF Lost, Segment
    <3>6. isError' = TRUE
      BY <2>1, <2>4
    <3>7. NoneForgotten'
      BY <3>6 DEF NoneForgotten
    <3> QED
      BY <1>1, <2>1, <3>3, <3>5, <3>7 DEF ResultInv, SuccessMeansAnswered
  <2> QED
    BY <2>1, <2>3, <2>4
<1>13. ASSUME NEW t \in Thread, ErrorStep(t)
       PROVE  ResultInv'
  <2>1. /\ UNCHANGED <<queue, isError, queueTask, callerPc, added, segments, answers,
                       result, element>>
        /\ \A u \in Thread : pc'[u] \in Busy => pc[u] \in Busy
    BY <1>13 DEF ErrorStep, Busy, callerVars
  <2>2. \A i : Lost(i) => Lost(i)'
    BY <2>1 DEF Lost, Segment
  <2> QED
    BY <1>1, <2>1, <2>2 DEF ResultInv, NoneForgotten, SuccessMeansAnswered, Segment
<1>14. CASE UNCHANGED vars \/ NewTask \/ NoMoreTasks \/ \E t \in Thread : \E to : PcMove(t, to)
  <2>1. QuietStep
    BY <1>0, <1>14, QuietSteps
  <2>2. UNCHANGED <<isError, callerPc, result>>
    BY <1>14 DEF NewTask, NoMoreTasks, PcMove, vars, queueVars, callerVars
  <2> QED
    BY <1>3, <2>1, <2>2
<1>15. CASE Caller
  <2>1. AddElement => callerPc = "newTasks" /\ \E e : AddStep(e)
    BY CallerShapes DEF AddElement
  <2>2. \A r \in Requests, hint \in Server : Process(r, hint) => ProcessStep
    BY CallerShapes
  <2> QED
    BY <1>4, <1>5, <1>6, <1>7, <1>8, <1>14, <1>15, <2>1, <2>2 DEF Caller
<1>16. ASSUME NEW t \in Thread, Work(t)
       PROVE  ResultInv'
  <2>1. CASE \/ GetClosed(t) \/ Unpark(t) \/ PeekLock(t) \/ MakeBegin(t)
             \/ MakeEnd(t) \/ RequestFails(t) \/ RespondBegin(t) \/ RespondFails(t)
    <3>1. \E to : PcMove(t, to)
      BY <2>1, PcMoves
    <3> QED
      BY <1>14, <3>1
  <2>2. CASE \/ Copy(t) \/ GetElement(t) \/ PeekDone(t) \/ RespondEnd(t)
             \/ RemoveElement(t) \/ ErrorElement(t) \/ RemoveElementError(t)
    BY <1>9, <1>10, <1>11, <1>12, <1>13, <2>2, ThreadShapes
  <2> QED
    BY <1>16, <2>1, <2>2 DEF Work
<1> QED
  BY <1>14, <1>15, <1>16 DEF P2PNext

(***************************************************************************)
(* The theorems.                                                           *)
(***************************************************************************)

LEMMA AnswerInit == P2PInit => AnswerInv
<1> SUFFICES ASSUME P2PInit PROVE AnswerInv
  OBVIOUS
<1>1. /\ ToSet(queue) = {} /\ DOMAIN elements = {} /\ added = 0 /\ Len(segments) = 0
      /\ isError = FALSE /\ result = "none" /\ callerPc = "idle"
      /\ \A t \in Thread : /\ pc[t] = "unborn" /\ element[t] = NoElement
                            /\ told[t] = NoTask /\ mine[t] = NoTask
  BY DEF P2PInit, ToSet
<1>2. ServersInv
  BY <1>1 DEF ServersInv, OfTask, NoTask, NoElement
<1>3. ErrorsInv /\ SpareInv /\ RemoveInv
  BY <1>1 DEF ErrorsInv, SpareInv, RemoveInv, Removes, GivesUp
<1>4. ResultInv
  BY <1>1 DEF ResultInv, NoneForgotten, SuccessMeansAnswered
<1> QED
  BY <1>2, <1>3, <1>4 DEF AnswerInv

\* The inductive invariant.
THEOREM P2PInvariant == P2PSpec => []P2PInv
<1>1. P2PInit => P2PInv
  BY TypeInit, TaskInit, HoldInit, AnswerInit DEF P2PInv
<1>2. P2PInv /\ [P2PNext]_vars => P2PInv'
  <2> SUFFICES ASSUME P2PInv, [P2PNext]_vars PROVE P2PInv'
    OBVIOUS
  <2>1. CoreInv /\ AnswerInv /\ ServersInv /\ ErrorsInv
    BY DEF P2PInv, CoreInv, AnswerInv
  <2>2. P2PTypeOK' /\ TaskInv' /\ HoldInv'
    BY <2>1, P2PNextTypes, TaskStep, HoldStep
  <2>3. AnswerInv'
    BY <2>1, ServersStep, ErrorsStep, SpareStep, RemoveInvStep, ResultStep DEF AnswerInv
  <2> QED
    BY <2>2, <2>3 DEF P2PInv
<1> QED
  BY <1>1, <1>2, PTL DEF P2PSpec

\* The state of the request has its type.
THEOREM P2PTypes == P2PSpec => []P2PTypeOK
<1>1. P2PInv => P2PTypeOK
  BY DEF P2PInv
<1> QED
  BY <1>1, P2PInvariant, PTL

\* What a call returns is what became of its segments: it succeeds only with
\* an answer for each, and fails only when one could be had from no server,
\* whatever the order of answers, errors and late threads.
THEOREM ResultTrue == P2PSpec => []ResultIsTrue
<1>1. P2PInv => ResultIsTrue
  <2> SUFFICES ASSUME P2PInv PROVE ResultIsTrue
    OBVIOUS
  <2>1. SuccessMeansAnswered /\ (result = "error" => \E i \in 1..added : Lost(i))
    BY DEF P2PInv, AnswerInv, ResultInv
  <2>2. added \in 0..Len(segments) /\ Len(segments) \in Nat
        /\ DOMAIN answers = 1..Len(segments)
    BY DEF P2PInv, P2PTypeOK, CallerTypeOK
  <2>3. FailureMeansUnanswered
    BY <2>1, <2>2 DEF FailureMeansUnanswered, Lost
  <2> QED
    BY <2>1, <2>3 DEF ResultIsTrue
<1> QED
  BY <1>1, P2PInvariant, PTL

\* The functions of the caller only run while the call they belong to has not
\* returned.
THEOREM CallbacksInTask == P2PSpec => []CallbackInTask
<1>1. P2PInv => CallbackInTask
  BY DEF P2PInv, TaskInv, CallbackInTask
<1> QED
  BY <1>1, P2PInvariant, PTL

\* A server is asked for a segment once.
THEOREM AskedOnce == P2PSpec => []ServerAskedOnce
<1>1. P2PInv => ServerAskedOnce
  BY DEF P2PInv, HoldInv
<1> QED
  BY <1>1, P2PInvariant, PTL

\* The segments of a request follow one another from its first byte to its
\* last, and none is empty: for every size and every number of connections.
THEOREM SegmentsCovered == P2PSpec => []SegmentsCover
<1>1. P2PInit => SegmentsCover
  BY DEF P2PInit, SegmentsCover
<1>2. SegmentsCover /\ [P2PNext]_vars => SegmentsCover'
  <2> SUFFICES ASSUME SegmentsCover, [P2PNext]_vars PROVE SegmentsCover'
    OBVIOUS
  <2>1. ASSUME NEW r \in Requests, NEW hint \in Server, Process(r, hint)
        PROVE  SegmentsCover'
    <3> DEFINE count == countSegments(r)
               segs == makeSegments(count, r.size, r.minSize)
    <3>1. segments' = segs
      BY <2>1 DEF Process
    <3>2. /\ count \in Nat \ {0} /\ Len(segs) = count
          /\ segs \in Seq([fromByte : Nat, toByte : Nat])
          /\ segs[1].fromByte = 0 /\ segs[count].toByte = r.size
          /\ \A i \in 1..count : segs[i].fromByte < segs[i].toByte
          /\ \A i \in 2..count : segs[i].fromByte = segs[i - 1].toByte
      BY SegmentsFacts
    <3> HIDE DEF segs
    <3>3. DOMAIN segs = 1..count
      BY <3>2
    <3> QED
      BY <3>1, <3>2, <3>3 DEF SegmentsCover
  <2>2. CASE UNCHANGED segments
    BY <2>2 DEF SegmentsCover
  <2>3. CASE Caller
    BY <2>1, <2>2, <2>3 DEF Caller, NewTask, AddElement, WaitEmpty, ReadError,
       Destroy, Stop, NoMoreTasks, callerVars, vars
  <2>4. ASSUME NEW t \in Thread, Work(t)
        PROVE  UNCHANGED segments
    BY <2>4 DEF Work, Copy, GetElement, GetClosed, Unpark, PeekLock, PeekDone,
       MakeBegin, MakeEnd, RequestFails, RespondBegin, RespondEnd, RespondFails,
       RemoveElement, ErrorElement, RemoveElementError, callerVars
  <2> QED
    BY <2>2, <2>3, <2>4 DEF P2PNext, vars, callerVars
<1> QED
  BY <1>1, <1>2, PTL DEF P2PSpec

(***************************************************************************)
(* No element is erased twice where two servers at most are asked.         *)
(***************************************************************************)

\* In P2P_Graph each task has one server.
OneServer ==
    /\ countUnique(distribution) <= 1
    /\ \A t \in Thread : told[t].countUniqueServers <= 1 /\ mine[t].countUniqueServers <= 1

\* Range of a constant function, and of the empty one.
LEMMA ConstantRange ==
    ASSUME NEW d, NEW x, \A t \in DOMAIN d : d[t] = x
    PROVE  Cardinality(Range(d)) <= 1
<1>1. Range(d) \subseteq {x}
  BY DEF Range
<1>2. IsFiniteSet({x}) /\ Cardinality({x}) = 1
  BY FS_Singleton
<1> QED
  BY <1>1, <1>2, FS_Subset

LEMMA OneServerInit == P2PInit => OneServer
<1> SUFFICES ASSUME P2PInit PROVE OneServer
  OBVIOUS
<1>1. Cardinality(Range(distribution)) <= 1
  <2>1. \A t \in DOMAIN distribution : distribution[t] = NoServer
    BY DEF P2PInit
  <2> QED
    BY <2>1, ConstantRange
<1> QED
  BY <1>1 DEF P2PInit, OneServer, countUnique, NoTask

LEMMA OneServerStep ==
    ASSUME IsGraph, CallerTypeOK, ThreadTypeOK, OneServer, [P2PNext]_vars
    PROVE  OneServer'
<1>1. ASSUME NEW r \in Requests, NEW hint \in Server, Process(r, hint)
      PROVE  OneServer'
  <2> DEFINE count == countSegments(r)
             d == getServersList(count, hint)
  <2>1. count \in Nat \ {0}
    BY StepFacts
  <2>2. \A t \in DOMAIN d : d[t] = hint
    BY <2>1, ServersListFacts
  <2>3. Cardinality(Range(d)) <= 1
    <3> HIDE DEF d
    <3> QED
      BY <2>2, ConstantRange
  <2>4. distribution' = d /\ UNCHANGED <<told, mine>>
    <3>1. Len(makeSegments(count, r.size, r.minSize)) = count
      BY SegmentsFacts
    <3> QED
      BY <1>1, <3>1 DEF Process, threadVars
  <2> QED
    BY <2>3, <2>4 DEF OneServer, countUnique
<1>2. ASSUME UNCHANGED <<distribution, mine>>, UNCHANGED told
      PROVE  OneServer'
  BY <1>2 DEF OneServer, countUnique
<1>3. CASE NewTask
  <2> DEFINE n == countUnique(distribution)
  <2>1. UNCHANGED <<distribution, mine>>
    BY <1>3 DEF NewTask, callerVars
  <2>2. ASSUME NEW t \in Thread PROVE told'[t].countUniqueServers <= 1
    BY <1>3 DEF NewTask, ThreadTypeOK, TaskInfo, OneServer
  <2> QED
    BY <2>1, <2>2 DEF OneServer, countUnique
<1>4. ASSUME NEW t \in Thread, Copy(t)
      PROVE  OneServer'
  BY <1>4 DEF Copy, callerVars, ThreadTypeOK, OneServer, countUnique
<1>5. CASE Caller
  BY <1>1, <1>2, <1>3, <1>5 DEF Caller, AddElement, WaitEmpty, ReadError,
     Destroy, Stop, NoMoreTasks, callerVars, threadVars, vars
<1>6. ASSUME NEW t \in Thread, Work(t)
      PROVE  OneServer'
  <2>1. CASE Copy(t)
    BY <1>4, <2>1
  <2>2. CASE ~Copy(t)
    BY <1>2, <1>6, <2>2 DEF Work, GetElement, GetClosed, Unpark, PeekLock, PeekDone,
       MakeBegin, MakeEnd, RequestFails, RespondBegin, RespondEnd, RespondFails,
       RemoveElement, ErrorElement, RemoveElementError, callerVars
  <2> QED
    BY <2>1, <2>2
<1> QED
  BY <1>2, <1>5, <1>6 DEF P2PNext, vars, callerVars, threadVars

\* Three servers are more than two.
LEMMA ThreeServers ==
    ASSUME NEW S, IsFiniteSet(S), NEW a \in S, NEW b \in S, NEW c \in S,
           a # b, a # c, b # c
    PROVE  Cardinality(S) >= 3
<1>1. IsFiniteSet({a}) /\ Cardinality({a}) = 1
  BY FS_Singleton
<1>2. IsFiniteSet({a} \cup {b}) /\ Cardinality({a} \cup {b}) = 2
  <2>1. b \notin {a}
    OBVIOUS
  <2> QED
    BY <1>1, <2>1, FS_AddElement
<1>3. Cardinality({a} \cup {b} \cup {c}) = 3 /\ IsFiniteSet({a} \cup {b} \cup {c})
  <2>1. c \notin {a} \cup {b}
    OBVIOUS
  <2> QED
    BY <1>2, <2>1, FS_AddElement
<1>4. {a} \cup {b} \cup {c} \subseteq S
  OBVIOUS
<1> QED
  BY <1>3, <1>4, FS_Subset, FS_CardinalityType

\* A thread that removes an element which is out of the queue, though not out
\* of memory, leaves three servers that have it: its own, the one of the
\* thread that looks at it, and the one that answered first.
LEMMA RemovesFromQueue ==
    ASSUME P2PInv, NEW t \in Thread, pc[t] \in {"remove", "removeError"},
           element[t] \in DOMAIN elements, element[t] \notin ToSet(queue)
    PROVE  /\ Cardinality(elements[element[t]].servers) >= 3
           /\ Cardinality(elements[element[t]].servers) <= mine[t].countUniqueServers
           /\ elements[element[t]].servers \subseteq Server
<1> DEFINE e == element[t]
           S == elements[e].servers
<1>0. /\ QueueTypeOK /\ ThreadTypeOK /\ HoldInv /\ ServersInv /\ SpareInv /\ RemoveInv
      /\ \A u \in Thread : Holds(u)
  BY DEF P2PInv, P2PTypeOK, AnswerInv, HoldInv
<1>1. pc[t] = "remove"
  BY <1>0 DEF RemoveInv, GivesUp
<1>2. S \subseteq Server /\ IsFiniteSet(S)
  <2>1. S \subseteq Server
    BY <1>0 DEF QueueTypeOK
  <2> QED
    BY <2>1, ServerFacts, FS_Subset
<1>3. PICK u \in Thread : pc[u] = "peeking" /\ element[u] = e
  BY <1>0 DEF HoldInv, Alive
<1>4. PICK s \in S : \A v \in Thread : element[v] = e /\ pc[v] \in Acting => mine[v].server # s
  BY <1>0 DEF SpareInv, Spare
<1>5. mine[t].server # s /\ mine[u].server # s
  BY <1>1, <1>3, <1>4 DEF Acting, Busy
<1>6. mine[t].server \in S /\ mine[u].server \in S
  BY <1>0, <1>3 DEF Holds
<1>7. mine[t].server # mine[u].server
  <2>1. e # NoElement
    BY <1>0, <1>1 DEF Holds, Taken
  <2> QED
    BY <1>0, <1>1, <1>3, <2>1 DEF HoldInv, ServerAskedOnce
<1>8. Cardinality(S) >= 3
  BY <1>2, <1>5, <1>6, <1>7, ThreeServers
<1> QED
  BY <1>0, <1>2, <1>8 DEF ServersInv

\* An element is erased from the list once, where a call asks two servers at
\* most: in P2P_Graph always, in P2P_Ips with two servers.
THEOREM ErasedOnce ==
    ASSUME IsGraph \/ Cardinality(Server) <= 2
    PROVE  P2PSpec => []EraseOnce
<1>1. P2PInit => OneServer /\ EraseOnce
  BY OneServerInit DEF P2PInit, EraseOnce
<1>2. ASSUME P2PInv, IsGraph => OneServer, EraseOnce, [P2PNext]_vars
      PROVE  (IsGraph => OneServer') /\ EraseOnce'
  <2>0. CallerTypeOK /\ ThreadTypeOK /\ CoreInv
    BY <1>2 DEF P2PInv, P2PTypeOK, CoreInv
  <2>1. IsGraph => OneServer'
    BY <1>2, <2>0, OneServerStep
  <2>2. ASSUME NEW t \in Thread, pc[t] \in {"remove", "removeError"}, RemoveInternal(t)
        PROVE  EraseOnce'
    <3>1. CASE element[t] \in DOMAIN elements /\ element[t] \notin ToSet(queue)
      <4> DEFINE S == elements[element[t]].servers
      <4>1. Cardinality(S) >= 3 /\ Cardinality(S) <= mine[t].countUniqueServers
            /\ S \subseteq Server
        BY <1>2, <2>2, <3>1, RemovesFromQueue
      <4>2. Cardinality(S) <= Cardinality(Server) /\ Cardinality(S) \in Nat
            /\ Cardinality(Server) \in Nat
        BY <4>1, ServerFacts, FS_Subset, FS_CardinalityType
      <4>3. IsGraph => mine[t].countUniqueServers <= 1
        BY <1>2 DEF OneServer
      <4>4. mine[t].countUniqueServers \in Nat
        BY <2>0 DEF ThreadTypeOK, TaskInfo, NoTask
      <4> QED
        BY <4>1, <4>2, <4>3, <4>4
    <3>2. CASE ~(element[t] \in DOMAIN elements /\ element[t] \notin ToSet(queue))
      BY <1>2, <2>2, <3>2 DEF EraseOnce, RemoveInternal, Expired, Locked
    <3> QED
      BY <3>1, <3>2
  <2>3. CASE Caller \/ UNCHANGED vars
    <3>1. \A r \in Requests, hint \in Server : Process(r, hint) => UNCHANGED erasedTwice
      BY DEF Process
    <3>2. NewTask \/ NoMoreTasks \/ UNCHANGED vars => UNCHANGED erasedTwice
      BY DEF NewTask, NoMoreTasks, queueVars, vars
    <3>3. AddElement \/ WaitEmpty \/ ReadError \/ Destroy \/ Stop => UNCHANGED erasedTwice
      BY DEF AddElement, WaitEmpty, ReadError, Destroy, Stop, queueVars
    <3>4. UNCHANGED erasedTwice
      BY <2>3, <3>1, <3>2, <3>3, Zenon DEF Caller
    <3> QED
      BY <1>2, <2>1, <3>4, Zenon DEF EraseOnce
  <2>4. ASSUME NEW t \in Thread, Work(t)
        PROVE  EraseOnce'
    <3>1. CASE RemoveElement(t) \/ RemoveElementError(t)
      BY <2>2, <3>1 DEF RemoveElement, RemoveElementError
    <3>2. CASE ~(RemoveElement(t) \/ RemoveElementError(t))
      BY <1>2, <2>4, <3>2 DEF Work, Copy, GetElement, GetClosed, Unpark, PeekLock,
         PeekDone, MakeBegin, MakeEnd, RequestFails, RespondBegin, RespondEnd,
         RespondFails, ErrorElement, queueVars, EraseOnce
    <3> QED
      BY <3>1, <3>2
  <2> QED
    BY <1>2, <2>1, <2>3, <2>4 DEF P2PNext
<1>3. P2PInit => (IsGraph => OneServer) /\ EraseOnce
  BY <1>1
<1>4. P2PInv /\ ((IsGraph => OneServer) /\ EraseOnce) /\ [P2PNext]_vars
        => ((IsGraph => OneServer) /\ EraseOnce)'
  BY <1>2
<1> QED
  BY <1>3, <1>4, P2PInvariant, PTL DEF P2PSpec

=============================================================================
