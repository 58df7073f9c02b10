------------------------------ MODULE P2PQueue ------------------------------
(***************************************************************************)
(* A request of a node to its servers (src/src/P2P): the answer is cut     *)
(* into segments, a queue hands the segments to the threads that talk to   *)
(* the servers, and the caller waits until the queue is empty.  A segment  *)
(* stays in the queue while a thread fetches it, so that other servers     *)
(* fetch it too and the first answer counts.  The threads outlive the      *)
(* request: one that waits for a slow server comes back in a later         *)
(* request, and is told so by the wrapper of the caller's functions.       *)
(*                                                                         *)
(* A step is what a thread does under one mutex: the one of QueueP2P, the  *)
(* one of the P2PThread, or the shared lock of the wrapper, which is held  *)
(* while a function of the caller runs.  QueueP2PElement::getSegment holds *)
(* a strong reference to the element outside of them.  A wait on a         *)
(* condition (conditionWait, external) ends once its predicate holds.      *)
(*                                                                         *)
(* One thread calls request and requests of a P2P object: main makes an    *)
(* object for each of the threads that do.                                 *)
(***************************************************************************)
EXTENDS Integers, SequencesExt

CONSTANTS
    Servers,      \* P2P_Ips::servers, or the servers named in hintsServers
    Connections,  \* countConnections
    IsGraph,      \* the object is a P2P_Graph, not a P2P_Ips
    Requests,     \* the requests the caller may make: their size and the
                  \* minimal size of a segment, which is 1 for requests
    NoServer,     \* no server: an answer that has not come
    MaxTasks      \* how many requests the caller makes

ASSUME P2PAssumption ==
    /\ Servers \in Seq(ToSet(Servers)) /\ Servers # <<>>
    /\ \A i, j \in DOMAIN Servers : Servers[i] = Servers[j] => i = j
    /\ NoServer \notin ToSet(Servers)
    /\ Connections \in Nat \ {0}
    /\ IsGraph \in BOOLEAN
    /\ Requests \subseteq [size : Nat \ {0}, minSize : Nat \ {0}]
    /\ MaxTasks \in Nat

Server == ToSet(Servers)

\* P2P_Impl::threads: a P2P_Ips keeps the connections of each server apart.
Thread == 1..(IF IsGraph THEN Connections ELSE Connections * Len(Servers))

VARIABLES
    \* QueueP2P
    queue,         \* the elements in the queue
    elements,      \* the elements in memory -> their sets of servers
    isStopped,
    isError,
    queueTask,     \* QueueP2P::taskId
    \* the caller of P2P_Impl::process
    taskId,
    callerPc,
    segments,      \* the segments of the request
    distribution,  \* the threads that take part -> their server
    added,         \* how many of the segments it put into the queue
    answers,       \* the server whose answer, never empty, was taken for
                   \* each segment
    result,
    destroyed,     \* the last task whose wrapper is destroyed
    \* P2PThread
    told,          \* what newTask left for each thread
    pc,
    mine,          \* what the thread copied from there
    element,       \* the element that it took
    \* outside
    erasedTwice    \* an iterator that was erased is erased again

queueVars == <<queue, elements, isStopped, isError, queueTask, erasedTwice>>

callerVars ==
    <<taskId, callerPc, segments, distribution, added, answers, result,
      destroyed>>

threadVars == <<told, pc, mine, element>>

vars == <<queueVars, callerVars, threadVars>>

NoTask == [task |-> 0, server |-> NoServer, countUniqueServers |-> 0]

NoElement == [task |-> 0, pos |-> 0]

Element == [task : 1..MaxTasks, pos : Nat \ {0}]

-----------------------------------------------------------------------------
(* How a request is cut, and which threads take part. *)

CeilDiv(a, b) == (a + b - 1) \div b

\* A request made of many small ones has a segment for each; a large one has
\* at most one for each connection.
countSegments(r) ==
    IF r.minSize = 1
    THEN r.size
    ELSE Min({CeilDiv(r.size, r.minSize), Cardinality(Thread)})

\* Mutant: the last segment is as long as the others.
makeSegments_NoRemainder(count, size, minSize) ==
    LET step == Min({size, Max({size \div count, minSize})})
    IN  [i \in 1..count |-> [fromByte |-> Min({(i - 1) * step, size}),
                             toByte |-> Min({i * step, size})]]

makeSegments(count, size, minSize) ==
    LET step == Min({size, Max({size \div count, minSize})})
        byte(i) == Min({i * step, size})
    IN  [i \in 1..count |->
            [fromByte |-> byte(i - 1),
             toByte |-> IF i = count THEN size ELSE byte(i)]]

\* The threads of the connections in use, with their server.  P2P_Ips talks
\* to all of its servers, P2P_Graph to the one named in the call.
getServersList(count, hint) ==
    IF IsGraph
    THEN [t \in 1..Min({Connections, count}) |-> hint]
    ELSE LET currConnections ==
                Min({CeilDiv(count, Len(Servers)), Connections})
         IN  [t \in {t \in Thread : (t - 1) % Connections < currConnections}
                |-> Servers[(t - 1) \div Connections + 1]]

countUnique(d) == Cardinality(Range(d))

-----------------------------------------------------------------------------
(* The elements in memory: those in the queue, and those that a thread     *)
(* looks at.                                                               *)

Collected(els, q, p) ==
    LET alive ==
            ToSet(q) \cup {element[t] : t \in {u \in Thread : p[u] = "peeking"}}
    IN  [e \in DOMAIN els \cap alive |-> els[e]]

\* QueueP2PElement::element.lock() returns the element.
Locked(t) == element[t] \in DOMAIN elements

\* Mutant: the iterator is used without a look at the weak reference.
Expired_Unchecked(t) == FALSE

Expired(t) == ~Locked(t)

\* removeElementInternal.  What erasing an erased iterator does is undefined;
\* the model notes it and leaves the queue alone.
RemoveInternal(t) ==
    /\ queue' = RemoveFirst(queue, element[t])
    /\ pc' = [pc EXCEPT ![t] = "loop"]
    /\ elements' = Collected(elements, queue', pc')
    /\ erasedTwice' =
        (erasedTwice \/ (~Expired(t) /\ element[t] \notin ToSet(queue)))

-----------------------------------------------------------------------------
(* The caller: P2P_Impl::process. *)

\* The request is cut and the queue started: QueueP2P::start.
Process(r, hint) ==
    LET segs == makeSegments(countSegments(r), r.size, r.minSize)
    IN  /\ callerPc = "idle" /\ taskId <= MaxTasks
        /\ isStopped /\ taskId > queueTask
        /\ segments' = segs
        /\ distribution' = getServersList(Len(segs), hint)
        /\ answers' = [i \in DOMAIN segs |-> NoServer]
        /\ added' = 0 /\ result' = "none"
        /\ isStopped' = FALSE /\ isError' = FALSE /\ queueTask' = taskId
        /\ callerPc' = "newTasks"
        /\ UNCHANGED <<queue, elements, erasedTwice, taskId, destroyed,
                       threadVars>>

NotTold == {t \in DOMAIN distribution : told[t].task # taskId}

\* P2PThread::newTask of the next thread, which starts the thread the first
\* time.
NewTask ==
    /\ callerPc = "newTasks" /\ NotTold # {}
    /\ ~isStopped /\ queueTask = taskId
    /\ LET t == Min(NotTold)
       IN  /\ taskId > told[t].task
           /\ told' = [told EXCEPT ![t] =
                [task |-> taskId, server |-> distribution[t],
                 countUniqueServers |-> countUnique(distribution)]]
           /\ pc' = [pc EXCEPT ![t] = IF @ = "unborn" THEN "loop" ELSE @]
    /\ UNCHANGED <<queueVars, callerVars, mine, element>>

\* QueueP2P::addElement of the next segment.
AddElement ==
    /\ callerPc = "newTasks" /\ NotTold = {}
    /\ added < Len(segments)
    /\ ~isStopped
    /\ added' = added + 1
    /\ LET e == [task |-> taskId, pos |-> added']
       IN  /\ queue' = Append(queue, e)
           /\ elements' = [x \in DOMAIN elements \cup {e} |->
                IF x = e THEN [servers |-> {}, errorServers |-> {}]
                ELSE elements[x]]
    /\ UNCHANGED <<isStopped, isError, queueTask, erasedTwice, taskId, callerPc,
                   segments, distribution, answers, result, destroyed,
                   threadVars>>

\* Mutant: the caller does not wait for the last element.
QueueDrained_OneLeft == isStopped \/ Len(queue) <= 1

QueueDrained == isStopped \/ queue = <<>>

WaitEmpty ==
    /\ callerPc = "newTasks" /\ NotTold = {}
    /\ added = Len(segments)
    /\ QueueDrained
    /\ callerPc' = "error"
    /\ UNCHANGED <<queueVars, taskId, segments, distribution, added, answers,
                   result, destroyed, threadVars>>

\* QueueP2P::error.
ReadError ==
    /\ callerPc = "error"
    /\ ~isStopped
    /\ result' = IF isError THEN "error" ELSE "ok"
    /\ callerPc' = "destroy"
    /\ UNCHANGED <<queueVars, taskId, segments, distribution, added, answers,
                   destroyed, threadVars>>

\* Mutant: the wrapper is destroyed under a running function.
Destroyable_Always == TRUE

\* ReferenseWrapperMaster::destroy takes the exclusive lock.
Destroyable ==
    \A t \in Thread :
        ~(pc[t] \in {"making", "responding"} /\ mine[t].task = taskId)

Destroy ==
    /\ callerPc = "destroy"
    /\ Destroyable
    /\ destroyed' = taskId
    /\ callerPc' = "stop"
    /\ UNCHANGED <<queueVars, taskId, segments, distribution, added, answers,
                   result, threadVars>>

\* QueueP2P::stop, and process returns.
Stop ==
    /\ callerPc = "stop"
    /\ isStopped' = TRUE /\ isError' = FALSE
    /\ taskId' = taskId + 1
    /\ callerPc' = "idle"
    /\ UNCHANGED <<queue, elements, queueTask, erasedTwice, segments,
                   distribution, added, answers, result, destroyed,
                   threadVars>>

\* The caller has made its last request.
NoMoreTasks ==
    /\ callerPc = "idle" /\ taskId > MaxTasks
    /\ UNCHANGED vars

Caller ==
    \/ \E r \in Requests, hint \in Server : Process(r, hint)
    \/ NewTask \/ AddElement \/ WaitEmpty \/ ReadError \/ Destroy \/ Stop
    \/ NoMoreTasks

-----------------------------------------------------------------------------
(* A thread: P2PThread::work. *)

Goes(t, from, to) ==
    /\ pc[t] = from
    /\ pc' = [pc EXCEPT ![t] = to]

\* The start of the loop: the task is copied under the mutex of the thread.
Copy(t) ==
    /\ Goes(t, "loop", "getElement")
    /\ mine' = [mine EXCEPT ![t] = told[t]]
    /\ element' = [element EXCEPT ![t] = NoElement]
    /\ UNCHANGED <<queueVars, callerVars, told>>

Closed(t) == isStopped \/ mine[t].task # queueTask

\* Mutant: a server may take an element again.
Candidates_Any(t) == DOMAIN queue

\* The positions in the queue that the predicate of the thread accepts.
Candidates(t) ==
    {i \in DOMAIN queue : mine[t].server \notin elements[queue[i]].servers}

\* queue.splice moves the element to the front.
Spliced(q, i) == <<q[i]>> \o RemoveAt(q, i)

\* A server is entered in the servers of an element.
WithServer(e, s) ==
    [elements EXCEPT ![e] = [servers |-> @.servers \cup {s},
                             errorServers |-> @.errorServers]]

\* QueueP2P::getElement finds an element, the last that fits.
GetElement(t) ==
    /\ mine[t].task <= queueTask
    /\ ~Closed(t)
    /\ Candidates(t) # {}
    /\ LET i == Max(Candidates(t))
           e == queue[i]
       IN  /\ elements' = WithServer(e, mine[t].server)
           /\ element' = [element EXCEPT ![t] = e]
           /\ queue' = Spliced(queue, i)
    /\ Goes(t, "getElement", "got")
    /\ UNCHANGED <<isStopped, isError, queueTask, erasedTwice, callerVars, told,
                   mine>>

\* getElement returns false: no task, or another one.
GetClosed(t) ==
    /\ mine[t].task <= queueTask
    /\ Closed(t)
    /\ Goes(t, "getElement", "parked")
    /\ UNCHANGED <<queueVars, callerVars, told, mine, element>>

\* A new task has come.
Unpark(t) ==
    /\ told[t].task # mine[t].task
    /\ Goes(t, "parked", "loop")
    /\ UNCHANGED <<queueVars, callerVars, told, mine, element>>

\* getSegment locks the weak reference,
PeekLock(t) ==
    /\ Goes(t, "got", IF Locked(t) THEN "peeking" ELSE "loop")
    /\ UNCHANGED <<queueVars, callerVars, told, mine, element>>

\* copies the segment and gives the reference up.
PeekDone(t) ==
    /\ Goes(t, "peeking", "make")
    /\ elements' = Collected(elements, queue, pc')
    /\ UNCHANGED <<queue, isStopped, isError, queueTask, erasedTwice, callerVars,
                   told, mine, element>>

\* ReferenceWrapperPtr::get throws DestroyedException.
IsDestroyed(t) == mine[t].task <= destroyed

\* makeQsAndPost begins to run in the thread,
MakeBegin(t) ==
    /\ Goes(t, "make", IF IsDestroyed(t) THEN "loop" ELSE "making")
    /\ UNCHANGED <<queueVars, callerVars, told, mine, element>>

\* and returns.
MakeEnd(t) ==
    /\ Goes(t, "making", "request")
    /\ UNCHANGED <<queueVars, callerVars, told, mine, element>>

\* The server does not answer in time.
RequestFails(t) ==
    /\ Goes(t, "request", "failed")
    /\ UNCHANGED <<queueVars, callerVars, told, mine, element>>

\* The server answers, and processResponse begins to run,
RespondBegin(t) ==
    /\ Goes(t, "request", IF IsDestroyed(t) THEN "loop" ELSE "responding")
    /\ UNCHANGED <<queueVars, callerVars, told, mine, element>>

\* takes the answer unless another was taken before,
RespondEnd(t) ==
    /\ Goes(t, "responding", "remove")
    /\ answers' = [answers EXCEPT ![element[t].pos] =
            IF @ = NoServer THEN mine[t].server ELSE @]
    /\ UNCHANGED <<queueVars, taskId, callerPc, segments, distribution, added,
                   result, destroyed, told, mine, element>>

\* or finds that the response is an error or has another size.
RespondFails(t) ==
    /\ Goes(t, "responding", "failed")
    /\ UNCHANGED <<queueVars, callerVars, told, mine, element>>

\* QueueP2P::removeElement.
RemoveElement(t) ==
    /\ pc[t] = "remove"
    /\ RemoveInternal(t)
    /\ UNCHANGED <<isStopped, isError, queueTask, callerVars, told, mine, element>>

\* Mutant: an off-by-one, more servers must fail than there are.
TooManyErrors_More(t, n) == n > mine[t].countUniqueServers

TooManyErrors(t, n) == n >= mine[t].countUniqueServers

\* A server is entered in the servers that failed.
WithError(e, s) ==
    [elements EXCEPT ![e] = [servers |-> @.servers,
                             errorServers |-> @.errorServers \cup {s}]]

\* QueueP2P::errorElement.
ErrorElement(t) ==
    /\ IF Locked(t)
       THEN elements' = WithError(element[t], mine[t].server)
       ELSE UNCHANGED elements
    /\ LET n == IF Locked(t)
                THEN Cardinality(elements'[element[t]].errorServers)
                ELSE 0
       IN  Goes(t, "failed", IF TooManyErrors(t, n) THEN "removeError" ELSE "loop")
    /\ UNCHANGED <<queue, isStopped, isError, queueTask, erasedTwice, callerVars,
                   told, mine, element>>

\* QueueP2P::removeElementError.
RemoveElementError(t) ==
    /\ pc[t] = "removeError"
    /\ RemoveInternal(t)
    /\ isError' = TRUE
    /\ UNCHANGED <<isStopped, queueTask, callerVars, told, mine, element>>

Work(t) ==
    \/ Copy(t) \/ GetElement(t) \/ GetClosed(t) \/ Unpark(t)
    \/ PeekLock(t) \/ PeekDone(t) \/ MakeBegin(t) \/ MakeEnd(t)
    \/ RequestFails(t) \/ RespondBegin(t) \/ RespondEnd(t) \/ RespondFails(t)
    \/ RemoveElement(t) \/ ErrorElement(t) \/ RemoveElementError(t)

-----------------------------------------------------------------------------
P2PInit ==
    /\ queue = <<>>
    /\ elements = [e \in {} |-> NoElement]
    /\ isStopped = TRUE /\ isError = FALSE /\ queueTask = 0
    /\ taskId = 1
    /\ callerPc = "idle"
    /\ segments = <<>> /\ distribution = <<>> /\ added = 0
    /\ answers = <<>> /\ result = "none"
    /\ destroyed = 0
    /\ told = [t \in Thread |-> NoTask]
    /\ pc = [t \in Thread |-> "unborn"]
    /\ mine = [t \in Thread |-> NoTask]
    /\ element = [t \in Thread |-> NoElement]
    /\ erasedTwice = FALSE

P2PNext == Caller \/ \E t \in Thread : Work(t)

P2PSpec == P2PInit /\ [][P2PNext]_vars

\* The system schedules each thread, a request to a server ends after its
\* timeout of five seconds, and the functions of the caller return.
FairP2PSpec ==
    /\ P2PSpec
    /\ WF_vars(Caller)
    /\ \A t \in Thread : WF_vars(Work(t))

-----------------------------------------------------------------------------
ThreadPc ==
    {"unborn", "loop", "getElement", "parked", "got", "peeking", "make",
     "making", "request", "responding", "remove", "failed", "removeError"}

\* What a thread knows of a request.
TaskInfo ==
    {NoTask} \cup [task : 1..MaxTasks, server : Server,
                   countUniqueServers : 1..Len(Servers)]

QueueTypeOK ==
    /\ queue \in Seq(DOMAIN elements) /\ IsInjective(queue)
    /\ \A e \in ToSet(queue) : e.task = queueTask
    /\ DOMAIN elements \subseteq Element
    /\ elements \in [DOMAIN elements ->
                        [servers : SUBSET Server, errorServers : SUBSET Server]]
    /\ isStopped \in BOOLEAN /\ isError \in BOOLEAN /\ erasedTwice \in BOOLEAN
    /\ queueTask \in 0..MaxTasks

CallerTypeOK ==
    /\ taskId \in 1..(MaxTasks + 1)
    /\ destroyed \in 0..MaxTasks
    /\ callerPc \in {"idle", "newTasks", "error", "destroy", "stop"}
    /\ segments \in Seq([fromByte : Nat, toByte : Nat])
    /\ DOMAIN distribution \subseteq Thread
    /\ distribution \in [DOMAIN distribution -> Server]
    /\ added \in 0..Len(segments)
    /\ answers \in [1..Len(segments) -> Server \cup {NoServer}]
    /\ result \in {"none", "ok", "error"}

ThreadTypeOK ==
    /\ pc \in [Thread -> ThreadPc]
    /\ told \in [Thread -> TaskInfo] /\ mine \in [Thread -> TaskInfo]
    /\ element \in [Thread -> Element \cup {NoElement}]

\* The state of the queue, the caller and the threads has its type.  All that
\* is in the queue is in memory, once, and is of the task that the queue was
\* started for.
P2PTypeOK == QueueTypeOK /\ CallerTypeOK /\ ThreadTypeOK

\* The segments of a request follow each other from its first byte to its
\* last, and none is empty.
SegmentsCover ==
    segments # <<>> =>
        /\ segments[1].fromByte = 0
        /\ \E r \in Requests :
            segments[Len(segments)].toByte = r.size /\ Len(segments) = countSegments(r)
        /\ \A i \in DOMAIN segments : segments[i].fromByte < segments[i].toByte
        /\ \A i \in 2..Len(segments) :
            segments[i].fromByte = segments[i - 1].toByte

\* A request that succeeds has an answer for each of its segments, whichever
\* servers failed and whoever came first.
SuccessMeansAnswered ==
    result = "ok" => \A i \in DOMAIN answers : answers[i] # NoServer

\* A request only fails when a segment could be had from no server: neither
\* an error after another server's answer, nor one of a thread that is late
\* from an earlier request, makes it fail.
FailureMeansUnanswered ==
    result = "error" => \E i \in DOMAIN answers : answers[i] = NoServer

\* What a call of request or requests returns is what became of its segments.
ResultIsTrue == SuccessMeansAnswered /\ FailureMeansUnanswered

\* The functions of the caller, which refer to its local variables, only run
\* while the call they were made for has not returned.
CallbackInTask ==
    \A t \in Thread :
        pc[t] \in {"making", "responding"} =>
            callerPc # "idle" /\ mine[t].task = taskId

\* A server is asked for a segment once, so that as many errors as there are
\* servers are the errors of all servers.
ServerAskedOnce ==
    \A t, u \in Thread :
        /\ t # u /\ element[t] # NoElement
        /\ element[t] = element[u]
        => mine[t].server # mine[u].server

\* The check for an expired element in removeElementInternal: an element that
\* was taken out of the queue is not erased from the list again.
EraseOnce == ~erasedTwice

\* A call returns, whatever the servers do.
RequestReturns == callerPc # "idle" ~> callerPc = "idle"
=============================================================================
