-------------------------- MODULE ProviderAgents --------------------------
(***************************************************************************)
(* Requests to providers that run in agent processes of their own          *)
(* (ProviderManagerRouter/OOPProviderManagerRouter.cpp).  A thread of the  *)
(* provider manager service enters the request in the table of the agent's *)
(* container and writes it to the agent, which is started if need be.  One *)
(* thread per agent reads the responses, finds the request by its id, the  *)
(* address of the request object, and completes it.  When the agent exits, *)
(* that thread completes what is left in the table, or has it sent again.  *)
(* A cleanup answers requests whose client is gone.                        *)
(*                                                                         *)
(* Requests for one agent ("operation", "deleteSubscription") are answered *)
(* by it; the others are sent to every active agent, and an aggregator     *)
(* counts the responses.  An answered request object is freed, and its     *)
(* address may be used again.                                              *)
(***************************************************************************)
EXTENDS Integers, Sequences, FiniteSets

CONSTANTS
    Agents,             \* provider agent containers
    Requests,           \* request objects, in the course of time
    Addresses,          \* memory where request objects may be
    Types,              \* message types that requests have
    MaxProcesses,       \* maxProviderProcesses
    MaxChunks,          \* bound: response chunks written by providers
    MaxExits,           \* bound: exits of agent processes
    StartsFail,         \* an agent process may fail to start
    ClientsLeave,       \* clients may disconnect before they are answered
    StaleReuse,         \* memory may be reused while an agent knows its address
    NoRequest

Single     == {"operation", "deleteSubscription"}
ToAll      == {"stopAll", "notify"}
ToModule   == {"enable", "disable"}
Aggregated == ToAll \cup ToModule

\* Message types that are not sent again when writing them failed.
SentOnce == {"stopAll", "notify", "deleteSubscription", "disable"}

ASSUME AgentsAssumption ==
    /\ IsFiniteSet(Agents)
    /\ Types \subseteq Single \cup Aggregated
    /\ MaxProcesses \in Nat \ {0}
    /\ MaxChunks \in Nat
    /\ MaxExits \in Nat
    /\ {StartsFail, ClientsLeave, StaleReuse} \subseteq BOOLEAN
    /\ NoRequest \notin Requests

VARIABLES
    request,        \* each request: its type and address, the agents it is
                    \* still to be sent to, and where the sending thread is
    answers,        \* what each request was answered with
    aggregator,     \* RespAggCounter of a request
    stopped,        \* _allProvidersStopped
    active,         \* _isInitialized of each container
    mutex,          \* _agentMutex: the request whose sender holds it
    table,          \* _outstandingRequestTable
    reader,         \* thread that reads from the agent
    process,        \* agent process
    unread,         \* requests in the pipe to the agent
    working,        \* requests the agent's threads process
    written,        \* messages in the pipe from the agent
    begun,          \* how often an agent has begun to process a request
    chunks, exits   \* counters for the bounds

requestVars == <<request, answers>>
serverVars  == <<aggregator, stopped, active, mutex, table, reader>>
agentVars   == <<process, unread, working, written, begun, chunks, exits>>

vars == <<requestVars, serverVars, agentVars>>

Answered(r) == answers[r] # <<>>

\* Answers that are not the response of a provider.
Failed  == "failed"         \* an exception
Default == "default"        \* what buildResponse made
Closed  == "closed"         \* the cleanup of requests without a client

\* The cleanup answered the request, maybe before its sender was done with it.
CleanedUp(r) == \E k \in DOMAIN answers[r] : answers[r][k] = Closed

\* Answers and requests are told apart.
ASSUME AnswersAssumption == {Failed, Default, Closed} \cap Requests = {}

Idle == [at |-> "off", request |-> NoRequest, of |-> NoRequest]

Reading == [Idle EXCEPT !.at = "reading"]

NoAggregator == [expected |-> 0, received |-> 0, error |-> FALSE, alive |-> FALSE]

ActiveAgents == {a \in Agents : active[a]}
-----------------------------------------------------------------------------
\* Some agents may have been started by earlier requests.
Init ==
    /\ active \in {f \in [Agents -> BOOLEAN] :
                     Cardinality({a \in Agents : f[a]}) <= MaxProcesses}
    /\ request = [r \in Requests |-> [at |-> "none"]]
    /\ answers = [r \in Requests |-> <<>>]
    /\ aggregator = [r \in Requests |-> NoAggregator]
    /\ stopped = FALSE
    /\ mutex = [a \in Agents |-> NoRequest]
    /\ table = [a \in Agents |-> <<>>]
    /\ reader = [a \in Agents |-> IF active[a] THEN Reading ELSE Idle]
    /\ process = [a \in Agents |-> IF active[a] THEN "running" ELSE "none"]
    /\ unread = [a \in Agents |-> {}]
    /\ working = [a \in Agents |-> {}]
    /\ written = [a \in Agents |-> <<>>]
    /\ begun = [r \in Requests |-> 0]
    /\ chunks = 0
    /\ exits = 0

Received == {r \in Requests : request[r].at # "none"}

\* The dispatcher deletes a request when it has taken the answer.
InUse == {request[r].id : r \in {q \in Received : ~Answered(q)}}

\* Addresses that a sender, a table or an agent still has as an id.
Known ==
    {request[r].id : r \in {q \in Received : request[q].at \notin {"done", "dropped"}}}
        \cup UNION {DOMAIN table[a] \cup {m.id : m \in unread[a] \cup working[a]}
                        \cup {written[a][k].id : k \in DOMAIN written[a]} : a \in Agents}

Answer(r, result) == answers' = [answers EXCEPT ![r] = Append(@, result)]

\* A request object reaches the router.  A request for all agents, or for those
\* of a module, goes to the ones that are active now.
Receive(r) ==
    /\ request[r].at = "none"
    /\ \E t \in Types, x \in Addresses \ (IF StaleReuse THEN InUse ELSE InUse \cup Known) :
          /\ stopped' = (stopped \/ t = "stopAll")
          /\ \E S \in IF t \in Single THEN {{a} : a \in Agents} ELSE {ActiveAgents} :
                /\ request' = [request EXCEPT ![r] =
                       [at   |-> IF S = {} THEN "done" ELSE "sending",
                        type |-> t, id |-> x, agents |-> S, retry |-> FALSE]]
                /\ IF S = {} THEN Answer(r, Default) ELSE UNCHANGED answers
                /\ aggregator' = [aggregator EXCEPT ![r] =
                       IF t \in Single \/ S = {} THEN NoAggregator
                       ELSE [expected |-> Cardinality(S), received |-> 0,
                             error |-> FALSE, alive |-> TRUE]]
    /\ UNCHANGED <<active, mutex, table, reader, agentVars>>
-----------------------------------------------------------------------------
HasAggregator(r) == request[r].type \in Aggregated /\ ~request[r].retry

\* Mutant of IsComplete: the first response completes the request.
AnyResponse(r) == {TRUE}

\* isComplete: count a response, and tell whether it is the last one.  What a
\* deleted aggregator says is undefined.
IsComplete(r) ==
    IF aggregator[r].alive
    THEN {aggregator[r].received + 1 = aggregator[r].expected}
    ELSE BOOLEAN

\* Beyond the expected number the count no longer matters.
CountedResponse(r, error, last) ==
    [aggregator[r] EXCEPT !.received = IF @ > aggregator[r].expected THEN @ ELSE @ + 1,
                          !.error = @ \/ error, !.alive = @ /\ ~last]

\* The sender is done with agent a.  "sync": processMessage returned a response.
\* It answers a request for one agent, unless the retry thread got it, which
\* drops it; of several responses to a module's request only the last one
\* counts, and those to a request for all agents are dropped.
Sent(r, a, sync, result) ==
    LET rest == request[r].agents \ {a}
        drop == sync /\ request[r].retry
        type == request[r].type
    IN  /\ request' = [request EXCEPT ![r].agents = rest,
                          ![r].at = IF rest # {} THEN "sending"
                                    ELSE IF drop THEN "dropped" ELSE "done"]
        /\ IF sync /\ rest = {} /\ ~drop /\ type \notin ToAll
           THEN Answer(r, result)
           ELSE UNCHANGED answers

\* _processMessage after StopAllProviders: false when the request is sent
\* nevertheless, because it is not the last response that was counted.
Refuse(r, a) ==
    /\ request[r].at = "sending"
    /\ a \in request[r].agents
    /\ mutex[a] = NoRequest
    /\ stopped
    /\ request[r].type # "stopAll"
    /\ IF HasAggregator(r)
       THEN /\ TRUE \in IsComplete(r)
            /\ aggregator' = [aggregator EXCEPT ![r] = CountedResponse(r, TRUE, TRUE)]
       ELSE UNCHANGED aggregator
    /\ Sent(r, a, TRUE, Default)
    /\ UNCHANGED <<stopped, active, mutex, table, reader, agentVars>>

\* The request is sent: not stopped, or counted without being the last one.
Accept(r) ==
    IF stopped /\ request[r].type # "stopAll"
    THEN /\ HasAggregator(r)
         /\ FALSE \in IsComplete(r)
         /\ aggregator' = [aggregator EXCEPT ![r] = CountedResponse(r, TRUE, FALSE)]
    ELSE UNCHANGED aggregator

AddEntry(r, a) ==
    IF request[r].id \in DOMAIN table[a]
    THEN table[a]
    ELSE [x \in DOMAIN table[a] \cup {request[r].id} |->
             IF x = request[r].id THEN r ELSE table[a][x]]

\* Mutant of WithoutEntry: the entry stays.
KeptEntry(a, id) == table[a]

WithoutEntry(a, id) == [x \in DOMAIN table[a] \ {id} |-> table[a][x]]

\* _processMessage up to the entry in the table, with _initialize.
Enter(r, a) ==
    /\ request[r].at = "sending"
    /\ a \in request[r].agents
    /\ mutex[a] = NoRequest
    /\ Accept(r)
    /\ \/ active[a] /\ UNCHANGED <<active, process, reader>>
       \/ /\ ~active[a]
          /\ Cardinality(ActiveAgents) < MaxProcesses
          /\ active' = [active EXCEPT ![a] = TRUE]
          /\ process' = [process EXCEPT ![a] = "running"]
          /\ reader' = [reader EXCEPT ![a] = Reading]
    /\ table' = [table EXCEPT ![a] = AddEntry(r, a)]
    /\ mutex' = [mutex EXCEPT ![a] = r]
    /\ request' = [request EXCEPT ![r].at = "entered"]
    /\ UNCHANGED <<answers, stopped, unread, working, written, begun, chunks, exits>>

\* _initialize throws: there are too many processes, or this one fails.
StartFailed(r, a) ==
    /\ request[r].at = "sending"
    /\ a \in request[r].agents
    /\ mutex[a] = NoRequest
    /\ Accept(r)
    /\ ~active[a]
    /\ StartsFail \/ Cardinality(ActiveAgents) >= MaxProcesses
    /\ Sent(r, a, TRUE, Failed)
    /\ UNCHANGED <<stopped, active, mutex, table, reader, agentVars>>

\* The agent's end of the pipe is open until the process has ended.
Write(r, a) ==
    /\ request[r].at = "entered"
    /\ mutex[a] = r
    /\ process[a] # "none"
    /\ unread' = [unread EXCEPT ![a] = @ \cup {[id |-> request[r].id, of |-> r]}]
    /\ request' = [request EXCEPT ![r].at = "written"]
    /\ UNCHANGED <<answers, serverVars, process, working, written, begun, chunks, exits>>

\* The request is sent again, or the default response is returned.
WriteFailed(r, a) ==
    /\ request[r].at = "entered"
    /\ mutex[a] = r
    /\ process[a] = "none"
    /\ table' = [table EXCEPT ![a] = WithoutEntry(a, request[r].id)]
    /\ mutex' = [mutex EXCEPT ![a] = NoRequest]
    /\ IF request[r].type \in SentOnce
       THEN Sent(r, a, TRUE, Default)
       ELSE request' = [request EXCEPT ![r].at = "sending"] /\ UNCHANGED answers
    /\ UNCHANGED <<aggregator, stopped, active, reader, agentVars>>

\* The response says that the real one is pending.
Leave(r, a) ==
    /\ request[r].at = "written"
    /\ mutex[a] = r
    /\ mutex' = [mutex EXCEPT ![a] = NoRequest]
    /\ Sent(r, a, FALSE, Default)
    /\ UNCHANGED <<aggregator, stopped, active, table, reader, agentVars>>
-----------------------------------------------------------------------------
\* The agent process (ProviderManagerService/ProviderAgent).
AgentReads(a) ==
    /\ process[a] = "running"
    /\ \E m \in unread[a] :
          /\ unread' = [unread EXCEPT ![a] = @ \ {m}]
          /\ working' = [working EXCEPT ![a] = @ \cup {m}]
          /\ begun' = [begun EXCEPT ![m.of] = @ + 1]
    /\ UNCHANGED <<requestVars, serverVars, process, written, chunks, exits>>

Message(kind, m) == [kind |-> kind, id |-> m.id, of |-> m.of]

WriteChunk(a) ==
    /\ chunks < MaxChunks
    /\ chunks' = chunks + 1
    /\ \E m \in working[a] :
          written' = [written EXCEPT ![a] = Append(@, Message("chunk", m))]
    /\ UNCHANGED <<requestVars, serverVars, process, unread, working, begun, exits>>

WriteResponse(a) ==
    /\ \E m \in working[a] :
          /\ written' = [written EXCEPT ![a] = Append(@, Message("complete", m))]
          /\ working' = [working EXCEPT ![a] = @ \ {m}]
    /\ UNCHANGED <<requestVars, serverVars, process, unread, begun, chunks, exits>>

\* run returns when no thread works on a request: a message of length zero.
Bye == [kind |-> "bye", id |-> NoRequest, of |-> NoRequest]

\* Mutant of Quiet: the running threads are not waited for.
AnyTime(a) == TRUE

Quiet(a) == working[a] = {}

Terminate(a) ==
    /\ process[a] = "running"
    /\ Quiet(a)
    /\ exits < MaxExits
    /\ exits' = exits + 1
    /\ process' = [process EXCEPT ![a] = "leaving"]
    /\ written' = [written EXCEPT ![a] = Append(@, Bye)]
    /\ UNCHANGED <<requestVars, serverVars, unread, working, begun, chunks>>

\* The process has ended: as it should, or because of a provider.
Exit(a) ==
    /\ \/ process[a] = "leaving" /\ UNCHANGED exits
       \/ process[a] = "running" /\ exits < MaxExits /\ exits' = exits + 1
    /\ process' = [process EXCEPT ![a] = "none"]
    /\ unread' = [unread EXCEPT ![a] = {}]
    /\ working' = [working EXCEPT ![a] = {}]
    /\ UNCHANGED <<requestVars, serverVars, written, begun, chunks>>
-----------------------------------------------------------------------------
\* Whether the response of a provider has an exception: it matters only for
\* the requests to a module.
ProviderErrors(r) == IF request[r].type \in ToModule THEN BOOLEAN ELSE {FALSE}

\* _processResponses: the next message, whose entry is looked up.
Read(a) ==
    /\ reader[a].at = "reading"
    /\ written[a] # <<>>
    /\ written' = [written EXCEPT ![a] = Tail(@)]
    /\ LET m == Head(written[a])
           found == m.id \in DOMAIN table[a]
           r == table[a][m.id]
           Next(at) == reader' = [reader EXCEPT ![a] = [at |-> at, request |-> r, of |-> m.of]]
       IN  \/ /\ m.kind = "bye"
              /\ reader' = [reader EXCEPT ![a].at = "clean"]
              /\ UNCHANGED <<table, aggregator>>
           \/ /\ m.kind # "bye" /\ ~found
              /\ UNCHANGED <<reader, table, aggregator>>
           \/ /\ m.kind = "chunk" /\ found
              /\ Next("chunk")
              /\ UNCHANGED <<table, aggregator>>
           \/ /\ m.kind = "complete" /\ found
              /\ table' = [table EXCEPT ![a] = WithoutEntry(a, m.id)]
              /\ IF ~HasAggregator(r)
                 THEN Next("complete") /\ UNCHANGED aggregator
                 ELSE \E last \in IsComplete(r), error \in ProviderErrors(r) :
                        /\ aggregator' = [aggregator EXCEPT ![r] = CountedResponse(r, error, last)]
                        /\ IF last THEN Next("complete") ELSE UNCHANGED reader
    /\ UNCHANGED <<requestVars, stopped, active, mutex, process, unread, working, begun>>
    /\ UNCHANGED <<chunks, exits>>

\* responseChunkCallback, with the request of the entry that was found.
DeliverChunk(a) ==
    /\ reader[a].at = "chunk"
    /\ reader' = [reader EXCEPT ![a] = Reading]
    /\ UNCHANGED <<requestVars, aggregator, stopped, active, mutex, table, agentVars>>

\* Mutant of SenderGone: the mutex is not taken.
NotWaited(a) == TRUE

\* _sendResponse waits until no sender holds the mutex of its own agent.  The
\* sender of a request to several agents may hold the mutex of another one.
SenderGone(a) == mutex[a] = NoRequest

SendResponse(a) ==
    /\ reader[a].at = "complete"
    /\ SenderGone(a)
    /\ Answer(reader[a].request, reader[a].of)
    /\ reader' = [reader EXCEPT ![a] = Reading]
    /\ UNCHANGED <<request, aggregator, stopped, active, mutex, table, agentVars>>

\* The connection is closed without the message of length zero.
ConnectionLost(a) ==
    /\ reader[a].at = "reading"
    /\ written[a] = <<>>
    /\ process[a] = "none"
    /\ reader' = [reader EXCEPT ![a].at = "lost"]
    /\ UNCHANGED <<requestVars, aggregator, stopped, active, mutex, table, agentVars>>

\* _uninitialize.  What is left in the table is answered or sent again; an
\* aggregated request only with its last response.  (For an entry of an
\* aggregated type without an aggregator the code fails an assertion.)
Outstanding(a) == {table[a][x] : x \in DOMAIN table[a]}

\* Mutant of Left: one of the message types is forgotten.
LeftExceptDeletions(a) == {r \in Outstanding(a) : request[r].type # "deleteSubscription"}

Left(a) == Outstanding(a)

Again(r, clean, last) ==
    \/ request[r].type = "operation" /\ clean
    \/ request[r].type \in ToModule /\ last /\ clean /\ ~aggregator[r].error

Uninitialize(a) ==
    LET clean == reader[a].at = "clean"
        left == Left(a)
        last == {r \in left : HasAggregator(r) /\ aggregator[r].alive
                    /\ aggregator[r].received + 1 = aggregator[r].expected}
        again == {r \in left : Again(r, clean, r \in last)}
        answer == {r \in left \ again : request[r].type \in Single \/ r \in last}
    IN  /\ reader[a].at \in {"clean", "lost"}
        /\ mutex[a] = NoRequest
        /\ \A r \in left : request[r].type \in Aggregated => HasAggregator(r)
        /\ active' = [active EXCEPT ![a] = FALSE]
        /\ table' = [table EXCEPT ![a] = <<>>]
        /\ reader' = [reader EXCEPT ![a] = Idle]
        /\ aggregator' = [r \in Requests |->
               IF r \in left /\ HasAggregator(r)
               THEN CountedResponse(r, ~clean, r \in last)
               ELSE aggregator[r]]
        /\ answers' = [r \in Requests |->
               IF r \in answer
               THEN Append(answers[r],
                           IF request[r].type = "operation" \/ request[r].type \in ToModule
                           THEN Failed ELSE Default)
               ELSE answers[r]]
        /\ request' = [r \in Requests |->
               IF r \in again
               THEN [request[r] EXCEPT !.at = IF @ = "done" THEN "sending" ELSE @,
                                       !.agents = @ \cup {a}, !.retry = TRUE]
               ELSE request[r]]
        /\ process' = [process EXCEPT ![a] = "none"]
        /\ unread' = [unread EXCEPT ![a] = {}]
        /\ working' = [working EXCEPT ![a] = {}]
        /\ written' = [written EXCEPT ![a] = <<>>]
    /\ UNCHANGED <<stopped, mutex, begun, chunks, exits>>
-----------------------------------------------------------------------------
\* cleanDisconnectedClientRequests and cleanClosedPullRequests, under the
\* mutex of the table alone.  The other types come from services, whose queues
\* stay active.  Bound: a request is cleaned up once.
CleanUp(a) ==
    /\ ClientsLeave
    /\ \E x \in DOMAIN table[a] :
          /\ request[table[a][x]].type = "operation" /\ ~CleanedUp(table[a][x])
          /\ Answer(table[a][x], Closed)
          /\ table' = [table EXCEPT ![a] = WithoutEntry(a, x)]
    /\ UNCHANGED <<request, aggregator, stopped, active, mutex, reader, agentVars>>
-----------------------------------------------------------------------------
SenderStep(r) ==
    \E a \in Agents :
        Refuse(r, a) \/ Enter(r, a) \/ StartFailed(r, a)
            \/ Write(r, a) \/ WriteFailed(r, a) \/ Leave(r, a)

ReaderStep(a) ==
    Read(a) \/ DeliverChunk(a) \/ SendResponse(a) \/ ConnectionLost(a) \/ Uninitialize(a)

Next ==
    \/ \E r \in Requests : Receive(r) \/ SenderStep(r)
    \/ \E a \in Agents :
          \/ ReaderStep(a) \/ CleanUp(a)
          \/ AgentReads(a) \/ WriteChunk(a) \/ WriteResponse(a)
          \/ Terminate(a) \/ Exit(a)

Spec == Init /\ [][Next]_vars
-----------------------------------------------------------------------------
RequestRecord ==
    [at: {"sending", "entered", "written", "done", "dropped"}, type: Types,
     id: Addresses, agents: SUBSET Agents, retry: BOOLEAN]

Messages ==
    [kind: {"chunk", "complete", "bye"}, id: Addresses \cup {NoRequest},
     of: Requests \cup {NoRequest}]

\* _outstandingRequestTable: ids of requests, and the requests.
Table == UNION {[S -> Requests] : S \in SUBSET Addresses}

\* The types of the tables, the messages and the aggregators.
TypeOK ==
    /\ request \in [Requests -> RequestRecord \cup {[at |-> "none"]}]
    /\ answers \in [Requests -> Seq(Requests \cup {Failed, Default, Closed})]
    /\ aggregator \in [Requests ->
            [expected: 0..Cardinality(Agents), received: Nat, error: BOOLEAN, alive: BOOLEAN]]
    /\ stopped \in BOOLEAN
    /\ active \in [Agents -> BOOLEAN]
    /\ mutex \in [Agents -> Requests \cup {NoRequest}]
    /\ table \in [Agents -> Table]
    /\ unread \in [Agents -> SUBSET [id: Addresses, of: Requests]]
    /\ working \in [Agents -> SUBSET [id: Addresses, of: Requests]]
    /\ written \in [Agents -> Seq(Messages)]
    /\ reader \in [Agents ->
            [at: {"off", "reading", "chunk", "complete", "clean", "lost"},
             request: Requests \cup {NoRequest}, of: Requests \cup {NoRequest}]]
    /\ process \in [Agents -> {"none", "running", "leaving"}]
    /\ begun \in [Requests -> Nat]
    /\ chunks \in 0..MaxChunks
    /\ exits \in 0..MaxExits

Operations == {r \in Received : request[r].type \in Single}

\* After StopAllProviders a response may be counted twice, which answers a
\* request before it was sent to every agent.
Miscounted(r) == stopped /\ request[r].type \in Aggregated \ {"stopAll"}

\* "... to allow responses to be definitively correllated with requests": a
\* request is answered once and with its own response, however its responses,
\* the end of its agents, a retry and the reuse of its address coincide.
AnsweredOnce ==
    \A r \in Received :
        /\ Len(answers[r]) > 1 => CleanedUp(r) \/ Miscounted(r)
        /\ \A k \in DOMAIN answers[r] : answers[r][k] \in Requests => answers[r][k] = r

\* Agents that have not responded, or to which the request is not sent yet.
Unfinished(r) ==
    {a \in Agents : r \in Outstanding(a)}
        \cup {a \in request[r].agents : mutex[a] # r \/ request[r].at # "written"}

\* A request to all agents is answered when each has responded, or is gone.  If
\* there is one agent, its sender has also done with it.  Not so with several:
\* "acquire the _agentMutex to make sure that _processMessage thread has
\* finished processing the request" (OOPProviderManagerRouter.cpp:1741) is true
\* of the mutex of the last agent to respond only.  When the agent to which the
\* request was written last responds before another one, the answer is given,
\* and the object may be freed, while the sender still uses it at "written"
\* (1219-1263).  The last conjunct says that this is the only exception.
AnsweredInFull ==
    \A r \in Received :
        Answered(r) /\ request[r].type \in ToAll /\ ~Miscounted(r) =>
            /\ Unfinished(r) = {}
            /\ aggregator[r].expected = 1 => request[r].at = "done"

\* When a request for one agent is answered, and its object may be freed, its
\* sender, the reader and the table have done with it.
InHand(r) ==
    \/ request[r].at \in {"sending", "entered", "written"}
    \/ \E a \in Agents : r \in Outstanding(a) \/ reader[a].request = r

AnsweredLast ==
    \A r \in Operations : Answered(r) /\ ~CleanedUp(r) => ~InHand(r)

\* A request is sent again only if no provider has begun to process it.
ProcessedOnce ==
    \A r \in Operations : ~CleanedUp(r) => begun[r] <= 1

\* "... outstanding requests are completed with an error result": a request
\* that is not answered is in somebody's hands, except where a retry has failed
\* or a write of an aggregated request.
Forgotten(r) ==
    /\ ~Answered(r) /\ ~InHand(r)
    /\ r \in Operations /\ request[r].at # "dropped"

OperationsKept == \A r \in Received : ~Forgotten(r)
=============================================================================
