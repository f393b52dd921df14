----------------------- MODULE ProviderAgentsProofs -----------------------
(***************************************************************************)
(* Proofs about ProviderAgents, for any number of agents, requests,        *)
(* addresses, chunks and exits of agent processes: each request is         *)
(* answered once, with its own response, after everybody who works on it   *)
(* has done with it; an operation is processed once and never forgotten.   *)
(*                                                                         *)
(* The argument follows one token per request and agent.  A request is     *)
(* pending at an agent while it is still to be sent there or is in its     *)
(* table; the thread that takes it out of the table either counts it or    *)
(* holds it to answer it.  An operation has one token, a request that was  *)
(* sent to many agents one for each; the aggregator counts the ones that   *)
(* were used up.                                                           *)
(***************************************************************************)
EXTENDS ProviderAgents, FiniteSetTheorems, SequenceTheorems, TLAPS

\* An id is not given again while an agent may still answer it: the run makes
\* the same assumption, without which a late response answers a new request.
Fresh == ~StaleReuse

\* A sender holds the mutex of the agent it sends to.
Busy == {"entered", "written"}

\* Where a request can be found.
In(r, a)       == r \in Outstanding(a)
Asked(r, a)    == \E m \in unread[a] : m.of = r
Served(r, a)   == \E m \in working[a] : m.of = r
Heard(r, a)    == \E k \in DOMAIN written[a] : written[a][k].of = r
Replied(r, a)  == \E k \in DOMAIN written[a] :
                      written[a][k].of = r /\ written[a][k].kind = "complete"
Near(r, a)     == Asked(r, a) \/ Served(r, a) \/ Heard(r, a)
Farewell(a)    == \E k \in DOMAIN written[a] : written[a][k].kind = "bye"

\* The process ended without a farewell.
Lost(a) == process[a] = "none" /\ ~Farewell(a) /\ reader[a].at # "clean"

\* Agents that are still to complete the request, and those whose reader is
\* about to answer it.
Pending(r) == {a \in Agents : (a \in request[r].agents /\ mutex[a] # r) \/ In(r, a)}
Holding(r) == {a \in Agents : reader[a].at = "complete" /\ reader[a].request = r}

\* Cases in which the code does not keep what is said of the other requests.
Exempt(r) == CleanedUp(r) \/ Miscounted(r)
-----------------------------------------------------------------------------
\* Each agent: what a container that is not initialized has, what a process
\* that is leaving has done, and that nothing follows its last message.
Process(a) ==
    /\ ~active[a] =>
          /\ process[a] = "none" /\ reader[a].at = "off" /\ written[a] = <<>>
          /\ table[a] = <<>> /\ mutex[a] = NoRequest
    /\ active[a] => reader[a].at # "off"
    /\ process[a] = "none" => unread[a] = {}
    /\ process[a] # "running" => working[a] = {}
    /\ \A k \in DOMAIN written[a] : written[a][k].kind = "bye" =>
          k = Len(written[a]) /\ process[a] # "running"
    /\ reader[a].at \in {"clean", "lost"} => written[a] = <<>> /\ process[a] # "running"

\* Ids in tables and messages are those of their requests.
Labelled(a) ==
    /\ \A x \in DOMAIN table[a] :
          request[table[a][x]].at # "none" /\ request[table[a][x]].id = x
    /\ \A m \in unread[a] \cup working[a] :
          request[m.of].at # "none" /\ request[m.of].id = m.id
    /\ \A k \in DOMAIN written[a] : written[a][k].kind # "bye" =>
          /\ written[a][k].of \in Requests
          /\ request[written[a][k].of].at # "none"
          /\ request[written[a][k].of].id = written[a][k].id
    /\ \A k \in DOMAIN written[a] :
          written[a][k].kind = "bye" => written[a][k].of = NoRequest

\* A reader answers a request with the response to it.
Reads(a) ==
    IF reader[a].at \in {"chunk", "complete"}
    THEN /\ reader[a].request \in Requests /\ reader[a].of = reader[a].request
         /\ request[reader[a].request].at # "none"
    ELSE reader[a].request = NoRequest

\* The address of a request cannot be given to another one yet.
Live(r) ==
    \/ ~Answered(r)
    \/ request[r].at \notin {"done", "dropped"}
    \/ \E a \in Agents : In(r, a) \/ Near(r, a)

Unique == \A q, r \in Received : Live(q) /\ Live(r) /\ request[q].id = request[r].id => q = r
-----------------------------------------------------------------------------
OfAgent(a) == Process(a) /\ Labelled(a) /\ Reads(a)

\* A request object that does not exist yet.
Unborn(r) ==
    /\ answers[r] = <<>> /\ begun[r] = 0
    /\ \A a \in Agents : mutex[a] # r

\* The sender of a request: it holds one mutex while it writes.
Locked(r) ==
    /\ \A a \in Agents : mutex[a] = r => a \in request[r].agents /\ request[r].at \in Busy
    /\ \A a, b \in Agents : mutex[a] = r /\ mutex[b] = r => a = b
    /\ request[r].at \in Busy => \E a \in Agents : mutex[a] = r
    /\ request[r].agents = {} <=> request[r].at \in {"done", "dropped"}
    /\ \A a \in Agents : In(r, a) /\ a \in request[r].agents => mutex[a] = r
    /\ request[r].at = "dropped" =>
          request[r].retry /\ (request[r].type \in Single => \A a \in Agents : ~In(r, a))
    /\ request[r].retry => request[r].type \in {"operation"} \cup ToModule

\* The entry is made before the request is written.
Listed(r) ==
    ~Exempt(r) => \A a \in Agents : mutex[a] = r /\ request[r].at = "entered" => In(r, a)

\* No agent knows a request that is still to be written to it.
Unseen(r) ==
    \A a \in request[r].agents :
        (mutex[a] = r => request[r].at = "entered") => ~Near(r, a) /\ reader[a].request # r

\* A request for one agent is never seen at another.
AtHome(r, h) ==
    /\ request[r].agents \subseteq {h}
    /\ \A a \in Agents \ {h} :
          ~In(r, a) /\ ~Near(r, a) /\ reader[a].request # r

Home(r) == request[r].type \in Single => \E h \in Agents : AtHome(r, h)

\* A request for one agent on its way there and back: nobody processes it before
\* it is written, and its response leads to its entry.
Followed(r) ==
    /\ request[r].at \in {"sending", "entered"} => begun[r] = 0
    /\ begun[r] \in {0, 1}
    /\ \A a \in Agents :
          /\ Asked(r, a) => begun[r] = 0
          /\ reader[a].at = "chunk" /\ reader[a].request = r => In(r, a)
          /\ In(r, a) /\ begun[r] = 1 =>
                Served(r, a) \/ Replied(r, a) \/ Lost(a)
    /\ Answered(r) => request[r].at \notin Busy
    /\ Pending(r) # {} \/ Holding(r) # {} \/ Answered(r) \/ request[r].at = "dropped"

Handled(r) == request[r].type \in Single /\ ~Exempt(r) => Followed(r)

\* A request with one token: it is to be sent, in a table, about to be
\* answered, answered, or dropped.
OneToken(r) ==
    /\ \A a, b \in Pending(r) \cup Holding(r) : a = b
    /\ Pending(r) \cap Holding(r) = {}
    /\ Answered(r) \/ request[r].at = "dropped" => Pending(r) = {} /\ Holding(r) = {}
    /\ Len(answers[r]) <= 1
    /\ request[r].at = "dropped" => ~Answered(r)

Tokens(r) == ~HasAggregator(r) /\ ~Exempt(r) => OneToken(r)

\* A request with an aggregator: responses counted and still to come.  When
\* some got lost, no response is the last one, and only the sender answers.
Counts(r) ==
    LET counted == aggregator[r].received
        left == Cardinality(Pending(r))
        expected == aggregator[r].expected
    IN  /\ counted + left <= expected
        /\ counted < expected => aggregator[r].alive
        /\ left # 0 \/ counted # expected =>
              /\ Holding(r) = {}
              /\ Answered(r) => /\ counted + left < expected
                                /\ request[r].at = "done"
                                /\ request[r].type \in ToModule
        /\ \A a, b \in Holding(r) : a = b
        /\ Holding(r) # {} => ~Answered(r)
        /\ Len(answers[r]) <= 1

Aggregates(r) == HasAggregator(r) /\ ~Exempt(r) => Counts(r)
-----------------------------------------------------------------------------
OfRequest(r) ==
    IF request[r].at = "none" THEN Unborn(r)
    ELSE /\ Locked(r) /\ Listed(r) /\ Unseen(r) /\ Home(r)
         /\ Handled(r) /\ Tokens(r) /\ Aggregates(r)

AgentsInv ==
    /\ TypeOK
    /\ \A a \in Agents : OfAgent(a)
    /\ Unique
    /\ \A r \in Requests : OfRequest(r)

-----------------------------------------------------------------------------
\* What a step may do that leaves the sender, the table and the answer of q
\* alone.
SenderSame(q) ==
    /\ request'[q] = request[q]
    /\ answers'[q] = answers[q]
    /\ aggregator'[q] = aggregator[q]
    /\ stopped => stopped'
    /\ \A a \in Agents :
          /\ mutex'[a] = q <=> mutex[a] = q
          /\ In(q, a)' <=> In(q, a)
          /\ reader'[a].at = "complete" /\ reader'[a].request = q
                <=> reader[a].at = "complete" /\ reader[a].request = q

\* The same for its messages: no new agent gets to know it.
MessageSame(q) ==
    /\ begun'[q] = begun[q]
    /\ \A a \in Agents :
          /\ Asked(q, a)' => Asked(q, a)
          /\ Near(q, a)' => Near(q, a)
          /\ reader'[a].request = q =>
                \/ reader[a].request = q /\ reader'[a].at = reader[a].at
                \/ reader'[a].at = "chunk" /\ In(q, a) /\ Near(q, a)
          /\ In(q, a) /\ (Served(q, a) \/ Replied(q, a) \/ Lost(a)) =>
                Served(q, a)' \/ Replied(q, a)' \/ Lost(a)'

\* A request that was received has the fields of a request.
LEMMA RecordOf ==
    ASSUME TypeOK, NEW r \in Requests, request[r].at # "none"
    PROVE  request[r] \in RequestRecord
BY DEF TypeOK, RequestRecord

\* A request whose sender is left alone has the same tokens.
LEMMA PendingSame ==
    ASSUME NEW q \in Requests, SenderSame(q)
    PROVE  Pending(q)' = Pending(q) /\ Holding(q)' = Holding(q)
<1>1. ASSUME NEW a \in Agents
      PROVE  (a \in Pending(q)' <=> a \in Pending(q)) /\ (a \in Holding(q)' <=> a \in Holding(q))
  BY DEF SenderSame, Pending, Holding
<1>2. Pending(q) \subseteq Agents /\ Pending(q)' \subseteq Agents
  BY DEF Pending
<1>3. Holding(q) \subseteq Agents /\ Holding(q)' \subseteq Agents
  BY DEF Holding
<1> QED
  BY <1>1, <1>2, <1>3

\* An exception once made stays one.
LEMMA ExemptSame ==
    ASSUME NEW q \in Requests, SenderSame(q), Exempt(q)
    PROVE  Exempt(q)'
BY DEF SenderSame, Exempt, CleanedUp, Miscounted

\* What is said of the sender, the table and the answer of q stays true.
LEMMA SenderKept ==
    ASSUME NEW q \in Requests, SenderSame(q), Locked(q), Listed(q), Tokens(q), Aggregates(q)
    PROVE  Locked(q)' /\ Listed(q)' /\ Tokens(q)' /\ Aggregates(q)'
<1>1. Pending(q)' = Pending(q) /\ Holding(q)' = Holding(q) /\ (~Exempt(q)' => ~Exempt(q))
  BY PendingSame, ExemptSame
<1>2. HasAggregator(q)' <=> HasAggregator(q)
  BY DEF HasAggregator, SenderSame
<1>3. Answered(q)' <=> Answered(q)
  BY DEF Answered, SenderSame
<1>4. Locked(q)'
  BY DEF Locked, SenderSame
<1>5. Listed(q)'
  BY <1>1 DEF Listed, SenderSame
<1>6. OneToken(q) => OneToken(q)'
  BY <1>1, <1>3 DEF OneToken, SenderSame
<1>7. Counts(q) => Counts(q)'
  BY <1>1, <1>3 DEF Counts, SenderSame
<1> QED
  BY <1>1, <1>2, <1>4, <1>5, <1>6, <1>7 DEF Tokens, Aggregates

\* What is said of its messages stays true, too.
LEMMA MessagesKept ==
    ASSUME NEW q \in Requests, SenderSame(q), MessageSame(q), request[q].agents \subseteq Agents,
           Unseen(q), Home(q), Handled(q)
    PROVE  Unseen(q)' /\ Home(q)' /\ Handled(q)'
<1>1. Pending(q)' = Pending(q) /\ Holding(q)' = Holding(q) /\ (~Exempt(q)' => ~Exempt(q))
  BY PendingSame, ExemptSame
<1>2. Answered(q)' <=> Answered(q)
  BY DEF Answered, SenderSame
<1>3. ASSUME NEW h \in Agents, AtHome(q, h)
      PROVE  AtHome(q, h)'
  BY <1>3 DEF AtHome, SenderSame, MessageSame
<1>4. ASSUME Followed(q)
      PROVE  Followed(q)'
  <2>1. request'[q].at \in {"sending", "entered"} => begun'[q] = 0
    BY <1>4 DEF Followed, SenderSame, MessageSame
  <2>2. begun'[q] \in {0, 1}
    BY <1>4 DEF Followed, MessageSame
  <2>3. ASSUME NEW a \in Agents
        PROVE  /\ Asked(q, a)' => begun'[q] = 0
               /\ reader'[a].at = "chunk" /\ reader'[a].request = q => In(q, a)'
               /\ In(q, a)' /\ begun'[q] = 1 => Served(q, a)' \/ Replied(q, a)' \/ Lost(a)'
    BY <1>4 DEF Followed, SenderSame, MessageSame
  <2>4. Answered(q)' => request'[q].at \notin Busy
    BY <1>4, <1>2 DEF Followed, SenderSame
  <2>5. Pending(q)' # {} \/ Holding(q)' # {} \/ Answered(q)' \/ request'[q].at = "dropped"
    BY <1>4, <1>1, <1>2 DEF Followed, SenderSame
  <2> QED
    BY <2>1, <2>2, <2>3, <2>4, <2>5 DEF Followed
<1>5. Home(q)'
  BY <1>3 DEF Home, SenderSame
<1>6. Handled(q)'
  BY <1>1, <1>4 DEF Handled, SenderSame
<1>7. Unseen(q)'
  BY DEF Unseen, SenderSame, MessageSame
<1> QED
  BY <1>5, <1>6, <1>7

\* An address that may be given away may still be given away.
LEMMA LiveKept ==
    ASSUME NEW q \in Requests, SenderSame(q), MessageSame(q), Live(q)'
    PROVE  Live(q)
BY DEF Live, SenderSame, MessageSame, Answered

\* A step that leaves a request alone keeps what is said of it.
LEMMA RequestKept ==
    ASSUME TypeOK, NEW q \in Requests, SenderSame(q), MessageSame(q), OfRequest(q)
    PROVE  OfRequest(q)' /\ (Live(q)' => Live(q))
<1>1. CASE request[q].at = "none"
  <2>1. Unborn(q) /\ request'[q].at = "none"
    BY <1>1 DEF OfRequest, SenderSame
  <2>2. Unborn(q)'
    BY <2>1 DEF Unborn, SenderSame, MessageSame
  <2> QED
    BY <2>1, <2>2, LiveKept DEF OfRequest
<1>2. CASE request[q].at # "none"
  <2>1. request'[q].at # "none"
    BY <1>2 DEF SenderSame
  <2>2. request[q].agents \subseteq Agents
    BY <1>2, RecordOf DEF RequestRecord
  <2> QED
    BY <1>2, <2>1, <2>2, SenderKept, MessagesKept, LiveKept DEF OfRequest
<1> QED
  BY <1>1, <1>2

\* A request that was received keeps its type and its id.
IdsKept ==
    \A q \in Requests : request[q].at # "none" =>
        /\ request'[q].at # "none"
        /\ request'[q].id = request[q].id
        /\ request'[q].type = request[q].type

\* A step that leaves an agent and its container alone.
AgentSame(a) ==
    /\ active'[a] = active[a] /\ process'[a] = process[a] /\ reader'[a] = reader[a]
    /\ written'[a] = written[a] /\ table'[a] = table[a] /\ mutex'[a] = mutex[a]
    /\ unread'[a] = unread[a] /\ working'[a] = working[a]

\* What is said of an agent that is left alone stays true.
LEMMA AgentKept ==
    ASSUME TypeOK, NEW a \in Agents, AgentSame(a), IdsKept, OfAgent(a)
    PROVE  OfAgent(a)'
<1>1. /\ \A x \in DOMAIN table[a] : table[a][x] \in Requests
      /\ \A m \in unread[a] \cup working[a] : m.of \in Requests
  BY DEF TypeOK, Table
<1>2. Process(a)'
  BY DEF AgentSame, OfAgent, Process
<1>3. Labelled(a)'
  BY <1>1 DEF AgentSame, OfAgent, Labelled, IdsKept
<1>4. Reads(a)'
  BY DEF AgentSame, OfAgent, Reads, IdsKept
<1> QED
  BY <1>2, <1>3, <1>4 DEF OfAgent

\* Addresses stay unique as long as none is given away.
LEMMA UniqueKept ==
    ASSUME Unique,
           \A q \in Requests : request'[q].at # "none" =>
               request[q].at # "none" /\ request'[q].id = request[q].id /\ (Live(q)' => Live(q))
    PROVE  Unique'
BY DEF Unique, Received

\* An entry that is made is found.
LEMMA EntryAdded ==
    ASSUME TypeOK, NEW r \in Requests, NEW a \in Agents,
           request[r].at # "none",
           request[r].id \notin DOMAIN table[a],
           table' = [table EXCEPT ![a] = AddEntry(r, a)]
    PROVE  /\ table' \in [Agents -> Table]
           /\ \A q \in Requests, b \in Agents : In(q, b)' <=> In(q, b) \/ (q = r /\ b = a)
           /\ DOMAIN table'[a] = DOMAIN table[a] \cup {request[r].id}
           /\ \A x \in DOMAIN table[a] : table'[a][x] = table[a][x]
           /\ table'[a][request[r].id] = r
<1>1. request[r].id \in Addresses
  BY RecordOf DEF RequestRecord
<1>2. PICK S \in SUBSET Addresses : table[a] \in [S -> Requests]
  BY DEF TypeOK, Table
<1>3. table'[a] = [x \in S \cup {request[r].id} |-> IF x = request[r].id THEN r ELSE table[a][x]]
  BY <1>2 DEF AddEntry, TypeOK
<1>4. table'[a] \in [S \cup {request[r].id} -> Requests]
  BY <1>2, <1>3
<1>5. table'[a] \in Table
  BY <1>1, <1>4 DEF Table
<1>6. \A b \in Agents \ {a} : table'[b] = table[b]
  BY DEF TypeOK
<1>7. table' \in [Agents -> Table]
  BY <1>5 DEF TypeOK
<1>8. ASSUME NEW q \in Requests
      PROVE  In(q, a)' <=> In(q, a) \/ q = r
  BY <1>2, <1>3 DEF In, Outstanding
<1>9. ASSUME NEW q \in Requests, NEW b \in Agents
      PROVE  In(q, b)' <=> In(q, b) \/ (q = r /\ b = a)
  BY <1>6, <1>8 DEF In, Outstanding
<1> QED
  BY <1>2, <1>3, <1>7, <1>9

\* An entry that is removed is gone, and the others stay.
LEMMA EntryRemoved ==
    ASSUME TypeOK, NEW a \in Agents, Labelled(a), NEW id \in Addresses,
           table' = [table EXCEPT ![a] = WithoutEntry(a, id)]
    PROVE  /\ table' \in [Agents -> Table]
           /\ \A q \in Requests, b \in Agents :
                 In(q, b)' <=> In(q, b) /\ (b = a => request[q].id # id)
           /\ DOMAIN table'[a] = DOMAIN table[a] \ {id}
           /\ \A x \in DOMAIN table'[a] : table'[a][x] = table[a][x]
<1>2. PICK S \in SUBSET Addresses : table[a] \in [S -> Requests]
  BY DEF TypeOK, Table
<1>3. table'[a] = [x \in S \ {id} |-> table[a][x]]
  BY <1>2 DEF WithoutEntry, TypeOK
<1>4. table'[a] \in [S \ {id} -> Requests]
  BY <1>2, <1>3
<1>5. table'[a] \in Table
  BY <1>4 DEF Table
<1>6. \A b \in Agents \ {a} : table'[b] = table[b]
  BY DEF TypeOK
<1>7. table' \in [Agents -> Table]
  BY <1>5 DEF TypeOK
<1>8. ASSUME NEW q \in Requests
      PROVE  In(q, a)' <=> In(q, a) /\ request[q].id # id
  BY <1>2, <1>3 DEF In, Outstanding, Labelled
<1>9. ASSUME NEW q \in Requests, NEW b \in Agents
      PROVE  In(q, b)' <=> In(q, b) /\ (b = a => request[q].id # id)
  BY <1>6, <1>8 DEF In, Outstanding
<1> QED
  BY <1>2, <1>3, <1>7, <1>9

\* A request in a table is in the place of its id, and received.
LEMMA EntryOf ==
    ASSUME TypeOK, NEW a \in Agents, Labelled(a), NEW r \in Requests, In(r, a)
    PROVE  /\ request[r].at # "none"
           /\ request[r].id \in DOMAIN table[a]
           /\ table[a][request[r].id] = r
BY DEF TypeOK, Table, In, Outstanding, Labelled

\* No two requests in use have the same id.
LEMMA SameId ==
    ASSUME Unique, NEW q \in Requests, NEW r \in Requests,
           request[q].at # "none", request[r].at # "none",
           Live(q), Live(r), request[q].id = request[r].id
    PROVE  q = r
BY DEF Unique, Received

-----------------------------------------------------------------------------
\* A step that leaves every request alone, and touches one agent.
LEMMA OneAgentStep ==
    ASSUME AgentsInv, TypeOK', NEW a \in Agents, OfAgent(a)',
           \A b \in Agents \ {a} : AgentSame(b),
           \A q \in Requests : SenderSame(q) /\ MessageSame(q)
    PROVE  AgentsInv'
<1>1. IdsKept
  BY DEF IdsKept, SenderSame
<1>2. \A b \in Agents : OfAgent(b)'
  BY <1>1, AgentKept DEF AgentsInv
<1>3. \A q \in Requests : OfRequest(q)' /\ (Live(q)' => Live(q))
  BY RequestKept DEF AgentsInv
<1>4. Unique'
  BY <1>3, UniqueKept DEF AgentsInv, SenderSame
<1> QED
  BY <1>2, <1>3, <1>4 DEF AgentsInv

\* A message that was written comes last.
LEMMA Appended ==
    ASSUME NEW S, NEW s \in Seq(S), NEW e \in S
    PROVE  /\ Append(s, e) \in Seq(S)
           /\ Len(Append(s, e)) = Len(s) + 1 /\ Len(s) \in Nat
           /\ DOMAIN s = 1..Len(s) /\ DOMAIN Append(s, e) = 1..(Len(s) + 1)
           /\ \A k \in DOMAIN s : Append(s, e)[k] = s[k]
           /\ Append(s, e)[Len(s) + 1] = e
OBVIOUS

\* A message that was read was the first one.
LEMMA TailOf ==
    ASSUME NEW S, NEW s \in Seq(S), s # <<>>
    PROVE  /\ Tail(s) \in Seq(S) /\ Head(s) \in S /\ Head(s) = s[1]
           /\ Len(s) \in Nat /\ Len(Tail(s)) = Len(s) - 1
           /\ DOMAIN s = 1..Len(s) /\ 1 \in DOMAIN s /\ DOMAIN Tail(s) = 1..(Len(s) - 1)
           /\ \A k \in DOMAIN Tail(s) : k + 1 \in DOMAIN s /\ Tail(s)[k] = s[k + 1]
           /\ \A k \in DOMAIN s : k # 1 => k - 1 \in DOMAIN Tail(s) /\ Tail(s)[k - 1] = s[k]
OBVIOUS

\* A step of an agent that only changes its own variables.
AgentAlone(a) ==
    /\ UNCHANGED <<requestVars, aggregator, stopped, mutex, table, active>>
    /\ \A b \in Agents \ {a} :
          /\ process'[b] = process[b] /\ reader'[b] = reader[b] /\ written'[b] = written[b]
          /\ unread'[b] = unread[b] /\ working'[b] = working[b]
    /\ reader' = reader

\* Such a step leaves the other agents and all senders alone.
LEMMA AloneLeaves ==
    ASSUME NEW a \in Agents, AgentAlone(a)
    PROVE  /\ \A b \in Agents \ {a} : AgentSame(b)
           /\ \A q \in Requests : SenderSame(q)
<1>1. \A q \in Requests, b \in Agents : In(q, b)' <=> In(q, b)
  BY DEF AgentAlone, In, Outstanding
<1> QED
  BY <1>1 DEF AgentAlone, AgentSame, SenderSame, requestVars

\* Messages of the other agents are the same.
LEMMA AloneMessages ==
    ASSUME NEW a \in Agents, AgentAlone(a), NEW b \in Agents \ {a}, NEW q \in Requests
    PROVE  /\ (Asked(q, b)' <=> Asked(q, b)) /\ (Served(q, b)' <=> Served(q, b))
           /\ (Heard(q, b)' <=> Heard(q, b)) /\ (Replied(q, b)' <=> Replied(q, b))
           /\ (Lost(b)' <=> Lost(b))
BY DEF AgentAlone, Asked, Served, Heard, Replied, Lost, Farewell

\* When one agent's messages of a request only go, all do.
LEMMA AloneMessageSame ==
    ASSUME NEW a \in Agents, AgentAlone(a), NEW q \in Requests,
           begun'[q] = begun[q],
           Asked(q, a)' => Asked(q, a),
           Near(q, a)' => Near(q, a),
           In(q, a) /\ (Served(q, a) \/ Replied(q, a) \/ Lost(a)) =>
                Served(q, a)' \/ Replied(q, a)' \/ Lost(a)'
    PROVE  MessageSame(q)
<1>1. ASSUME NEW b \in Agents \ {a}
      PROVE  /\ Asked(q, b)' => Asked(q, b)
             /\ Near(q, b)' => Near(q, b)
             /\ In(q, b) /\ (Served(q, b) \/ Replied(q, b) \/ Lost(b)) =>
                   Served(q, b)' \/ Replied(q, b)' \/ Lost(b)'
  BY AloneMessages DEF Near
<1>2. reader' = reader
  BY DEF AgentAlone
<1> QED
  BY <1>1, <1>2 DEF MessageSame

\* A provider writes a part of its response.
LEMMA WriteChunkStep ==
    ASSUME AgentsInv, NEW a \in Agents, WriteChunk(a)
    PROVE  AgentsInv'
<1>1. PICK m \in working[a] : written' = [written EXCEPT ![a] = Append(@, Message("chunk", m))]
  BY DEF WriteChunk
<1> DEFINE c == Message("chunk", m)
<1>2. TypeOK /\ OfAgent(a)
  BY DEF AgentsInv
<1>3. m \in [id: Addresses, of: Requests] /\ c \in Messages /\ written[a] \in Seq(Messages)
  <2>1. m \in [id: Addresses, of: Requests]
    BY <1>2 DEF TypeOK
  <2>2. c \in Messages
    BY <2>1 DEF Messages, Message
  <2> QED
    BY <1>2, <2>1, <2>2 DEF TypeOK
<1>4. /\ c.kind = "chunk" /\ c.of = m.of /\ c.id = m.id
      /\ written'[a] = Append(written[a], c)
  BY <1>1, <1>2 DEF TypeOK, Message
<1> HIDE DEF c
<1>5. /\ written'[a] \in Seq(Messages)
      /\ DOMAIN written[a] = 1..Len(written[a]) /\ Len(written[a]) \in Nat
      /\ DOMAIN written'[a] = 1..(Len(written[a]) + 1)
      /\ \A k \in DOMAIN written[a] : written'[a][k] = written[a][k]
      /\ written'[a][Len(written[a]) + 1] = c
  BY <1>3, <1>4, Appended
<1>6. TypeOK'
  <2>1. written' \in [Agents -> Seq(Messages)]
    BY <1>1, <1>2, <1>5 DEF TypeOK
  <2>2. chunks' \in 0..MaxChunks
    BY <1>2, AgentsAssumption DEF TypeOK, WriteChunk
  <2> QED
    BY <1>2, <2>1, <2>2 DEF TypeOK, WriteChunk, requestVars, serverVars, Outstanding
<1>7. AgentAlone(a)
  BY <1>1, <1>2 DEF TypeOK, AgentAlone, WriteChunk, requestVars, serverVars
<1>8. process[a] = "running" /\ reader[a].at \notin {"clean", "lost"} /\ ~Farewell(a)
  BY <1>2 DEF OfAgent, Process, Farewell
<1>9. OfAgent(a)'
  <2>1. /\ UNCHANGED <<request, active, process, reader, table, mutex, unread, working>>
    BY DEF WriteChunk, requestVars, serverVars
  <2>2. Process(a)'
    BY <1>2, <1>4, <1>5, <1>8, <2>1 DEF OfAgent, Process
  <2>3. Labelled(a)'
    BY <1>2, <1>3, <1>4, <1>5, <2>1 DEF OfAgent, Labelled
  <2>4. Reads(a)'
    BY <1>2, <2>1 DEF OfAgent, Reads
  <2> QED
    BY <2>2, <2>3, <2>4 DEF OfAgent
<1>10. ASSUME NEW q \in Requests
       PROVE  MessageSame(q)
  <2>1. UNCHANGED <<unread, working, begun, process, reader>>
    BY DEF WriteChunk, serverVars
  <2>2. (Asked(q, a)' <=> Asked(q, a)) /\ (Served(q, a)' <=> Served(q, a))
    BY <2>1 DEF Asked, Served
  <2>3. Heard(q, a)' => Heard(q, a) \/ Served(q, a)
    BY <1>4, <1>5 DEF Heard, Served
  <2>4. Replied(q, a) => Replied(q, a)'
    BY <1>5 DEF Replied
  <2>5. ~Lost(a)
    BY <1>8 DEF Lost
  <2> QED
    BY <1>7, <2>1, <2>2, <2>3, <2>4, <2>5, AloneMessageSame DEF Near
<1> QED
  BY <1>6, <1>7, <1>9, <1>10, AloneLeaves, OneAgentStep

\* A provider writes its response: nothing of the request comes after it.
LEMMA WriteResponseStep ==
    ASSUME AgentsInv, NEW a \in Agents, WriteResponse(a)
    PROVE  AgentsInv'
<1>1. PICK m \in working[a] :
          /\ written' = [written EXCEPT ![a] = Append(@, Message("complete", m))]
          /\ working' = [working EXCEPT ![a] = @ \ {m}]
  BY DEF WriteResponse
<1> DEFINE c == Message("complete", m)
<1>2. TypeOK /\ OfAgent(a)
  BY DEF AgentsInv
<1>3. m \in [id: Addresses, of: Requests] /\ c \in Messages /\ written[a] \in Seq(Messages)
  <2>1. m \in [id: Addresses, of: Requests]
    BY <1>2 DEF TypeOK
  <2>2. c \in Messages
    BY <2>1 DEF Messages, Message
  <2> QED
    BY <1>2, <2>1, <2>2 DEF TypeOK
<1>4. /\ c.kind = "complete" /\ c.of = m.of /\ c.id = m.id
      /\ written'[a] = Append(written[a], c) /\ working'[a] = working[a] \ {m}
  BY <1>1, <1>2 DEF TypeOK, Message
<1> HIDE DEF c
<1>5. /\ written'[a] \in Seq(Messages)
      /\ DOMAIN written[a] = 1..Len(written[a]) /\ Len(written[a]) \in Nat
      /\ DOMAIN written'[a] = 1..(Len(written[a]) + 1)
      /\ \A k \in DOMAIN written[a] : written'[a][k] = written[a][k]
      /\ written'[a][Len(written[a]) + 1] = c
  BY <1>3, <1>4, Appended
<1>6. TypeOK'
  <2>1. written' \in [Agents -> Seq(Messages)]
    BY <1>1, <1>2, <1>5 DEF TypeOK
  <2>2. working' \in [Agents -> SUBSET [id: Addresses, of: Requests]]
    BY <1>1, <1>2 DEF TypeOK
  <2> QED
    BY <1>2, <2>1, <2>2 DEF TypeOK, WriteResponse, requestVars, serverVars, Outstanding
<1>7. AgentAlone(a)
  BY <1>1, <1>2 DEF TypeOK, AgentAlone, WriteResponse, requestVars, serverVars
<1>8. process[a] = "running" /\ reader[a].at \notin {"clean", "lost"} /\ ~Farewell(a)
  BY <1>2 DEF OfAgent, Process, Farewell
<1>9. OfAgent(a)'
  <2>1. UNCHANGED <<request, active, process, reader, table, mutex, unread>>
    BY DEF WriteResponse, requestVars, serverVars
  <2>2. Process(a)'
    BY <1>2, <1>4, <1>5, <1>8, <2>1 DEF OfAgent, Process
  <2>3. Labelled(a)'
    BY <1>2, <1>3, <1>4, <1>5, <2>1 DEF OfAgent, Labelled
  <2>4. Reads(a)'
    BY <1>2, <2>1 DEF OfAgent, Reads
  <2> QED
    BY <2>2, <2>3, <2>4 DEF OfAgent
<1>10. ASSUME NEW q \in Requests
       PROVE  MessageSame(q)
  <2>1. UNCHANGED <<unread, begun, process, reader>>
    BY DEF WriteResponse, serverVars
  <2>2. Asked(q, a)' <=> Asked(q, a)
    BY <2>1 DEF Asked
  <2>3. Served(q, a)' => Served(q, a)
    BY <1>4 DEF Served
  <2>4. Heard(q, a)' => Heard(q, a) \/ Served(q, a)
    BY <1>4, <1>5 DEF Heard, Served
  <2>5. Replied(q, a) => Replied(q, a)'
    BY <1>5 DEF Replied
  <2>6. Served(q, a) => Served(q, a)' \/ Replied(q, a)'
    BY <1>4, <1>5 DEF Served, Replied
  <2>7. ~Lost(a)
    BY <1>8 DEF Lost
  <2> QED
    BY <1>7, <2>1, <2>2, <2>3, <2>4, <2>5, <2>6, <2>7, AloneMessageSame DEF Near
<1> QED
  BY <1>6, <1>7, <1>9, <1>10, AloneLeaves, OneAgentStep

\* The agent says farewell: none of its threads works.
LEMMA TerminateStep ==
    ASSUME AgentsInv, NEW a \in Agents, Terminate(a)
    PROVE  AgentsInv'
<1>2. TypeOK /\ OfAgent(a)
  BY DEF AgentsInv
<1>3. Bye \in Messages /\ written[a] \in Seq(Messages)
  BY <1>2 DEF TypeOK, Messages, Bye
<1>4. /\ Bye.kind = "bye" /\ Bye.of = NoRequest
      /\ written'[a] = Append(written[a], Bye) /\ process'[a] = "leaving"
      /\ process[a] = "running" /\ working[a] = {}
  BY <1>2 DEF TypeOK, Bye, Terminate, Quiet
<1>5. /\ written'[a] \in Seq(Messages)
      /\ DOMAIN written[a] = 1..Len(written[a]) /\ Len(written[a]) \in Nat
      /\ DOMAIN written'[a] = 1..(Len(written[a]) + 1)
      /\ Len(written'[a]) = Len(written[a]) + 1
      /\ \A k \in DOMAIN written[a] : written'[a][k] = written[a][k]
      /\ written'[a][Len(written[a]) + 1] = Bye
  BY <1>3, <1>4, Appended
<1>6. TypeOK'
  <2>1. written' \in [Agents -> Seq(Messages)]
    BY <1>2, <1>5 DEF TypeOK, Terminate
  <2>2. exits' \in 0..MaxExits /\ process' \in [Agents -> {"none", "running", "leaving"}]
    BY <1>2, AgentsAssumption DEF TypeOK, Terminate
  <2> QED
    BY <1>2, <2>1, <2>2 DEF TypeOK, Terminate, requestVars, serverVars, Outstanding
<1>7. AgentAlone(a)
  BY <1>2 DEF TypeOK, AgentAlone, Terminate, requestVars, serverVars
<1>8. reader[a].at \notin {"clean", "lost"} /\ ~Farewell(a)
  BY <1>2, <1>4 DEF OfAgent, Process, Farewell
<1>9. OfAgent(a)'
  <2>1. UNCHANGED <<request, active, reader, table, mutex, unread, working>>
    BY DEF Terminate, requestVars, serverVars
  <2>2. Process(a)'
    BY <1>2, <1>4, <1>5, <1>8, <2>1 DEF OfAgent, Process
  <2>3. Labelled(a)'
    BY <1>2, <1>3, <1>4, <1>5, <2>1 DEF OfAgent, Labelled
  <2>4. Reads(a)'
    BY <1>2, <2>1 DEF OfAgent, Reads
  <2> QED
    BY <2>2, <2>3, <2>4 DEF OfAgent
<1>10. ASSUME NEW q \in Requests
       PROVE  MessageSame(q)
  <2>1. UNCHANGED <<unread, working, begun, reader>>
    BY DEF Terminate, serverVars
  <2>2. (Asked(q, a)' <=> Asked(q, a)) /\ (Served(q, a)' <=> Served(q, a))
    BY <2>1 DEF Asked, Served
  <2>3. Heard(q, a)' => Heard(q, a)
    BY <1>4, <1>5, AgentsAssumption DEF Heard
  <2>4. Replied(q, a) => Replied(q, a)'
    BY <1>5 DEF Replied
  <2>5. ~Lost(a)
    BY <1>4 DEF Lost
  <2> QED
    BY <1>7, <2>1, <2>2, <2>3, <2>4, <2>5, AloneMessageSame DEF Near
<1> QED
  BY <1>6, <1>7, <1>9, <1>10, AloneLeaves, OneAgentStep

\* The process ends, and with it what was written to it and what it worked on.
LEMMA ExitStep ==
    ASSUME AgentsInv, NEW a \in Agents, Exit(a)
    PROVE  AgentsInv'
<1>2. TypeOK /\ OfAgent(a)
  BY DEF AgentsInv
<1>4. /\ process'[a] = "none" /\ unread'[a] = {} /\ working'[a] = {}
      /\ process[a] \in {"leaving", "running"}
  BY <1>2 DEF TypeOK, Exit
<1>6. TypeOK'
  <2>1. exits' \in 0..MaxExits
    BY <1>2, AgentsAssumption DEF TypeOK, Exit
  <2>2. /\ process' \in [Agents -> {"none", "running", "leaving"}]
        /\ unread' \in [Agents -> SUBSET [id: Addresses, of: Requests]]
        /\ working' \in [Agents -> SUBSET [id: Addresses, of: Requests]]
    BY <1>2 DEF TypeOK, Exit
  <2> QED
    BY <1>2, <2>1, <2>2 DEF TypeOK, Exit, requestVars, serverVars, Outstanding
<1>7. AgentAlone(a)
  BY <1>2 DEF TypeOK, AgentAlone, Exit, requestVars, serverVars
<1>9. OfAgent(a)'
  <2>1. UNCHANGED <<request, active, reader, table, mutex, written>>
    BY DEF Exit, requestVars, serverVars
  <2>2. Process(a)'
    BY <1>2, <1>4, <2>1 DEF OfAgent, Process
  <2>3. Labelled(a)'
    BY <1>2, <1>4, <2>1 DEF OfAgent, Labelled
  <2>4. Reads(a)'
    BY <1>2, <2>1 DEF OfAgent, Reads
  <2> QED
    BY <2>2, <2>3, <2>4 DEF OfAgent
<1>10. ASSUME NEW q \in Requests
       PROVE  MessageSame(q)
  <2>1. UNCHANGED <<written, begun, reader>>
    BY DEF Exit, serverVars
  <2>2. ~Asked(q, a)' /\ ~Served(q, a)'
    BY <1>4 DEF Asked, Served
  <2>3. (Heard(q, a)' <=> Heard(q, a)) /\ (Replied(q, a) <=> Replied(q, a)')
    BY <2>1 DEF Heard, Replied
  <2>4. Served(q, a) => Lost(a)'
    <3>1. Served(q, a) => process[a] = "running"
      BY <1>2 DEF OfAgent, Process, Served
    <3>2. process[a] = "running" => ~Farewell(a) /\ reader[a].at # "clean"
      BY <1>2 DEF OfAgent, Process, Farewell
    <3> QED
      BY <1>4, <2>1, <3>1, <3>2 DEF Lost, Farewell
  <2>5. ~Lost(a)
    BY <1>4 DEF Lost
  <2> QED
    BY <1>7, <2>1, <2>2, <2>3, <2>4, <2>5, AloneMessageSame DEF Near
<1> QED
  BY <1>6, <1>7, <1>9, <1>10, AloneLeaves, OneAgentStep

\* A thread of the agent begins to process a request: for one agent it is the
\* only one that ever does.
LEMMA AgentReadsStep ==
    ASSUME AgentsInv, NEW a \in Agents, AgentReads(a)
    PROVE  AgentsInv'
<1>1. PICK m \in unread[a] :
          /\ unread' = [unread EXCEPT ![a] = @ \ {m}]
          /\ working' = [working EXCEPT ![a] = @ \cup {m}]
          /\ begun' = [begun EXCEPT ![m.of] = @ + 1]
  BY DEF AgentReads
<1>2. TypeOK /\ OfAgent(a)
  BY DEF AgentsInv
<1>3. m \in [id: Addresses, of: Requests] /\ m.of \in Requests
  BY <1>2 DEF TypeOK
<1>4. /\ unread'[a] = unread[a] \ {m} /\ working'[a] = working[a] \cup {m}
      /\ process[a] = "running"
  BY <1>1, <1>2 DEF TypeOK, AgentReads
<1>6. TypeOK'
  <2>1. unread' \in [Agents -> SUBSET [id: Addresses, of: Requests]]
    BY <1>1, <1>2 DEF TypeOK
  <2>2. working' \in [Agents -> SUBSET [id: Addresses, of: Requests]]
    BY <1>1, <1>2, <1>3 DEF TypeOK
  <2>3. begun' \in [Requests -> Nat]
    BY <1>1, <1>2, <1>3 DEF TypeOK
  <2> QED
    BY <1>2, <2>1, <2>2, <2>3 DEF TypeOK, AgentReads, requestVars, serverVars, Outstanding
<1>7. AgentAlone(a)
  BY <1>1, <1>2 DEF TypeOK, AgentAlone, AgentReads, requestVars, serverVars
<1>8. ~Lost(a)
  BY <1>4 DEF Lost
<1>u. UNCHANGED <<request, active, process, reader, table, mutex, written>>
  BY DEF AgentReads, requestVars, serverVars
<1>9. OfAgent(a)'
  <2>2. Process(a)'
    BY <1>2, <1>4, <1>u DEF OfAgent, Process
  <2>3. Labelled(a)'
    BY <1>2, <1>3, <1>4, <1>u DEF OfAgent, Labelled
  <2>4. Reads(a)'
    BY <1>2, <1>u DEF OfAgent, Reads
  <2> QED
    BY <2>2, <2>3, <2>4 DEF OfAgent
<1>10. ASSUME NEW q \in Requests
       PROVE  /\ Asked(q, a)' => Asked(q, a)
              /\ Served(q, a) => Served(q, a)'
              /\ Served(q, a)' => Served(q, a) \/ Asked(q, a)
              /\ (Heard(q, a)' <=> Heard(q, a)) /\ (Replied(q, a)' <=> Replied(q, a))
  BY <1>4, <1>u DEF Asked, Served, Heard, Replied
<1>11. ASSUME NEW q \in Requests, q # m.of
       PROVE  MessageSame(q)
  <2>1. begun'[q] = begun[q]
    BY <1>1, <1>2, <1>11 DEF TypeOK
  <2> QED
    BY <1>7, <1>8, <1>10, <2>1, AloneMessageSame DEF Near
<1>12. \A q \in Requests : SenderSame(q)
  BY <1>7, AloneLeaves
<1>13. PICK r \in Requests : r = m.of
  BY <1>3
<1>14. request[r].at # "none" /\ request[r].id = m.id /\ Asked(r, a) /\ Served(r, a)'
  BY <1>2, <1>4, <1>13 DEF OfAgent, Labelled, Asked, Served
<1>15. ~Asked(r, a)'
  <2>1. ASSUME NEW n \in unread'[a], n.of = r
        PROVE  FALSE
    <3>1. n \in unread[a] /\ n # m
      BY <1>4, <2>1
    <3>2. n \in [id: Addresses, of: Requests] /\ n.id = request[r].id
      BY <1>2, <2>1, <3>1 DEF TypeOK, OfAgent, Labelled
    <3>3. n = m
      BY <1>3, <1>13, <1>14, <2>1, <3>2
    <3> QED
      BY <3>1, <3>3
  <2> QED
    BY <2>1 DEF Asked
<1>16. \A b \in Agents : Near(r, b)' => Near(r, b)
  BY <1>7, <1>10, AloneMessages DEF Near
<1>17. OfRequest(r) /\ ~(request'[r].at = "none") /\ request'[r] = request[r]
  BY <1>14, <1>u DEF AgentsInv
<1>18. Locked(r)' /\ Listed(r)' /\ Tokens(r)' /\ Aggregates(r)'
  BY <1>12, <1>14, <1>17, SenderKept DEF OfRequest
<1>19. ASSUME NEW h \in Agents, AtHome(r, h)
       PROVE  AtHome(r, h)'
  <2>1. \A b \in Agents : In(r, b)' <=> In(r, b)
    BY <1>12 DEF SenderSame
  <2> QED
    BY <1>16, <1>17, <1>19, <1>u, <2>1 DEF AtHome
<1>20. Home(r)' /\ Unseen(r)'
  <2>1. Home(r)'
    BY <1>14, <1>17, <1>19 DEF Home, OfRequest
  <2>2. request[r].agents \subseteq Agents
    BY <1>2, <1>14, RecordOf DEF RequestRecord
  <2>3. Unseen(r)'
    BY <1>14, <1>16, <1>17, <1>u, <2>2 DEF Unseen, OfRequest
  <2> QED
    BY <2>1, <2>3
<1>21. ASSUME request[r].type \in Single, Followed(r)
       PROVE  Followed(r)'
  <2>1. PICK h \in Agents : AtHome(r, h)
    BY <1>14, <1>17, <1>21 DEF OfRequest, Home
  <2>2. a = h
    BY <1>14, <2>1 DEF AtHome, Near
  <2>3. begun[r] = 0 /\ begun'[r] = 1
    BY <1>1, <1>2, <1>13, <1>14, <1>21 DEF Followed, TypeOK
  <2>4. request[r].at \notin {"sending", "entered"}
    <3>1. SUFFICES ASSUME request[r].at \in {"sending", "entered"}
                   PROVE  FALSE
      OBVIOUS
    <3>2. Locked(r) /\ Unseen(r)
      BY <1>14, <1>17 DEF OfRequest
    <3>3. a \in request[r].agents
      BY <2>1, <2>2, <3>1, <3>2 DEF Locked, AtHome
    <3>4. mutex[a] = r => request[r].at = "entered"
      BY <3>1, <3>2 DEF Locked, Busy
    <3> QED
      BY <1>14, <3>2, <3>3, <3>4 DEF Unseen, Near
  <2>5. \A b \in Agents : ~Asked(r, b)'
    BY <1>7, <1>15, <2>1, <2>2, AloneMessages DEF AtHome, Near
  <2>6. \A b \in Agents : (In(r, b)' <=> In(r, b)) /\ (In(r, b) => b = a)
    BY <1>12, <2>1, <2>2 DEF SenderSame, AtHome
  <2>7. Pending(r)' = Pending(r) /\ Holding(r)' = Holding(r) /\ (Answered(r)' <=> Answered(r))
    BY <1>12, PendingSame DEF SenderSame, Answered
  <2>8. /\ Answered(r)' => request'[r].at \notin Busy
        /\ Pending(r)' # {} \/ Holding(r)' # {} \/ Answered(r)' \/ request'[r].at = "dropped"
    BY <1>17, <1>21, <2>7 DEF Followed
  <2>9. \A b \in Agents : reader'[b].at = "chunk" /\ reader'[b].request = r => In(r, b)'
    BY <1>21, <1>u, <2>6 DEF Followed
  <2>10. \A b \in Agents : In(r, b)' => Served(r, b)'
    BY <1>14, <2>6
  <2> QED
    BY <1>17, <2>3, <2>4, <2>5, <2>8, <2>9, <2>10 DEF Followed
<1>22. Handled(r)'
  BY <1>12, <1>14, <1>17, <1>21, ExemptSame DEF Handled, OfRequest
<1>23. OfRequest(r)'
  BY <1>17, <1>18, <1>20, <1>22 DEF OfRequest
<1>24. Live(r)' => Live(r)
  BY <1>12, <1>16 DEF Live, SenderSame, Answered
<1>25. \A q \in Requests : OfRequest(q)' /\ (Live(q)' => Live(q))
  BY <1>11, <1>12, <1>13, <1>23, <1>24, RequestKept DEF AgentsInv
<1>26. Unique'
  BY <1>12, <1>25, UniqueKept DEF AgentsInv, SenderSame
<1>27. IdsKept
  BY <1>12 DEF IdsKept, SenderSame
<1>28. \A b \in Agents : OfAgent(b)'
  BY <1>2, <1>7, <1>9, <1>27, AloneLeaves, AgentKept DEF AgentsInv
<1> QED
  BY <1>6, <1>25, <1>26, <1>28 DEF AgentsInv

-----------------------------------------------------------------------------
\* A step of a reader that changes no request, no table and no count.
ReaderAlone(a) ==
    /\ UNCHANGED <<requestVars, aggregator, stopped, mutex, table, active>>
    /\ UNCHANGED <<process, unread, working, begun>>
    /\ \A b \in Agents \ {a} : reader'[b] = reader[b] /\ written'[b] = written[b]
    /\ reader[a].at # "complete" /\ reader'[a].at # "complete"

\* Such a step leaves the other agents and all senders alone.
LEMMA ReaderLeaves ==
    ASSUME NEW a \in Agents, ReaderAlone(a)
    PROVE  /\ \A b \in Agents \ {a} : AgentSame(b)
           /\ \A q \in Requests : SenderSame(q)
<1>1. \A q \in Requests, b \in Agents : In(q, b)' <=> In(q, b)
  BY DEF ReaderAlone, In, Outstanding
<1>2. \A b \in Agents \ {a} : AgentSame(b)
  BY DEF ReaderAlone, AgentSame
<1>3. ASSUME NEW q \in Requests
      PROVE  SenderSame(q)
  BY <1>1 DEF ReaderAlone, SenderSame, requestVars
<1> QED
  BY <1>2, <1>3

\* It leaves the messages alone when only its agent's change, and as they may.
LEMMA ReaderMessageSame ==
    ASSUME NEW a \in Agents, ReaderAlone(a), NEW q \in Requests,
           Heard(q, a)' => Heard(q, a),
           reader'[a].request = q =>
                \/ reader[a].request = q /\ reader'[a].at = reader[a].at
                \/ reader'[a].at = "chunk" /\ In(q, a) /\ Near(q, a),
           In(q, a) /\ (Served(q, a) \/ Replied(q, a) \/ Lost(a)) =>
                Served(q, a)' \/ Replied(q, a)' \/ Lost(a)'
    PROVE  MessageSame(q)
<1>1. ASSUME NEW b \in Agents
      PROVE  (Asked(q, b)' <=> Asked(q, b)) /\ (Served(q, b)' <=> Served(q, b))
  BY DEF ReaderAlone, Asked, Served
<1>2. ASSUME NEW b \in Agents \ {a}
      PROVE  /\ (Heard(q, b)' <=> Heard(q, b)) /\ (Replied(q, b)' <=> Replied(q, b))
             /\ (Lost(b)' <=> Lost(b))
  BY DEF ReaderAlone, Heard, Replied, Lost, Farewell
<1>3. begun' = begun /\ \A b \in Agents \ {a} : reader'[b] = reader[b]
  BY DEF ReaderAlone
<1> QED
  BY <1>1, <1>2, <1>3 DEF MessageSame, Near

\* The callback of a chunk returns.
LEMMA DeliverChunkStep ==
    ASSUME AgentsInv, NEW a \in Agents, DeliverChunk(a)
    PROVE  AgentsInv'
<1>2. TypeOK /\ OfAgent(a)
  BY DEF AgentsInv
<1>3. reader'[a] = Reading /\ reader[a].at = "chunk"
  BY <1>2 DEF TypeOK, DeliverChunk
<1>u. UNCHANGED <<requestVars, aggregator, stopped, active, mutex, table, agentVars>>
  BY DEF DeliverChunk
<1>4. TypeOK'
  <2>1. Reading \in [at: {"off", "reading", "chunk", "complete", "clean", "lost"},
                     request: Requests \cup {NoRequest}, of: Requests \cup {NoRequest}]
    BY DEF Reading, Idle
  <2>2. reader' \in [Agents ->
            [at: {"off", "reading", "chunk", "complete", "clean", "lost"},
             request: Requests \cup {NoRequest}, of: Requests \cup {NoRequest}]]
    BY <1>2, <2>1 DEF TypeOK, DeliverChunk
  <2> QED
    BY <1>2, <1>u, <2>2 DEF TypeOK, requestVars, agentVars
<1>5. Reading.at = "reading" /\ Reading.request = NoRequest
  BY DEF Reading, Idle
<1>6. ReaderAlone(a)
  BY <1>2, <1>3, <1>5, <1>u DEF ReaderAlone, DeliverChunk, agentVars, TypeOK
<1>7. OfAgent(a)'
  <2>1. Process(a)'
    BY <1>2, <1>3, <1>5, <1>u DEF OfAgent, Process, agentVars
  <2>2. Labelled(a)'
    BY <1>2, <1>u DEF OfAgent, Labelled, agentVars, requestVars
  <2>3. Reads(a)'
    BY <1>3, <1>5 DEF Reads
  <2> QED
    BY <2>1, <2>2, <2>3 DEF OfAgent
<1>8. ASSUME NEW q \in Requests
      PROVE  MessageSame(q)
  <2>1. reader'[a].request # q
    BY <1>3, <1>5, AgentsAssumption
  <2>2. /\ Heard(q, a)' <=> Heard(q, a)
        /\ Served(q, a)' <=> Served(q, a)
        /\ Replied(q, a)' <=> Replied(q, a)
        /\ Farewell(a)' <=> Farewell(a)
    BY <1>u DEF Heard, Served, Replied, Farewell, agentVars
  <2>3. Lost(a) => Lost(a)'
    BY <1>3, <1>5, <1>u, <2>2 DEF Lost, agentVars
  <2> QED
    BY <1>6, <2>1, <2>2, <2>3, ReaderMessageSame
<1> QED
  BY <1>4, <1>6, <1>7, <1>8, ReaderLeaves, OneAgentStep

\* The reader finds the connection closed.
LEMMA ConnectionLostStep ==
    ASSUME AgentsInv, NEW a \in Agents, ConnectionLost(a)
    PROVE  AgentsInv'
<1>2. TypeOK /\ OfAgent(a)
  BY DEF AgentsInv
<1>3. /\ reader[a].at = "reading" /\ written[a] = <<>> /\ process[a] = "none"
      /\ reader'[a].at = "lost" /\ reader'[a].request = reader[a].request
  BY <1>2 DEF TypeOK, ConnectionLost
<1>u. UNCHANGED <<requestVars, aggregator, stopped, active, mutex, table, agentVars>>
  BY DEF ConnectionLost
<1>4. TypeOK'
  <2>2. reader' \in [Agents ->
            [at: {"off", "reading", "chunk", "complete", "clean", "lost"},
             request: Requests \cup {NoRequest}, of: Requests \cup {NoRequest}]]
    BY <1>2 DEF TypeOK, ConnectionLost
  <2> QED
    BY <1>2, <1>u, <2>2 DEF TypeOK, requestVars, agentVars
<1>5. reader[a].request = NoRequest
  BY <1>2, <1>3 DEF OfAgent, Reads
<1>6. ReaderAlone(a)
  BY <1>2, <1>3, <1>u DEF ReaderAlone, ConnectionLost, agentVars, TypeOK
<1>7. OfAgent(a)'
  <2>1. Process(a)'
    BY <1>2, <1>3, <1>u DEF OfAgent, Process, agentVars
  <2>2. Labelled(a)'
    BY <1>2, <1>u DEF OfAgent, Labelled, agentVars, requestVars
  <2>3. Reads(a)'
    BY <1>3, <1>5 DEF Reads
  <2> QED
    BY <2>1, <2>2, <2>3 DEF OfAgent
<1>8. ASSUME NEW q \in Requests
      PROVE  MessageSame(q)
  <2>1. reader'[a].request # q
    BY <1>3, <1>5, AgentsAssumption
  <2>2. /\ Heard(q, a)' <=> Heard(q, a)
        /\ Served(q, a)' <=> Served(q, a)
        /\ Replied(q, a)' <=> Replied(q, a)
        /\ Farewell(a)' <=> Farewell(a)
    BY <1>u DEF Heard, Served, Replied, Farewell, agentVars
  <2>3. Lost(a) => Lost(a)'
    BY <1>3, <1>u, <2>2 DEF Lost, agentVars
  <2> QED
    BY <1>6, <2>1, <2>2, <2>3, ReaderMessageSame
<1> QED
  BY <1>4, <1>6, <1>7, <1>8, ReaderLeaves, OneAgentStep

\* The reader takes the first message from the pipe.
LEMMA ReadMessage ==
    ASSUME TypeOK, NEW a \in Agents, OfAgent(a), Read(a)
    PROVE  /\ written[a] # <<>> /\ written[a] \in Seq(Messages)
           /\ written' = [written EXCEPT ![a] = Tail(@)]
           /\ written'[a] = Tail(written[a]) /\ written' \in [Agents -> Seq(Messages)]
           /\ reader[a].at = "reading" /\ reader[a].request = NoRequest
           /\ UNCHANGED <<requestVars, stopped, active, mutex, process>>
           /\ UNCHANGED <<unread, working, begun, chunks, exits>>
           /\ Head(written[a]) \in Messages
<1>1. written[a] # <<>> /\ written[a] \in Seq(Messages)
  BY DEF TypeOK, Read
<1>2. Tail(written[a]) \in Seq(Messages) /\ Head(written[a]) \in Messages
  BY <1>1, TailOf
<1>3. written' \in [Agents -> Seq(Messages)] /\ written'[a] = Tail(written[a])
  BY <1>2 DEF TypeOK, Read
<1> QED
  BY <1>1, <1>2, <1>3 DEF Read, OfAgent, Reads

\* What the reader does with it.
ReadBye(a) ==
    /\ Head(written[a]).kind = "bye"
    /\ reader' = [reader EXCEPT ![a].at = "clean"]
    /\ UNCHANGED <<table, aggregator>>

ReadUnknown(a) ==
    /\ Head(written[a]).kind # "bye"
    /\ Head(written[a]).id \notin DOMAIN table[a]
    /\ UNCHANGED <<reader, table, aggregator>>

\* The reader is about to do something with the request of an entry.
ReaderTakes(a, at) ==
    reader' = [reader EXCEPT ![a] =
        [at |-> at, request |-> table[a][Head(written[a]).id], of |-> Head(written[a]).of]]

ReadChunk(a) ==
    /\ Head(written[a]).kind = "chunk"
    /\ Head(written[a]).id \in DOMAIN table[a]
    /\ ReaderTakes(a, "chunk")
    /\ UNCHANGED <<table, aggregator>>

ReadResponse(a) ==
    /\ Head(written[a]).kind = "complete"
    /\ Head(written[a]).id \in DOMAIN table[a]
    /\ table' = [table EXCEPT ![a] = WithoutEntry(a, Head(written[a]).id)]
    /\ LET r == table[a][Head(written[a]).id]
       IN  \/ ~HasAggregator(r) /\ ReaderTakes(a, "complete") /\ UNCHANGED aggregator
           \/ /\ HasAggregator(r)
              /\ \E last \in IsComplete(r), error \in ProviderErrors(r) :
                    /\ aggregator' = [aggregator EXCEPT ![r] = CountedResponse(r, error, last)]
                    /\ IF last THEN ReaderTakes(a, "complete") ELSE UNCHANGED reader

\* A message that is read is one of the four.
LEMMA ReadCases ==
    ASSUME NEW a \in Agents, Read(a)
    PROVE  ReadBye(a) \/ ReadUnknown(a) \/ ReadChunk(a) \/ ReadResponse(a)
BY DEF Read, ReadBye, ReadUnknown, ReadChunk, ReadResponse, ReaderTakes

\* The entry that a message leads to is that of the request it belongs to.
LEMMA EntryFits ==
    ASSUME AgentsInv, NEW a \in Agents, written[a] # <<>>,
           Head(written[a]).kind # "bye", Head(written[a]).id \in DOMAIN table[a]
    PROVE  /\ Head(written[a]).of \in Requests
           /\ Head(written[a]).of = table[a][Head(written[a]).id]
           /\ request[Head(written[a]).of].at # "none"
           /\ request[Head(written[a]).of].id = Head(written[a]).id
           /\ Heard(Head(written[a]).of, a) /\ In(Head(written[a]).of, a)
<1>1. TypeOK /\ OfAgent(a) /\ Unique
  BY DEF AgentsInv
<1>2. written[a] \in Seq(Messages)
  BY <1>1 DEF TypeOK
<1>3. 1 \in DOMAIN written[a] /\ Head(written[a]) = written[a][1]
  BY <1>2, TailOf
<1>4. PICK m : m = Head(written[a])
  OBVIOUS
<1>5. m.of \in Requests /\ request[m.of].at # "none" /\ request[m.of].id = m.id
  BY <1>1, <1>3, <1>4 DEF OfAgent, Labelled
<1>6. PICK q \in Requests : q = table[a][m.id]
  BY <1>1, <1>4 DEF TypeOK, Table
<1>7. request[q].at # "none" /\ request[q].id = m.id /\ In(q, a)
  BY <1>1, <1>4, <1>6 DEF OfAgent, Labelled, In, Outstanding
<1>8. Heard(m.of, a)
  BY <1>3, <1>4 DEF Heard
<1>9. Live(q) /\ Live(m.of)
  BY <1>7, <1>8 DEF Live, Near
<1>10. q = m.of
  BY <1>1, <1>5, <1>7, <1>9, SameId
<1> QED
  BY <1>4, <1>5, <1>6, <1>7, <1>8, <1>10

\* The messages that are left when the first one was read.
LEMMA ReadLeaves ==
    ASSUME TypeOK, NEW a \in Agents, written[a] # <<>>, written'[a] = Tail(written[a]),
           NEW q \in Requests
    PROVE  /\ Heard(q, a)' => Heard(q, a)
           /\ Farewell(a)' => Farewell(a)
           /\ Replied(q, a) =>
                 Replied(q, a)' \/ (Head(written[a]).kind = "complete" /\ Head(written[a]).of = q)
           /\ Farewell(a) => Farewell(a)' \/ Head(written[a]).kind = "bye"
<1>1. written[a] \in Seq(Messages)
  BY DEF TypeOK
<1>2. /\ Head(written[a]) = written[a][1]
      /\ \A k \in DOMAIN written'[a] :
            k + 1 \in DOMAIN written[a] /\ written'[a][k] = written[a][k + 1]
      /\ \A k \in DOMAIN written[a] : k # 1 =>
            k - 1 \in DOMAIN written'[a] /\ written'[a][k - 1] = written[a][k]
  BY <1>1, TailOf
<1>3. Heard(q, a)' => Heard(q, a)
  BY <1>2 DEF Heard
<1>4. Farewell(a)' => Farewell(a)
  BY <1>2 DEF Farewell
<1>5. Replied(q, a) =>
          Replied(q, a)' \/ (Head(written[a]).kind = "complete" /\ Head(written[a]).of = q)
  BY <1>2 DEF Replied
<1>6. Farewell(a) => Farewell(a)' \/ Head(written[a]).kind = "bye"
  BY <1>2 DEF Farewell
<1> QED
  BY <1>3, <1>4, <1>5, <1>6

\* What is said of the messages stays true when the first one is read, unless
\* it changes the table or the reader's place.
LEMMA ReadLabels ==
    ASSUME TypeOK, NEW a \in Agents, OfAgent(a), Read(a)
    PROVE  /\ \A k \in DOMAIN written'[a] : written'[a][k].kind = "bye" =>
                 k = Len(written'[a]) /\ process'[a] # "running"
           /\ \A m \in unread'[a] \cup working'[a] :
                 request'[m.of].at # "none" /\ request'[m.of].id = m.id
           /\ \A k \in DOMAIN written'[a] :
                 /\ written'[a][k].kind # "bye" =>
                      /\ written'[a][k].of \in Requests
                      /\ request'[written'[a][k].of].at # "none"
                      /\ request'[written'[a][k].of].id = written'[a][k].id
                 /\ written'[a][k].kind = "bye" => written'[a][k].of = NoRequest
<1>1. /\ UNCHANGED <<request, unread, working, process>>
      /\ written[a] \in Seq(Messages) /\ written[a] # <<>> /\ written'[a] = Tail(written[a])
  BY ReadMessage DEF requestVars
<1>2. /\ \A k \in DOMAIN written'[a] :
            k + 1 \in DOMAIN written[a] /\ written'[a][k] = written[a][k + 1]
      /\ Len(written'[a]) = Len(written[a]) - 1 /\ Len(written[a]) \in Nat
      /\ DOMAIN written'[a] = 1..(Len(written[a]) - 1)
  BY <1>1, TailOf
<1>3. ASSUME NEW k \in DOMAIN written'[a], written'[a][k].kind = "bye"
      PROVE  k = Len(written'[a]) /\ process'[a] # "running"
  <2>1. k + 1 = Len(written[a]) /\ process[a] # "running"
    BY <1>2, <1>3 DEF OfAgent, Process
  <2> QED
    BY <1>1, <1>2, <2>1
<1>4. \A m \in unread'[a] \cup working'[a] :
          request'[m.of].at # "none" /\ request'[m.of].id = m.id
  BY <1>1 DEF OfAgent, Labelled
<1>5. \A k \in DOMAIN written'[a] :
          /\ written'[a][k].kind # "bye" =>
                /\ written'[a][k].of \in Requests
                /\ request'[written'[a][k].of].at # "none"
                /\ request'[written'[a][k].of].id = written'[a][k].id
          /\ written'[a][k].kind = "bye" => written'[a][k].of = NoRequest
  BY <1>1, <1>2 DEF OfAgent, Labelled
<1> QED
  BY <1>3, <1>4, <1>5

\* The types after a message was read that leaves table and count alone.
LEMMA ReadQuietTypes ==
    ASSUME AgentsInv, NEW a \in Agents, Read(a), UNCHANGED <<table, aggregator>>,
           ReadBye(a) \/ ReadUnknown(a) \/ ReadChunk(a)
    PROVE  TypeOK'
<1>1. TypeOK /\ OfAgent(a)
  BY DEF AgentsInv
<1>2. reader' \in [Agents ->
          [at: {"off", "reading", "chunk", "complete", "clean", "lost"},
           request: Requests \cup {NoRequest}, of: Requests \cup {NoRequest}]]
  <2>1. CASE ReadBye(a)
    BY <1>1, <2>1 DEF TypeOK, ReadBye
  <2>2. CASE ReadUnknown(a)
    BY <1>1, <2>2 DEF TypeOK, ReadUnknown
  <2>3. CASE ReadChunk(a)
    <3>1. PICK r \in Requests : r = table[a][Head(written[a]).id] /\ r = Head(written[a]).of
      BY <1>1, <2>3, EntryFits, ReadMessage DEF ReadChunk
    <3>2. reader' = [reader EXCEPT ![a] = [at |-> "chunk", request |-> r, of |-> r]]
      BY <2>3, <3>1 DEF ReadChunk, ReaderTakes
    <3> QED
      BY <1>1, <3>2 DEF TypeOK
  <2> QED
    BY <2>1, <2>2, <2>3
<1> QED
  BY <1>1, <1>2, ReadMessage DEF TypeOK, requestVars

\* The farewell, a response whose request is gone, or a part of a response.
LEMMA ReadQuietStep ==
    ASSUME AgentsInv, NEW a \in Agents, Read(a),
           ReadBye(a) \/ ReadUnknown(a) \/ ReadChunk(a)
    PROVE  AgentsInv'
<1>1. TypeOK /\ OfAgent(a)
  BY DEF AgentsInv
<1>2. UNCHANGED <<table, aggregator>>
  BY DEF ReadBye, ReadUnknown, ReadChunk
<1>3. /\ written[a] # <<>> /\ written[a] \in Seq(Messages)
      /\ written' = [written EXCEPT ![a] = Tail(@)]
      /\ written'[a] = Tail(written[a])
      /\ reader[a].at = "reading" /\ reader[a].request = NoRequest
      /\ UNCHANGED <<requestVars, stopped, active, mutex, process>>
      /\ UNCHANGED <<unread, working, begun, chunks, exits>>
  BY <1>1, ReadMessage
<1>4. PICK m : m = Head(written[a])
  OBVIOUS
<1>5. /\ ReadBye(a) => reader'[a].at = "clean" /\ reader'[a].request = NoRequest
      /\ ReadUnknown(a) => reader'[a] = reader[a]
      /\ ReadChunk(a) =>
            /\ reader'[a] = [at |-> "chunk", request |-> m.of, of |-> m.of]
            /\ m.of \in Requests /\ request[m.of].at # "none"
            /\ Heard(m.of, a) /\ In(m.of, a)
  <2>1. ReadBye(a) => reader'[a].at = "clean" /\ reader'[a].request = NoRequest
    BY <1>1, <1>3 DEF TypeOK, ReadBye
  <2>2. ReadUnknown(a) => reader'[a] = reader[a]
    BY DEF ReadUnknown
  <2>3. ReadChunk(a) => /\ m.of \in Requests /\ request[m.of].at # "none"
                        /\ Heard(m.of, a) /\ In(m.of, a)
                        /\ m.of = table[a][m.id]
    BY <1>3, <1>4, EntryFits DEF ReadChunk
  <2>4. ReadChunk(a) => reader'[a] = [at |-> "chunk", request |-> m.of, of |-> m.of]
    BY <1>1, <1>4, <2>3 DEF ReadChunk, ReaderTakes, TypeOK
  <2> QED
    BY <2>1, <2>2, <2>3, <2>4
<1>6. TypeOK'
  BY <1>2, ReadQuietTypes
<1>7. ReaderAlone(a)
  <2>1. \A b \in Agents \ {a} : reader'[b] = reader[b] /\ written'[b] = written[b]
    BY <1>1, <1>3 DEF TypeOK, ReadBye, ReadUnknown, ReadChunk, ReaderTakes
  <2>2. reader'[a].at # "complete"
    BY <1>3, <1>5
  <2> QED
    BY <1>2, <1>3, <2>1, <2>2 DEF ReaderAlone
<1>8. ReadBye(a) => written'[a] = <<>> /\ process[a] # "running"
  <2>1. 1 \in DOMAIN written[a] /\ m = written[a][1] /\ Len(written'[a]) = Len(written[a]) - 1
        /\ written'[a] \in Seq(Messages) /\ Len(written[a]) \in Nat
    <3>1. /\ Tail(written[a]) \in Seq(Messages) /\ Head(written[a]) = written[a][1]
          /\ Len(Tail(written[a])) = Len(written[a]) - 1 /\ Len(written[a]) \in Nat
          /\ 1 \in DOMAIN written[a]
      BY <1>3, TailOf
    <3> QED
      BY <1>3, <1>4, <3>1
  <2>2. ReadBye(a) => Len(written[a]) = 1 /\ process[a] # "running"
    BY <1>1, <1>4, <2>1 DEF ReadBye, OfAgent, Process
  <2>3. Len(written'[a]) = 0 => written'[a] = <<>>
    BY <2>1
  <2> QED
    BY <2>1, <2>2, <2>3
<1>9. OfAgent(a)'
  <2>1. active[a]
    BY <1>1, <1>3 DEF OfAgent, Process
  <2>2. Process(a)'
    <3>1. reader'[a].at \in {"reading", "chunk", "clean"}
      BY <1>3, <1>5
    <3>2. reader'[a].at = "clean" => written'[a] = <<>> /\ process'[a] # "running"
      BY <1>3, <1>5, <1>8
    <3>3. \A k \in DOMAIN written'[a] : written'[a][k].kind = "bye" =>
                 k = Len(written'[a]) /\ process'[a] # "running"
      BY <1>1, ReadLabels
    <3> QED
      BY <1>1, <1>3, <2>1, <3>1, <3>2, <3>3 DEF OfAgent, Process
  <2>3. Labelled(a)'
    <3>1. \A x \in DOMAIN table'[a] :
              request'[table'[a][x]].at # "none" /\ request'[table'[a][x]].id = x
      BY <1>1, <1>2, <1>3 DEF OfAgent, Labelled, requestVars
    <3> QED
      BY <1>1, <3>1, ReadLabels DEF Labelled
  <2>4. Reads(a)'
    BY <1>3, <1>5 DEF Reads, requestVars
  <2> QED
    BY <2>2, <2>3, <2>4 DEF OfAgent
<1>10. ASSUME NEW q \in Requests
       PROVE  MessageSame(q)
  <2>1. /\ Heard(q, a)' => Heard(q, a)
        /\ Farewell(a)' => Farewell(a)
        /\ Replied(q, a) => Replied(q, a)' \/ (m.kind = "complete" /\ m.of = q)
        /\ Farewell(a) => Farewell(a)' \/ m.kind = "bye"
    BY <1>1, <1>3, <1>4, ReadLeaves
  <2>2. reader'[a].request = q =>
                \/ reader[a].request = q /\ reader'[a].at = reader[a].at
                \/ reader'[a].at = "chunk" /\ In(q, a) /\ Near(q, a)
    BY <1>3, <1>5, AgentsAssumption DEF Near
  <2>3. Served(q, a)' <=> Served(q, a)
    BY <1>3 DEF Served
  <2>4. CASE ReadBye(a)
    <3>1. ~Served(q, a)
      BY <1>1, <1>8, <2>4 DEF OfAgent, Process, Served
    <3>2. ~Replied(q, a)' /\ m.kind = "bye"
      <4>1. DOMAIN written'[a] = {}
        BY <1>8, <2>4
      <4> QED
        BY <1>4, <2>4, <4>1 DEF Replied, ReadBye
    <3>3. ~Lost(a)
      <4>1. 1 \in DOMAIN written[a] /\ m = written[a][1]
        BY <1>3, <1>4, TailOf
      <4> QED
        BY <3>2, <4>1 DEF Lost, Farewell
    <3> QED
      BY <1>7, <2>1, <2>2, <2>3, <3>1, <3>2, <3>3, ReaderMessageSame
  <2>5. CASE ReadUnknown(a) \/ ReadChunk(a)
    <3>1. Lost(a) => Lost(a)'
      BY <1>3, <1>5, <2>1, <2>5 DEF Lost
    <3>2. In(q, a) => ~(m.kind = "complete" /\ m.of = q)
      <4>1. CASE ReadChunk(a)
        BY <1>4, <4>1 DEF ReadChunk
      <4>2. CASE ReadUnknown(a)
        <5>1. 1 \in DOMAIN written[a] /\ m = written[a][1]
          BY <1>3, <1>4, TailOf
        <5>2. m.kind # "bye" /\ m.id \notin DOMAIN table[a] /\ request[m.of].id = m.id
          BY <1>1, <1>4, <4>2, <5>1 DEF ReadUnknown, OfAgent, Labelled
        <5>3. In(q, a) => request[q].id \in DOMAIN table[a]
          BY <1>1, EntryOf DEF OfAgent
        <5> QED
          BY <5>2, <5>3
      <4> QED
        BY <2>5, <4>1, <4>2
    <3> QED
      BY <1>7, <2>1, <2>2, <2>3, <3>1, <3>2, ReaderMessageSame
  <2> QED
    BY <2>4, <2>5
<1> QED
  BY <1>6, <1>7, <1>9, <1>10, ReaderLeaves, OneAgentStep

-----------------------------------------------------------------------------
\* A step that changes one request.
LEMMA OneRequestStep ==
    ASSUME AgentsInv, TypeOK', NEW r \in Requests,
           request[r].at # "none", request'[r].at # "none",
           request'[r].id = request[r].id, request'[r].type = request[r].type,
           \A q \in Requests \ {r} : SenderSame(q) /\ MessageSame(q),
           IdsKept => \A b \in Agents : AgentSame(b) \/ OfAgent(b)',
           OfRequest(r)', Live(r)' => Live(r)
    PROVE  AgentsInv'
<1>1. IdsKept
  BY DEF IdsKept, SenderSame
<1>2. \A b \in Agents : OfAgent(b)'
  BY <1>1, AgentKept DEF AgentsInv
<1>3. \A q \in Requests : OfRequest(q)' /\ (Live(q)' => Live(q))
  BY RequestKept DEF AgentsInv
<1>4. Unique'
  BY <1>3, UniqueKept DEF AgentsInv, SenderSame
<1> QED
  BY <1>2, <1>3, <1>4 DEF AgentsInv

\* Tokens are counted in natural numbers.
LEMMA PendingCount ==
    ASSUME NEW r \in Requests
    PROVE  /\ Pending(r) \subseteq Agents /\ Holding(r) \subseteq Agents
           /\ IsFiniteSet(Pending(r)) /\ Cardinality(Pending(r)) \in Nat
           /\ Cardinality(Pending(r)) = 0 <=> Pending(r) = {}
           /\ \A a \in Pending(r) :
                 /\ Cardinality(Pending(r) \ {a}) = Cardinality(Pending(r)) - 1
                 /\ Cardinality(Pending(r)) = 1 => Pending(r) = {a}
<1>1. Pending(r) \subseteq Agents /\ Holding(r) \subseteq Agents
  BY DEF Pending, Holding
<1>2. IsFiniteSet(Pending(r))
  BY <1>1, AgentsAssumption, FS_Subset
<1>3. Cardinality(Pending(r)) \in Nat
  BY <1>2, FS_CardinalityType
<1>4. Cardinality(Pending(r)) = 0 <=> Pending(r) = {}
  BY <1>2, FS_EmptySet
<1>5. ASSUME NEW a \in Pending(r)
      PROVE  Cardinality(Pending(r) \ {a}) = Cardinality(Pending(r)) - 1
  BY <1>2, <1>5, FS_RemoveElement
<1>6. ASSUME NEW a \in Pending(r), Cardinality(Pending(r)) = 1
      PROVE  Pending(r) = {a}
  <2>1. IsFiniteSet(Pending(r) \ {a}) /\ Cardinality(Pending(r) \ {a}) = 0
    BY <1>2, <1>5, <1>6, FS_RemoveElement
  <2>2. Pending(r) \ {a} = {}
    BY <2>1, FS_EmptySet
  <2> QED
    BY <1>6, <2>2
<1> QED
  BY <1>1, <1>2, <1>3, <1>4, <1>5, <1>6

\* What is said of the sender of a request, in its parts.
LEMMA Parts ==
    ASSUME AgentsInv, NEW r \in Requests, request[r].at # "none"
    PROVE  /\ TypeOK /\ request[r] \in RequestRecord /\ OfRequest(r)
           /\ Locked(r) /\ Listed(r) /\ Unseen(r) /\ Home(r)
           /\ Handled(r) /\ Tokens(r) /\ Aggregates(r)
BY RecordOf DEF AgentsInv, OfRequest

\* The request is written: only now its agent may know it.
LEMMA WriteStep ==
    ASSUME AgentsInv, NEW r \in Requests, NEW a \in Agents, Write(r, a)
    PROVE  AgentsInv'
<1>1. request[r].at = "entered" /\ mutex[a] = r /\ process[a] # "none"
  BY DEF Write
<1>2. /\ TypeOK /\ request[r] \in RequestRecord
      /\ Locked(r) /\ Listed(r) /\ Unseen(r) /\ Home(r)
      /\ Handled(r) /\ Tokens(r) /\ Aggregates(r) /\ OfAgent(a)
  BY <1>1, Parts DEF AgentsInv
<1> DEFINE m == [id |-> request[r].id, of |-> r]
<1>3. m \in [id: Addresses, of: Requests] /\ m.of = r /\ m.id = request[r].id
  BY <1>2 DEF RequestRecord
<1>4. /\ request' = [request EXCEPT ![r].at = "written"]
      /\ unread' = [unread EXCEPT ![a] = @ \cup {m}]
  BY DEF Write
<1> HIDE DEF m
<1>5. /\ UNCHANGED <<answers, aggregator, stopped, active, mutex, table, reader>>
      /\ UNCHANGED <<process, working, written, begun, chunks, exits>>
  BY DEF Write, serverVars
<1>6. /\ request'[r].at = "written" /\ request'[r].id = request[r].id
      /\ request'[r].type = request[r].type /\ request'[r].agents = request[r].agents
      /\ request'[r].retry = request[r].retry /\ request'[r] \in RequestRecord
      /\ \A q \in Requests \ {r} : request'[q] = request[q]
      /\ unread'[a] = unread[a] \cup {m}
      /\ \A b \in Agents \ {a} : unread'[b] = unread[b]
  BY <1>2, <1>4 DEF TypeOK, RequestRecord
<1>7. TypeOK'
  <2>1. unread' \in [Agents -> SUBSET [id: Addresses, of: Requests]]
    BY <1>2, <1>3, <1>4 DEF TypeOK
  <2>2. request' \in [Requests -> RequestRecord \cup {[at |-> "none"]}]
    BY <1>2, <1>4, <1>6 DEF TypeOK
  <2> QED
    BY <1>2, <1>5, <2>1, <2>2 DEF TypeOK
<1>8. ASSUME NEW q \in Requests, NEW b \in Agents
      PROVE  /\ (In(q, b)' <=> In(q, b)) /\ (Served(q, b)' <=> Served(q, b))
             /\ (Heard(q, b)' <=> Heard(q, b)) /\ (Replied(q, b)' <=> Replied(q, b))
             /\ (Lost(b)' <=> Lost(b))
             /\ (Asked(q, b)' <=> Asked(q, b) \/ (q = r /\ b = a))
  <2>1. Asked(q, b)' <=> Asked(q, b) \/ (q = r /\ b = a)
    BY <1>3, <1>6 DEF Asked
  <2> QED
    BY <1>5, <2>1 DEF In, Outstanding, Served, Heard, Replied, Lost, Farewell
<1>9. ASSUME NEW q \in Requests \ {r}
      PROVE  SenderSame(q) /\ MessageSame(q)
  BY <1>5, <1>6, <1>8 DEF SenderSame, MessageSame, Near
<1>10. ASSUME IdsKept, NEW b \in Agents
       PROVE  AgentSame(b) \/ OfAgent(b)'
  <2>1. CASE b # a
    BY <1>5, <1>6, <2>1 DEF AgentSame
  <2>2. CASE b = a
    <3>1. Process(a)'
      BY <1>1, <1>2, <1>5 DEF OfAgent, Process
    <3>2. /\ \A x \in DOMAIN table[a] : table[a][x] \in Requests
          /\ \A n \in unread[a] \cup working[a] : n.of \in Requests
      BY <1>2 DEF TypeOK, Table
    <3>3. Labelled(a)'
      BY <1>2, <1>3, <1>5, <1>6, <1>10, <3>2 DEF OfAgent, Labelled, IdsKept
    <3>4. Reads(a)'
      BY <1>2, <1>5, <1>10 DEF OfAgent, Reads, IdsKept
    <3> QED
      BY <2>2, <3>1, <3>3, <3>4 DEF OfAgent
  <2> QED
    BY <2>1, <2>2
<1>11. Pending(r)' = Pending(r) /\ Holding(r)' = Holding(r)
  <2>1. \A b \in Agents : b \in Pending(r)' <=> b \in Pending(r)
    BY <1>5, <1>6, <1>8 DEF Pending
  <2>2. Pending(r)' \subseteq Agents /\ Pending(r) \subseteq Agents
    BY DEF Pending
  <2> QED
    BY <1>5, <2>1, <2>2 DEF Holding
<1>12. /\ (Answered(r)' <=> Answered(r)) /\ (Exempt(r) => Exempt(r)')
       /\ (HasAggregator(r)' <=> HasAggregator(r))
  BY <1>5, <1>6 DEF Answered, Exempt, CleanedUp, Miscounted, HasAggregator
<1>13. OfRequest(r)'
  <2>1. Locked(r)'
    BY <1>1, <1>2, <1>5, <1>6, <1>8 DEF Locked, Busy
  <2>2. Listed(r)'
    BY <1>6 DEF Listed
  <2>3. Unseen(r)'
    <3>1. SUFFICES ASSUME NEW b \in request[r].agents, mutex[b] # r
                   PROVE  ~Near(r, b)' /\ reader'[b].request # r
      BY <1>5, <1>6 DEF Unseen
    <3>2. b \in Agents /\ b # a
      BY <1>1, <1>2, <3>1 DEF RequestRecord
    <3> QED
      BY <1>2, <1>5, <1>8, <3>1, <3>2 DEF Unseen, Near
  <2>4. ASSUME NEW h \in Agents, AtHome(r, h)
        PROVE  AtHome(r, h)'
    <3>1. a = h
      BY <1>1, <1>2, <2>4 DEF AtHome, Locked
    <3> QED
      BY <1>5, <1>6, <1>8, <2>4, <3>1 DEF AtHome, Near
  <2>5. Home(r)'
    BY <1>2, <1>6, <2>4 DEF Home
  <2>6. Followed(r) => Followed(r)'
    BY <1>1, <1>5, <1>6, <1>8, <1>11, <1>12 DEF Followed, Busy
  <2>7. Handled(r)'
    BY <1>2, <1>6, <1>12, <2>6 DEF Handled
  <2>8. OneToken(r) => OneToken(r)'
    BY <1>1, <1>5, <1>6, <1>11, <1>12 DEF OneToken
  <2>9. Counts(r) => Counts(r)'
    BY <1>1, <1>5, <1>6, <1>11, <1>12 DEF Counts
  <2> QED
    BY <1>2, <1>6, <1>12, <2>1, <2>2, <2>3, <2>5, <2>7, <2>8, <2>9
       DEF OfRequest, Tokens, Aggregates
<1>14. Live(r)
  BY <1>1 DEF Live
<1> QED
  BY <1>1, <1>6, <1>7, <1>9, <1>10, <1>13, <1>14, OneRequestStep

\* Messages that a step leaves alone.
LEMMA QuietMessages ==
    ASSUME UNCHANGED <<unread, working, written>>, NEW q \in Requests, NEW a \in Agents
    PROVE  /\ (Asked(q, a)' <=> Asked(q, a)) /\ (Served(q, a)' <=> Served(q, a))
           /\ (Heard(q, a)' <=> Heard(q, a)) /\ (Replied(q, a)' <=> Replied(q, a))
           /\ (Near(q, a)' <=> Near(q, a)) /\ (Farewell(a)' <=> Farewell(a))
BY DEF Asked, Served, Heard, Replied, Near, Farewell

\* The result of an answer, and of an answer that is none.
LEMMA AnswerAdded ==
    ASSUME TypeOK, NEW r \in Requests, NEW v \in Requests \cup {Failed, Default, Closed},
           answers' = [answers EXCEPT ![r] = Append(@, v)]
    PROVE  /\ answers' \in [Requests -> Seq(Requests \cup {Failed, Default, Closed})]
           /\ \A q \in Requests \ {r} : answers'[q] = answers[q]
           /\ Len(answers'[r]) = Len(answers[r]) + 1 /\ Len(answers[r]) \in Nat
           /\ Answered(r)'
           /\ (CleanedUp(r) => CleanedUp(r)') /\ (v = Closed => CleanedUp(r)')
<1>1. PICK s : s = answers[r]
  OBVIOUS
<1>2. s \in Seq(Requests \cup {Failed, Default, Closed})
  BY <1>1 DEF TypeOK
<1>3. /\ Append(s, v) \in Seq(Requests \cup {Failed, Default, Closed})
      /\ Len(Append(s, v)) = Len(s) + 1 /\ Len(s) \in Nat
      /\ DOMAIN s = 1..Len(s) /\ DOMAIN Append(s, v) = 1..(Len(s) + 1)
      /\ \A k \in DOMAIN s : Append(s, v)[k] = s[k]
      /\ Append(s, v)[Len(s) + 1] = v
  BY <1>2, Appended
<1>4. answers'[r] = Append(s, v)
  BY <1>1 DEF TypeOK
<1>5. answers' \in [Requests -> Seq(Requests \cup {Failed, Default, Closed})]
  BY <1>1, <1>3 DEF TypeOK
<1>6. \A q \in Requests \ {r} : answers'[q] = answers[q]
  BY DEF TypeOK
<1>7. Answered(r)'
  <2>1. answers'[r] # <<>>
    BY <1>3, <1>4
  <2> QED
    BY <2>1 DEF Answered
<1>8. (CleanedUp(r) => CleanedUp(r)') /\ (v = Closed => CleanedUp(r)')
  BY <1>1, <1>3, <1>4 DEF CleanedUp
<1> QED
  BY <1>1, <1>3, <1>4, <1>5, <1>6, <1>7, <1>8

\* A request whose answers are none has no answers, and the other way round.
LEMMA NoAnswers ==
    ASSUME TypeOK, NEW r \in Requests
    PROVE  Len(answers[r]) \in Nat /\ (Answered(r) <=> Len(answers[r]) # 0)
BY DEF TypeOK, Answered

\* What the sender leaves when it is done with an agent.
LEMMA SentOf ==
    ASSUME TypeOK, NEW r \in Requests, NEW a \in Agents, request[r].at # "none",
           NEW sync \in BOOLEAN, NEW result \in {Failed, Default},
           Sent(r, a, sync, result)
    PROVE  /\ request' \in [Requests -> RequestRecord \cup {[at |-> "none"]}]
           /\ answers' \in [Requests -> Seq(Requests \cup {Failed, Default, Closed})]
           /\ \A q \in Requests \ {r} : request'[q] = request[q] /\ answers'[q] = answers[q]
           /\ request'[r].agents = request[r].agents \ {a}
           /\ request'[r].id = request[r].id /\ request'[r].type = request[r].type
           /\ request'[r].retry = request[r].retry
           /\ request[r].agents \ {a} # {} => request'[r].at = "sending"
           /\ request[r].agents \ {a} = {} /\ sync /\ request[r].retry =>
                 request'[r].at = "dropped"
           /\ request[r].agents \ {a} = {} /\ ~(sync /\ request[r].retry) =>
                 request'[r].at = "done"
           /\ (/\ sync /\ request[r].agents \ {a} = {} /\ ~request[r].retry
               /\ request[r].type \notin ToAll) =>
                 Answered(r)' /\ Len(answers'[r]) = Len(answers[r]) + 1
           /\ ~(/\ sync /\ request[r].agents \ {a} = {} /\ ~request[r].retry
                /\ request[r].type \notin ToAll) =>
                 answers'[r] = answers[r]
           /\ CleanedUp(r) => CleanedUp(r)'
<1>1. request[r] \in RequestRecord
  BY RecordOf
<1> DEFINE rest == request[r].agents \ {a}
<1> DEFINE at == IF rest # {} THEN "sending"
                 ELSE IF sync /\ request[r].retry THEN "dropped" ELSE "done"
<1>2. request' = [request EXCEPT ![r].agents = rest, ![r].at = at]
  BY DEF Sent
<1>3. request'[r] = [request[r] EXCEPT !.agents = rest, !.at = at]
  BY <1>2 DEF TypeOK
<1>4. request'[r] \in RequestRecord
  BY <1>1, <1>3 DEF RequestRecord
<1>5. request' \in [Requests -> RequestRecord \cup {[at |-> "none"]}]
  BY <1>2, <1>4 DEF TypeOK
<1>6. \A q \in Requests \ {r} : request'[q] = request[q]
  BY <1>2 DEF TypeOK
<1>7. /\ request'[r].agents = rest /\ request'[r].at = at
      /\ request'[r].id = request[r].id /\ request'[r].type = request[r].type
      /\ request'[r].retry = request[r].retry
  BY <1>1, <1>3 DEF RequestRecord
<1>8. CASE sync /\ rest = {} /\ ~request[r].retry /\ request[r].type \notin ToAll
  <2>1. answers' = [answers EXCEPT ![r] = Append(@, result)]
    BY <1>8 DEF Sent, Answer
  <2>2. result \in Requests \cup {Failed, Default, Closed}
    OBVIOUS
  <2> QED
    BY <1>5, <1>6, <1>7, <1>8, <2>1, <2>2, AnswerAdded
<1>9. CASE ~(sync /\ rest = {} /\ ~request[r].retry /\ request[r].type \notin ToAll)
  <2>1. answers' = answers
    BY <1>9 DEF Sent
  <2> QED
    BY <1>5, <1>6, <1>7, <1>9, <2>1 DEF CleanedUp, TypeOK
<1> QED
  BY <1>8, <1>9

\* The sender is done with an agent without an answer to come from there: the
\* token is used up, and the last one is the sender's own answer.
LEMMA SentKeeps ==
    ASSUME AgentsInv, NEW r \in Requests, NEW a \in request[r].agents,
           request[r].at \in {"sending", "entered"},
           request[r].at = "entered" => mutex[a] = r,
           NEW result \in {Failed, Default}, Sent(r, a, TRUE, result),
           UNCHANGED <<reader, process, unread, working, written, begun, stopped>>,
           \A b \in Agents : mutex'[b] # r /\ (In(r, b)' <=> In(r, b) /\ b # a),
           aggregator'[r] = aggregator[r] \/ Miscounted(r)
    PROVE  OfRequest(r)'
<1>1. request[r].at # "none"
  OBVIOUS
<1>2. /\ TypeOK /\ request[r] \in RequestRecord /\ a \in Agents
      /\ Locked(r) /\ Listed(r) /\ Unseen(r) /\ Home(r)
      /\ Handled(r) /\ Tokens(r) /\ Aggregates(r)
  BY <1>1, Parts DEF RequestRecord
<1> DEFINE rest == request[r].agents \ {a}
<1>3. /\ request'[r].agents = rest
      /\ request'[r].id = request[r].id /\ request'[r].type = request[r].type
      /\ request'[r].retry = request[r].retry
      /\ rest # {} => request'[r].at = "sending"
      /\ rest = {} /\ request[r].retry => request'[r].at = "dropped"
      /\ rest = {} /\ ~request[r].retry => request'[r].at = "done"
      /\ CleanedUp(r) => CleanedUp(r)'
      /\ rest = {} /\ ~request[r].retry /\ request[r].type \notin ToAll =>
            Answered(r)' /\ Len(answers'[r]) = Len(answers[r]) + 1
      /\ ~(rest = {} /\ ~request[r].retry /\ request[r].type \notin ToAll) =>
            answers'[r] = answers[r]
  <2>1. PICK sync \in BOOLEAN : sync = TRUE
    OBVIOUS
  <2>2. Sent(r, a, sync, result)
    BY <2>1
  <2>3. /\ request'[r].agents = request[r].agents \ {a}
        /\ request'[r].id = request[r].id /\ request'[r].type = request[r].type
        /\ request'[r].retry = request[r].retry
        /\ request[r].agents \ {a} # {} => request'[r].at = "sending"
        /\ request[r].agents \ {a} = {} /\ sync /\ request[r].retry =>
              request'[r].at = "dropped"
        /\ request[r].agents \ {a} = {} /\ ~(sync /\ request[r].retry) =>
              request'[r].at = "done"
        /\ CleanedUp(r) => CleanedUp(r)'
    BY <1>1, <1>2, <2>2, SentOf
  <2>4. /\ (/\ sync /\ request[r].agents \ {a} = {} /\ ~request[r].retry
            /\ request[r].type \notin ToAll) =>
              Answered(r)' /\ Len(answers'[r]) = Len(answers[r]) + 1
        /\ ~(/\ sync /\ request[r].agents \ {a} = {} /\ ~request[r].retry
             /\ request[r].type \notin ToAll) =>
              answers'[r] = answers[r]
    BY <1>1, <1>2, <2>2, SentOf
  <2> QED
    BY <2>1, <2>3, <2>4
<1> HIDE DEF rest
<1>5. \A b \in Agents : mutex[b] = r => b = a
  BY <1>2 DEF Locked, Busy
<1>6. \A b \in Agents : (Near(r, b)' <=> Near(r, b)) /\ (Asked(r, b)' <=> Asked(r, b))
  BY QuietMessages
<1>7. request[r].at = "sending" => mutex[a] # r /\ ~In(r, a)
  BY <1>2 DEF Locked, Busy
<1>8. (Exempt(r) => Exempt(r)') /\ (HasAggregator(r)' <=> HasAggregator(r))
  BY <1>3 DEF Exempt, Miscounted, HasAggregator
<1>9. Pending(r)' = Pending(r) \ {a} /\ Holding(r)' = Holding(r)
  <2>1. ASSUME NEW b \in Agents
        PROVE  b \in Pending(r)' <=> b \in Pending(r) /\ b # a
    BY <1>3, <1>5 DEF Pending, rest
  <2>2. Pending(r)' \subseteq Agents /\ Pending(r) \subseteq Agents
    BY DEF Pending
  <2> QED
    BY <2>1, <2>2 DEF Holding
<1>10. ~Exempt(r) => a \in Pending(r)
  BY <1>2, <1>7 DEF Pending, Listed
<1>11. Locked(r)'
  <2>1. rest = {} <=> request'[r].at \in {"done", "dropped"}
    BY <1>3
  <2>2. request'[r].at \notin Busy
    BY <1>3 DEF Busy
  <2>3. \A b \in Agents : In(r, b)' /\ b \in rest => FALSE
    BY <1>2, <1>5 DEF Locked, rest
  <2>4. request'[r].at = "dropped" => request[r].retry
    BY <1>3
  <2>5. ASSUME request[r].type \in Single, NEW b \in Agents, In(r, b)'
        PROVE  FALSE
    <3>1. PICK h \in Agents : AtHome(r, h)
      BY <1>2, <2>5 DEF Home
    <3> QED
      BY <1>2, <2>5, <3>1 DEF AtHome
  <2> QED
    BY <1>2, <1>3, <2>1, <2>2, <2>3, <2>4, <2>5 DEF Locked
<1>12. Listed(r)'
  BY DEF Listed
<1>13. Unseen(r)'
  <2>1. SUFFICES ASSUME NEW b \in rest
                 PROVE  ~Near(r, b)' /\ reader'[b].request # r
    BY <1>3 DEF Unseen
  <2>2. b \in Agents /\ b \in request[r].agents /\ b # a
    BY <1>2, <2>1 DEF RequestRecord, rest
  <2> QED
    BY <1>2, <1>5, <1>6, <2>2 DEF Unseen
<1>14. ASSUME NEW h \in Agents, AtHome(r, h)
       PROVE  AtHome(r, h)'
  BY <1>3, <1>6, <1>14 DEF AtHome, rest
<1>15. Home(r)'
  BY <1>2, <1>3, <1>14 DEF Home
<1>16. ASSUME request[r].type \in Single
       PROVE  rest = {}
  <2>1. PICK h \in Agents : AtHome(r, h)
    BY <1>2, <1>16 DEF Home
  <2> QED
    BY <2>1 DEF AtHome, rest
<1>17. ASSUME OneToken(r), ~Exempt(r)
       PROVE  /\ OneToken(r)'
              /\ rest = {} => Answered(r)' \/ request'[r].at = "dropped"
                              \/ request[r].type \in ToAll
  <2>1. a \in Pending(r) /\ ~Answered(r) /\ Pending(r) = {a} /\ Holding(r) = {}
    BY <1>10, <1>17 DEF OneToken
  <2>2. Pending(r)' = {} /\ Holding(r)' = {}
    BY <1>9, <2>1
  <2>3. Len(answers[r]) = 0 /\ answers[r] = <<>>
    BY <1>2, <2>1, NoAnswers DEF Answered
  <2>4. Len(answers'[r]) <= 1
    <3>1. Len(answers'[r]) = Len(answers[r]) \/ Len(answers'[r]) = Len(answers[r]) + 1
      BY <1>3
    <3>2. PICK n : n = Len(answers'[r])
      OBVIOUS
    <3>3. n = 0 \/ n = 0 + 1
      BY <2>3, <3>1, <3>2
    <3>4. n <= 1
      BY <3>3
    <3> QED
      BY <3>2, <3>4
  <2>5. request'[r].at = "dropped" => ~Answered(r)'
    BY <1>3, <2>3 DEF Answered
  <2>6. rest = {} => Answered(r)' \/ request'[r].at = "dropped" \/ request[r].type \in ToAll
    BY <1>3
  <2> QED
    BY <2>2, <2>4, <2>5, <2>6 DEF OneToken
<1>18. Tokens(r)'
  BY <1>2, <1>8, <1>17 DEF Tokens
<1>19. Handled(r)'
  <2>1. SUFFICES ASSUME request[r].type \in Single, ~Exempt(r)
                 PROVE  Followed(r)'
    BY <1>3, <1>8 DEF Handled
  <2>2. ~HasAggregator(r) /\ request[r].type \notin ToAll
    BY <2>1 DEF HasAggregator, Single, Aggregated, ToAll, ToModule
  <2>3. Followed(r) /\ OneToken(r) /\ rest = {}
    BY <1>2, <1>16, <2>1, <2>2 DEF Handled, Tokens
  <2>4. request'[r].at \in {"done", "dropped"}
    BY <1>3, <2>3
  <2>5. Answered(r)' \/ request'[r].at = "dropped"
    BY <1>17, <2>1, <2>2, <2>3
  <2>6. begun'[r] = 0 /\ \A b \in Agents : reader'[b] = reader[b]
    BY <2>3 DEF Followed
  <2>7. \A b \in Agents : reader[b].request # r
    <3>1. PICK h \in Agents : AtHome(r, h)
      BY <1>2, <2>1 DEF Home
    <3>2. a = h
      BY <1>2, <3>1 DEF AtHome
    <3>3. reader[a].request # r
      BY <1>2, <1>7 DEF Unseen
    <3> QED
      BY <3>1, <3>2, <3>3 DEF AtHome
  <2> QED
    BY <2>4, <2>5, <2>6, <2>7 DEF Followed, Busy
<1>20. Aggregates(r)'
  <2>1. SUFFICES ASSUME HasAggregator(r), ~Exempt(r)
                 PROVE  Counts(r)'
    BY <1>8 DEF Aggregates
  <2>2. Counts(r) /\ a \in Pending(r) /\ aggregator'[r] = aggregator[r]
    BY <1>2, <1>10, <2>1 DEF Aggregates, Exempt
  <2> DEFINE counted == aggregator[r].received
  <2> DEFINE left == Cardinality(Pending(r))
  <2> DEFINE expected == aggregator[r].expected
  <2>3. counted \in Nat /\ expected \in Int
    BY <1>2 DEF TypeOK
  <2>4. left \in Nat /\ left # 0 /\ Cardinality(Pending(r)') = left - 1
    BY <1>9, <2>2, PendingCount
  <2>5. counted + left <= expected /\ (counted < expected => aggregator[r].alive)
    BY <2>2 DEF Counts
  <2>6. Holding(r) = {} /\ ~Answered(r)
    BY <1>1, <2>2, <2>4 DEF Counts
  <2>7. Len(answers[r]) = 0 /\ answers[r] = <<>>
    BY <1>2, <2>6, NoAnswers DEF Answered
  <2>8. Len(answers'[r]) <= 1
    <3>1. Len(answers'[r]) = Len(answers[r]) \/ Len(answers'[r]) = Len(answers[r]) + 1
      BY <1>3
    <3>2. PICK n : n = Len(answers'[r])
      OBVIOUS
    <3>3. n = 0 \/ n = 0 + 1
      BY <2>7, <3>1, <3>2
    <3>4. n <= 1
      BY <3>3
    <3> QED
      BY <3>2, <3>4
  <2>9. Answered(r)' => request'[r].at = "done" /\ request[r].type \in ToModule
    <3>1. ~request[r].retry /\ request[r].type \in ToAll \cup ToModule
      BY <2>1 DEF HasAggregator, Aggregated
    <3> QED
      BY <1>3, <2>7, <3>1 DEF Answered
  <2> QED
    BY <1>3, <1>9, <2>2, <2>3, <2>4, <2>5, <2>6, <2>8, <2>9 DEF Counts
<1> QED
  BY <1>3, <1>11, <1>12, <1>13, <1>15, <1>18, <1>19, <1>20 DEF OfRequest

\* The other requests while a sender works: its agent and the messages change
\* for none of them.
LEMMA OthersLeft ==
    ASSUME NEW r \in Requests, NEW q \in Requests \ {r},
           request'[q] = request[q], answers'[q] = answers[q], aggregator'[q] = aggregator[q],
           UNCHANGED <<stopped, reader, process, unread, working, written, begun>>,
           \A b \in Agents : (mutex'[b] = q <=> mutex[b] = q) /\ (In(q, b)' <=> In(q, b))
    PROVE  SenderSame(q) /\ MessageSame(q)
<1>1. SenderSame(q)
  BY DEF SenderSame
<1>2. \A b \in Agents : /\ (Asked(q, b)' <=> Asked(q, b)) /\ (Served(q, b)' <=> Served(q, b))
                        /\ (Near(q, b)' <=> Near(q, b)) /\ (Replied(q, b)' <=> Replied(q, b))
  BY QuietMessages
<1>3. \A b \in Agents : Lost(b)' <=> Lost(b)
  BY DEF Lost, Farewell
<1>4. MessageSame(q)
  BY <1>2, <1>3 DEF MessageSame
<1> QED
  BY <1>1, <1>4

\* The same when nothing is done to the tables and mutexes.
LEMMA TablesLeft ==
    ASSUME UNCHANGED <<table, mutex>>
    PROVE  \A q \in Requests, b \in Agents :
               (mutex'[b] = q <=> mutex[b] = q) /\ (In(q, b)' <=> In(q, b))
BY DEF In, Outstanding

\* A count that goes on keeps its type.
LEMMA CountedType ==
    ASSUME TypeOK, NEW r \in Requests, NEW error \in BOOLEAN, NEW last \in BOOLEAN
    PROVE  CountedResponse(r, error, last) \in
               [expected: 0..Cardinality(Agents), received: Nat, error: BOOLEAN, alive: BOOLEAN]
<1>1. PICK g \in [expected: 0..Cardinality(Agents), received: Nat, error: BOOLEAN,
                  alive: BOOLEAN] : g = aggregator[r]
  BY DEF TypeOK
<1>2. CountedResponse(r, error, last) =
          [g EXCEPT !.received = IF @ > g.expected THEN @ ELSE @ + 1,
                    !.error = @ \/ error, !.alive = @ /\ ~last]
  BY <1>1 DEF CountedResponse
<1>3. (IF g.received > g.expected THEN g.received ELSE g.received + 1) \in Nat
  BY <1>1
<1>4. (g.error \/ error) \in BOOLEAN /\ (g.alive /\ ~last) \in BOOLEAN
  OBVIOUS
<1> QED
  BY <1>1, <1>2, <1>3, <1>4

\* The sender is refused: after a stop, or because the agent does not start.
RefusedWith(r, a, result) ==
    /\ request[r].at = "sending" /\ a \in request[r].agents /\ mutex[a] = NoRequest
    /\ Sent(r, a, TRUE, result)
    /\ \/ UNCHANGED aggregator
       \/ /\ Miscounted(r)
          /\ \E last \in BOOLEAN :
                aggregator' = [aggregator EXCEPT ![r] = CountedResponse(r, TRUE, last)]
    /\ UNCHANGED <<stopped, active, mutex, table, reader, agentVars>>

\* The token of the agent is used up, or the last one with the answer.
LEMMA RefusedStep ==
    ASSUME AgentsInv, NEW r \in Requests, NEW a \in Agents,
           NEW result \in {Failed, Default}, RefusedWith(r, a, result)
    PROVE  AgentsInv'
<1>1. /\ request[r].at = "sending" /\ a \in request[r].agents /\ mutex[a] = NoRequest
      /\ Sent(r, a, TRUE, result)
      /\ UNCHANGED <<stopped, active, mutex, table, reader>>
      /\ UNCHANGED <<process, unread, working, written, begun, chunks, exits>>
  BY DEF RefusedWith, agentVars
<1>2. TypeOK /\ request[r] \in RequestRecord /\ Locked(r)
  BY <1>1, Parts
<1>3. /\ aggregator' \in [Requests ->
            [expected: 0..Cardinality(Agents), received: Nat, error: BOOLEAN, alive: BOOLEAN]]
      /\ \A q \in Requests \ {r} : aggregator'[q] = aggregator[q]
      /\ aggregator'[r] = aggregator[r] \/ Miscounted(r)
  <2>1. CASE UNCHANGED aggregator
    BY <1>2, <2>1 DEF TypeOK
  <2>2. ASSUME Miscounted(r), NEW last \in BOOLEAN,
               aggregator' = [aggregator EXCEPT ![r] = CountedResponse(r, TRUE, last)]
        PROVE  <1>3!1 /\ <1>3!2
    BY <1>2, <2>2, CountedType DEF TypeOK
  <2> QED
    BY <2>1, <2>2 DEF RefusedWith
<1>4. PICK sync \in BOOLEAN : sync = TRUE
  OBVIOUS
<1>5. Sent(r, a, sync, result)
  BY <1>1, <1>4
<1>6. /\ request' \in [Requests -> RequestRecord \cup {[at |-> "none"]}]
      /\ answers' \in [Requests -> Seq(Requests \cup {Failed, Default, Closed})]
      /\ \A q \in Requests \ {r} : request'[q] = request[q] /\ answers'[q] = answers[q]
      /\ request'[r].id = request[r].id /\ request'[r].type = request[r].type
      /\ request'[r].at # "none"
  <2>1. request[r].at # "none"
    BY <1>1
  <2>2. request'[r].at \in {"sending", "dropped", "done"}
    BY <1>2, <1>5, <2>1, SentOf
  <2> QED
    BY <1>2, <1>5, <2>1, <2>2, SentOf
<1>7. TypeOK'
  BY <1>1, <1>2, <1>3, <1>6 DEF TypeOK
<1>8. ASSUME NEW q \in Requests \ {r}
      PROVE  SenderSame(q) /\ MessageSame(q)
  BY <1>1, <1>3, <1>6, TablesLeft, OthersLeft
<1>9. \A b \in Agents : AgentSame(b)
  BY <1>1 DEF AgentSame
<1>10. \A b \in Agents : mutex'[b] # r /\ (In(r, b)' <=> In(r, b) /\ b # a)
  <2>1. \A b \in Agents : mutex[b] # r
    BY <1>1, <1>2 DEF Locked, Busy
  <2>2. ~In(r, a)
    BY <1>1, <1>2, <2>1 DEF Locked
  <2> QED
    BY <1>1, <2>1, <2>2, TablesLeft
<1>11. OfRequest(r)'
  BY <1>1, <1>3, <1>10, SentKeeps
<1>12. Live(r)
  BY <1>1 DEF Live
<1> QED
  BY <1>1, <1>6, <1>7, <1>8, <1>9, <1>11, <1>12, OneRequestStep

\* A stop was requested, and the request is answered with the default.
LEMMA RefuseStep ==
    ASSUME AgentsInv, NEW r \in Requests, NEW a \in Agents, Refuse(r, a)
    PROVE  AgentsInv'
<1>1. HasAggregator(r) => Miscounted(r)
  BY DEF Refuse, HasAggregator, Miscounted
<1>2. RefusedWith(r, a, Default)
  BY <1>1 DEF Refuse, RefusedWith
<1> QED
  BY <1>2, RefusedStep

\* The agent process does not start.
LEMMA StartFailedStep ==
    ASSUME AgentsInv, NEW r \in Requests, NEW a \in Agents, StartFailed(r, a)
    PROVE  AgentsInv'
<1>1. HasAggregator(r) /\ stopped /\ request[r].type # "stopAll" => Miscounted(r)
  BY DEF HasAggregator, Miscounted
<1>2. RefusedWith(r, a, Failed)
  BY <1>1 DEF StartFailed, Accept, RefusedWith
<1> QED
  BY <1>2, RefusedStep

\* The request was written: the sender goes on with the next agent.
LEMMA LeaveStep ==
    ASSUME AgentsInv, NEW r \in Requests, NEW a \in Agents, Leave(r, a)
    PROVE  AgentsInv'
<1>1. /\ request[r].at = "written" /\ mutex[a] = r
      /\ mutex' = [mutex EXCEPT ![a] = NoRequest]
      /\ Sent(r, a, FALSE, Default)
      /\ UNCHANGED <<aggregator, stopped, active, table, reader>>
      /\ UNCHANGED <<process, unread, working, written, begun, chunks, exits>>
  BY DEF Leave, agentVars
<1>2. /\ TypeOK /\ request[r] \in RequestRecord /\ OfAgent(a)
      /\ Locked(r) /\ Listed(r) /\ Unseen(r) /\ Home(r)
      /\ Handled(r) /\ Tokens(r) /\ Aggregates(r)
  BY <1>1, Parts DEF AgentsInv
<1> DEFINE rest == request[r].agents \ {a}
<1>3. PICK sync \in BOOLEAN : sync = FALSE
  OBVIOUS
<1>4. Sent(r, a, sync, Default) /\ request[r].at # "none"
  BY <1>1, <1>3
<1>5. /\ request' \in [Requests -> RequestRecord \cup {[at |-> "none"]}]
      /\ answers' \in [Requests -> Seq(Requests \cup {Failed, Default, Closed})]
      /\ \A q \in Requests \ {r} : request'[q] = request[q] /\ answers'[q] = answers[q]
      /\ request'[r].id = request[r].id /\ request'[r].type = request[r].type
      /\ request'[r].retry = request[r].retry
      /\ CleanedUp(r) => CleanedUp(r)'
  BY <1>2, <1>4, SentOf
<1>6. /\ request'[r].agents = rest
      /\ rest # {} => request'[r].at = "sending"
      /\ rest = {} => request'[r].at = "done"
  BY <1>2, <1>3, <1>4, SentOf
<1>7. answers'[r] = answers[r]
  BY <1>2, <1>3, <1>4, SentOf
<1>8. mutex' \in [Agents -> Requests \cup {NoRequest}] /\ mutex'[a] = NoRequest
      /\ \A b \in Agents \ {a} : mutex'[b] = mutex[b]
  BY <1>1, <1>2 DEF TypeOK
<1>9. TypeOK'
  BY <1>1, <1>2, <1>5, <1>8 DEF TypeOK
<1>10. \A q \in Requests, b \in Agents : In(q, b)' <=> In(q, b)
  BY <1>1 DEF In, Outstanding
<1>11. NoRequest \notin Requests
  BY AgentsAssumption
<1>12. ASSUME NEW q \in Requests \ {r}
       PROVE  SenderSame(q) /\ MessageSame(q)
  <2>1. \A b \in Agents : mutex'[b] = q <=> mutex[b] = q
    BY <1>1, <1>8, <1>11
  <2> QED
    BY <1>1, <1>5, <1>10, <2>1, OthersLeft
<1>13. ASSUME IdsKept, NEW b \in Agents
       PROVE  AgentSame(b) \/ OfAgent(b)'
  <2>1. CASE b # a
    BY <1>1, <1>8, <2>1 DEF AgentSame
  <2>2. CASE b = a
    <3>1. Process(a)'
      BY <1>1, <1>2, <1>8 DEF OfAgent, Process
    <3>2. /\ \A x \in DOMAIN table[a] : table[a][x] \in Requests
          /\ \A n \in unread[a] \cup working[a] : n.of \in Requests
      BY <1>2 DEF TypeOK, Table
    <3>3. Labelled(a)'
      BY <1>1, <1>2, <1>13, <3>2 DEF OfAgent, Labelled, IdsKept
    <3>4. Reads(a)'
      BY <1>1, <1>2, <1>13 DEF OfAgent, Reads, IdsKept
    <3> QED
      BY <2>2, <3>1, <3>3, <3>4 DEF OfAgent
  <2> QED
    BY <2>1, <2>2
<1>14. \A b \in Agents : mutex[b] = r => b = a
  BY <1>1, <1>2 DEF Locked
<1>15. \A b \in Agents : mutex'[b] # r
  BY <1>8, <1>11, <1>14
<1>16. Pending(r)' = Pending(r) /\ Holding(r)' = Holding(r)
  <2>1. \A b \in Agents : b \in Pending(r)' <=> b \in Pending(r)
    BY <1>1, <1>6, <1>10, <1>14, <1>15 DEF Pending
  <2>2. Pending(r)' \subseteq Agents /\ Pending(r) \subseteq Agents
    BY DEF Pending
  <2> QED
    BY <1>1, <2>1, <2>2 DEF Holding
<1>17. /\ (Answered(r)' <=> Answered(r)) /\ (Exempt(r) => Exempt(r)')
       /\ (HasAggregator(r)' <=> HasAggregator(r))
  BY <1>1, <1>5, <1>7 DEF Answered, Exempt, Miscounted, HasAggregator
<1>18. \A b \in Agents : /\ (Near(r, b)' <=> Near(r, b)) /\ (Asked(r, b)' <=> Asked(r, b))
                         /\ (Served(r, b)' <=> Served(r, b))
                         /\ (Replied(r, b)' <=> Replied(r, b)) /\ (Lost(b)' <=> Lost(b))
  BY <1>1, QuietMessages DEF Lost
<1> HIDE DEF rest
<1>19. OfRequest(r)'
  <2>1. Locked(r)'
    <3>1. \A b \in Agents : In(r, b)' /\ b \in rest => FALSE
      BY <1>2, <1>10, <1>14 DEF Locked, rest
    <3> QED
      BY <1>2, <1>5, <1>6, <1>15, <3>1 DEF Locked, Busy
  <2>2. Listed(r)'
    BY <1>15 DEF Listed
  <2>3. Unseen(r)'
    <3>1. SUFFICES ASSUME NEW b \in rest
                   PROVE  ~Near(r, b)' /\ reader'[b].request # r
      BY <1>6 DEF Unseen
    <3>2. b \in Agents /\ b \in request[r].agents /\ mutex[b] # r
      BY <1>2, <1>14, <3>1 DEF RequestRecord, rest
    <3> QED
      BY <1>1, <1>2, <1>18, <3>2 DEF Unseen
  <2>4. ASSUME NEW h \in Agents, AtHome(r, h)
        PROVE  AtHome(r, h)'
    BY <1>1, <1>6, <1>10, <1>18, <2>4 DEF AtHome, rest
  <2>5. Home(r)'
    BY <1>2, <1>5, <2>4 DEF Home
  <2>6. ASSUME request[r].type \in Single, Followed(r)
        PROVE  Followed(r)'
    <3>1. PICK h \in Agents : AtHome(r, h)
      BY <1>2, <2>6 DEF Home
    <3>2. a \in request[r].agents
      BY <1>1, <1>2 DEF Locked
    <3>3. rest = {}
      BY <3>1, <3>2 DEF AtHome, rest
    <3>4. request'[r].at = "done"
      BY <1>6, <3>3
    <3>5. \A b \in Agents : reader'[b] = reader[b]
      BY <1>1
    <3>6. Pending(r)' # {} \/ Holding(r)' # {} \/ Answered(r)'
      BY <1>1, <1>16, <1>17, <2>6 DEF Followed
    <3> QED
      BY <1>1, <1>10, <1>18, <2>6, <3>4, <3>5, <3>6 DEF Followed, Busy
  <2>7. Handled(r)'
    BY <1>2, <1>5, <1>17, <2>6 DEF Handled
  <2>8. OneToken(r) => OneToken(r)'
    BY <1>6, <1>7, <1>16, <1>17 DEF OneToken
  <2>9. Counts(r) => Counts(r)'
    BY <1>1, <1>5, <1>7, <1>16, <1>17 DEF Counts
  <2>10. request'[r].at # "none"
    BY <1>6
  <2> QED
    BY <1>2, <1>17, <2>1, <2>2, <2>3, <2>5, <2>7, <2>8, <2>9, <2>10
       DEF OfRequest, Tokens, Aggregates
<1>20. Live(r)
  BY <1>1 DEF Live
<1>21. request'[r].at # "none"
  BY <1>6
<1> QED
  BY <1>4, <1>5, <1>9, <1>12, <1>13, <1>19, <1>20, <1>21, OneRequestStep

\* The entry is taken back, for the agent's end of the pipe is closed.
TakenBack(r, a) ==
    /\ request[r].at = "entered" /\ mutex[a] = r /\ process[a] = "none"
    /\ table' = [table EXCEPT ![a] = WithoutEntry(a, request[r].id)]
    /\ mutex' = [mutex EXCEPT ![a] = NoRequest]
    /\ UNCHANGED <<aggregator, stopped, active, reader>>
    /\ UNCHANGED <<process, unread, working, written, begun, chunks, exits>>

\* What that does to the tables, to the agents and to the other requests.
LEMMA TakenBackLeaves ==
    ASSUME AgentsInv, NEW r \in Requests, NEW a \in Agents, TakenBack(r, a)
    PROVE  /\ table' \in [Agents -> Table]
           /\ mutex' \in [Agents -> Requests \cup {NoRequest}]
           /\ a \in request[r].agents
           /\ \A b \in Agents : mutex'[b] # r /\ (In(r, b)' <=> In(r, b) /\ b # a)
           /\ \A q \in Requests \ {r}, b \in Agents :
                 (mutex'[b] = q <=> mutex[b] = q) /\ (In(q, b)' <=> In(q, b))
           /\ IdsKept => \A b \in Agents : AgentSame(b) \/ OfAgent(b)'
<1>1. /\ request[r].at = "entered" /\ mutex[a] = r /\ process[a] = "none"
      /\ table' = [table EXCEPT ![a] = WithoutEntry(a, request[r].id)]
      /\ mutex' = [mutex EXCEPT ![a] = NoRequest]
      /\ UNCHANGED <<aggregator, stopped, active, reader>>
      /\ UNCHANGED <<process, unread, working, written, begun, chunks, exits>>
  BY DEF TakenBack
<1>2. /\ TypeOK /\ request[r] \in RequestRecord /\ Locked(r) /\ Unique
      /\ \A b \in Agents : OfAgent(b)
  BY <1>1, Parts DEF AgentsInv
<1>3. NoRequest \notin Requests
  BY AgentsAssumption
<1>4. mutex' \in [Agents -> Requests \cup {NoRequest}] /\ mutex'[a] = NoRequest
      /\ \A b \in Agents \ {a} : mutex'[b] = mutex[b]
  BY <1>1, <1>2 DEF TypeOK
<1>5. request[r].id \in Addresses
  BY <1>2 DEF RequestRecord
<1>6. PICK x \in Addresses : x = request[r].id
  BY <1>5
<1>7. /\ table' \in [Agents -> Table]
      /\ \A q \in Requests, b \in Agents : In(q, b)' <=> In(q, b) /\ (b = a => request[q].id # x)
      /\ DOMAIN table'[a] = DOMAIN table[a] \ {x}
      /\ \A y \in DOMAIN table'[a] : table'[a][y] = table[a][y]
  <2>1. Labelled(a) /\ table' = [table EXCEPT ![a] = WithoutEntry(a, x)]
    BY <1>1, <1>2, <1>6 DEF OfAgent
  <2> QED
    BY <1>2, <2>1, EntryRemoved
<1>8. \A b \in Agents : mutex[b] = r => b = a
  BY <1>1, <1>2 DEF Locked
<1>9. ASSUME NEW b \in Agents
      PROVE  mutex'[b] # r /\ (In(r, b)' <=> In(r, b) /\ b # a)
  BY <1>3, <1>4, <1>6, <1>7, <1>8
<1>10. ASSUME NEW q \in Requests \ {r}, NEW b \in Agents
       PROVE  (mutex'[b] = q <=> mutex[b] = q) /\ (In(q, b)' <=> In(q, b))
  <2>1. mutex'[b] = q <=> mutex[b] = q
    BY <1>1, <1>3, <1>4
  <2>2. ASSUME In(q, b), request[q].id = x
        PROVE  FALSE
    <3>1. request[q].at # "none" /\ Live(q)
      BY <1>2, <2>2, EntryOf DEF OfAgent, Live
    <3>2. request[r].at # "none" /\ Live(r)
      BY <1>1 DEF Live
    <3> QED
      BY <1>2, <1>6, <2>2, <3>1, <3>2, SameId
  <2> QED
    BY <1>7, <2>1, <2>2
<1>11. ASSUME IdsKept, NEW b \in Agents
       PROVE  AgentSame(b) \/ OfAgent(b)'
  <2>1. CASE b # a
    <3>1. table'[b] = table[b] /\ mutex'[b] = mutex[b]
      BY <1>1, <1>2, <1>4, <2>1 DEF TypeOK
    <3> QED
      BY <1>1, <3>1 DEF AgentSame
  <2>2. CASE b = a
    <3>1. active[a]
      BY <1>1, <1>2, <1>3 DEF OfAgent, Process
    <3>2. Process(a)'
      BY <1>1, <1>2, <3>1 DEF OfAgent, Process
    <3>3. /\ \A y \in DOMAIN table[a] : table[a][y] \in Requests
          /\ \A n \in unread[a] \cup working[a] : n.of \in Requests
      BY <1>2 DEF TypeOK, Table
    <3>4. Labelled(a)'
      BY <1>1, <1>2, <1>7, <1>11, <3>3 DEF OfAgent, Labelled, IdsKept
    <3>5. Reads(a)'
      BY <1>1, <1>2, <1>11 DEF OfAgent, Reads, IdsKept
    <3> QED
      BY <2>2, <3>2, <3>4, <3>5 DEF OfAgent
  <2> QED
    BY <2>1, <2>2
<1>12. a \in request[r].agents
  BY <1>1, <1>2 DEF Locked
<1> QED
  BY <1>4, <1>7, <1>9, <1>10, <1>11, <1>12

\* The request is to be written again: its token is with the sender as before.
LEMMA WriteAgainKeeps ==
    ASSUME AgentsInv, NEW r \in Requests, NEW a \in Agents, TakenBack(r, a),
           request' = [request EXCEPT ![r].at = "sending"], UNCHANGED answers
    PROVE  OfRequest(r)'
<1>1. /\ request[r].at = "entered" /\ mutex[a] = r /\ process[a] = "none"
      /\ UNCHANGED <<aggregator, stopped, active, reader>>
      /\ UNCHANGED <<process, unread, working, written, begun, chunks, exits>>
  BY DEF TakenBack
<1>2. /\ TypeOK /\ request[r] \in RequestRecord
      /\ Locked(r) /\ Listed(r) /\ Unseen(r) /\ Home(r)
      /\ Handled(r) /\ Tokens(r) /\ Aggregates(r)
  BY <1>1, Parts
<1>3. /\ a \in request[r].agents
      /\ \A b \in Agents : mutex'[b] # r /\ (In(r, b)' <=> In(r, b) /\ b # a)
  BY TakenBackLeaves
<1>4. /\ request'[r].at = "sending" /\ request'[r].agents = request[r].agents
      /\ request'[r].type = request[r].type /\ request'[r].retry = request[r].retry
  BY <1>2 DEF TypeOK, RequestRecord
<1>5. \A b \in Agents : mutex[b] = r => b = a
  BY <1>1, <1>2 DEF Locked
<1>6. (Answered(r)' <=> Answered(r)) /\ (Exempt(r) => Exempt(r)')
      /\ (HasAggregator(r)' <=> HasAggregator(r))
  BY <1>1, <1>4 DEF Answered, Exempt, CleanedUp, Miscounted, HasAggregator
<1>7. \A b \in Agents : (Near(r, b)' <=> Near(r, b)) /\ (Asked(r, b)' <=> Asked(r, b))
  BY <1>1, QuietMessages
<1>8. ~Exempt(r) => Pending(r)' = Pending(r) /\ Holding(r)' = Holding(r) /\ a \in Pending(r)
  <2>1. SUFFICES ASSUME ~Exempt(r)
                 PROVE  /\ Pending(r)' = Pending(r) /\ Holding(r)' = Holding(r)
                        /\ a \in Pending(r)
    OBVIOUS
  <2>2. In(r, a)
    BY <1>1, <1>2, <2>1 DEF Listed
  <2>3. \A b \in Agents : b \in Pending(r)' <=> b \in Pending(r)
    BY <1>1, <1>3, <1>4, <1>5, <2>2 DEF Pending
  <2>4. Pending(r)' \subseteq Agents /\ Pending(r) \subseteq Agents
    BY DEF Pending
  <2> QED
    BY <1>1, <2>2, <2>3, <2>4 DEF Holding, Pending
<1>9. Locked(r)'
  <2>1. \A b \in Agents : In(r, b)' /\ b \in request[r].agents => FALSE
    BY <1>2, <1>3, <1>5 DEF Locked
  <2>2. request[r].agents # {}
    BY <1>3
  <2>3. request[r].retry => request[r].type \in {"operation"} \cup ToModule
    BY <1>2 DEF Locked
  <2> QED
    BY <1>3, <1>4, <2>1, <2>2, <2>3 DEF Locked, Busy
<1>10. Listed(r)'
  BY <1>4 DEF Listed
<1>11. Unseen(r)'
  <2>1. SUFFICES ASSUME NEW b \in request[r].agents
                 PROVE  ~Near(r, b)' /\ reader'[b].request # r
    BY <1>4 DEF Unseen
  <2>2. b \in Agents /\ (mutex[b] = r => request[r].at = "entered")
    BY <1>1, <1>2, <2>1 DEF RequestRecord
  <2> QED
    BY <1>1, <1>2, <1>7, <2>1, <2>2 DEF Unseen
<1>12. ASSUME NEW h \in Agents, AtHome(r, h)
       PROVE  AtHome(r, h)'
  BY <1>1, <1>3, <1>4, <1>7, <1>12 DEF AtHome
<1>13. Home(r)'
  BY <1>2, <1>4, <1>12 DEF Home
<1>14. ASSUME request[r].type \in Single, ~Exempt(r), Followed(r)
       PROVE  Followed(r)'
  <2>1. begun[r] = 0 /\ begun' = begun
    BY <1>1, <1>14 DEF Followed
  <2>2. \A b \in Agents : reader[b].request # r
    <3>1. PICK h \in Agents : AtHome(r, h)
      BY <1>2, <1>14 DEF Home
    <3>2. reader[a].request # r /\ a = h
      BY <1>1, <1>2, <1>3, <3>1 DEF Unseen, AtHome
    <3> QED
      BY <3>1, <3>2 DEF AtHome
  <2>3. reader' = reader
    BY <1>1
  <2>4. Pending(r)' # {}
    BY <1>8, <1>14
  <2> QED
    BY <1>4, <2>1, <2>2, <2>3, <2>4 DEF Followed, Busy
<1>15. Handled(r)'
  BY <1>2, <1>4, <1>6, <1>14 DEF Handled
<1>16. ~Exempt(r) /\ OneToken(r) => OneToken(r)'
  BY <1>4, <1>6, <1>8 DEF OneToken
<1>17. ~Exempt(r) /\ Counts(r) => Counts(r)'
  BY <1>1, <1>4, <1>6, <1>8 DEF Counts
<1> QED
  BY <1>2, <1>4, <1>6, <1>9, <1>10, <1>11, <1>13, <1>15, <1>16, <1>17
     DEF OfRequest, Tokens, Aggregates

\* The write fails: the request is written again, or answered.
LEMMA WriteFailedStep ==
    ASSUME AgentsInv, NEW r \in Requests, NEW a \in Agents, WriteFailed(r, a)
    PROVE  AgentsInv'
<1>1. TakenBack(r, a)
  BY DEF WriteFailed, TakenBack, agentVars
<1>2. /\ request[r].at = "entered" /\ mutex[a] = r
      /\ UNCHANGED <<aggregator, stopped, active, reader>>
      /\ UNCHANGED <<process, unread, working, written, begun, chunks, exits>>
  BY <1>1 DEF TakenBack
<1>3. TypeOK /\ request[r] \in RequestRecord
  BY <1>2, Parts
<1>4. /\ table' \in [Agents -> Table]
      /\ mutex' \in [Agents -> Requests \cup {NoRequest}]
      /\ a \in request[r].agents
      /\ \A b \in Agents : mutex'[b] # r /\ (In(r, b)' <=> In(r, b) /\ b # a)
      /\ \A q \in Requests \ {r}, b \in Agents :
            (mutex'[b] = q <=> mutex[b] = q) /\ (In(q, b)' <=> In(q, b))
      /\ IdsKept => \A b \in Agents : AgentSame(b) \/ OfAgent(b)'
  BY <1>1, TakenBackLeaves
<1>5. /\ request' \in [Requests -> RequestRecord \cup {[at |-> "none"]}]
      /\ answers' \in [Requests -> Seq(Requests \cup {Failed, Default, Closed})]
      /\ \A q \in Requests \ {r} : request'[q] = request[q] /\ answers'[q] = answers[q]
      /\ request'[r].id = request[r].id /\ request'[r].type = request[r].type
      /\ request'[r].at # "none"
      /\ OfRequest(r)'
  <2>1. CASE request[r].type \in SentOnce
    <3>1. PICK sync \in BOOLEAN : sync = TRUE
      OBVIOUS
    <3>2. Sent(r, a, TRUE, Default) /\ Sent(r, a, sync, Default) /\ request[r].at # "none"
      BY <1>2, <2>1, <3>1 DEF WriteFailed
    <3>3. request'[r].at \in {"sending", "dropped", "done"}
      BY <1>3, <3>2, SentOf
    <3>4. OfRequest(r)'
      BY <1>2, <1>4, <3>2, SentKeeps
    <3> QED
      BY <1>3, <3>2, <3>3, <3>4, SentOf
  <2>2. CASE request[r].type \notin SentOnce
    <3>1. request' = [request EXCEPT ![r].at = "sending"] /\ UNCHANGED answers
      BY <2>2 DEF WriteFailed
    <3>2. request'[r] \in RequestRecord
      BY <1>3, <3>1 DEF TypeOK, RequestRecord
    <3>3. request' \in [Requests -> RequestRecord \cup {[at |-> "none"]}]
      BY <1>3, <3>1, <3>2 DEF TypeOK
    <3>4. /\ request'[r].id = request[r].id /\ request'[r].type = request[r].type
          /\ request'[r].at # "none"
          /\ \A q \in Requests \ {r} : request'[q] = request[q]
      BY <1>3, <3>1 DEF TypeOK, RequestRecord
    <3>5. OfRequest(r)'
      BY <1>1, <3>1, WriteAgainKeeps
    <3> QED
      BY <1>3, <3>1, <3>3, <3>4, <3>5 DEF TypeOK
  <2> QED
    BY <2>1, <2>2
<1>6. TypeOK'
  BY <1>2, <1>3, <1>4, <1>5 DEF TypeOK
<1>7. ASSUME NEW q \in Requests \ {r}
      PROVE  SenderSame(q) /\ MessageSame(q)
  BY <1>2, <1>4, <1>5, OthersLeft
<1>8. Live(r) /\ request[r].at # "none"
  BY <1>2 DEF Live
<1> QED
  BY <1>4, <1>5, <1>6, <1>7, <1>8, OneRequestStep

\* The agent is active, or its process is started.
StartedIfNeeded(a) ==
    \/ active[a] /\ UNCHANGED <<active, process, reader>>
    \/ /\ ~active[a]
       /\ active' = [active EXCEPT ![a] = TRUE]
       /\ process' = [process EXCEPT ![a] = "running"]
       /\ reader' = [reader EXCEPT ![a] = Reading]

\* An entry is made: no request of that id is in the table.
LEMMA NoSuchEntry ==
    ASSUME AgentsInv, NEW r \in Requests, NEW a \in Agents,
           request[r].at = "sending", a \in request[r].agents, mutex[a] = NoRequest
    PROVE  request[r].id \notin DOMAIN table[a] /\ ~In(r, a)
<1>1. TypeOK /\ Unique /\ OfAgent(a) /\ Locked(r) /\ NoRequest \notin Requests
  BY Parts, AgentsAssumption DEF AgentsInv
<1>2. ~In(r, a)
  BY <1>1 DEF Locked
<1>3. SUFFICES ASSUME request[r].id \in DOMAIN table[a]
               PROVE  FALSE
  BY <1>2
<1>4. PICK q \in Requests : q = table[a][request[r].id]
  BY <1>1, <1>3 DEF TypeOK, Table
<1>5. In(q, a) /\ request[q].at # "none" /\ request[q].id = request[r].id
  BY <1>1, <1>3, <1>4 DEF In, Outstanding, OfAgent, Labelled
<1>6. Live(q) /\ Live(r) /\ request[r].at # "none"
  BY <1>5 DEF Live
<1>7. q = r
  BY <1>1, <1>5, <1>6, SameId
<1> QED
  BY <1>2, <1>5, <1>7

\* What the start of an agent leaves alone.
LEMMA StartLeaves ==
    ASSUME AgentsInv, NEW a \in Agents, StartedIfNeeded(a), UNCHANGED <<unread, working, written>>
    PROVE  /\ active' \in [Agents -> BOOLEAN] /\ active'[a]
           /\ process' \in [Agents -> {"none", "running", "leaving"}]
           /\ reader' \in [Agents ->
                 [at: {"off", "reading", "chunk", "complete", "clean", "lost"},
                  request: Requests \cup {NoRequest}, of: Requests \cup {NoRequest}]]
           /\ \A b \in Agents \ {a} :
                 active'[b] = active[b] /\ process'[b] = process[b] /\ reader'[b] = reader[b]
           /\ active[a] => process'[a] = process[a] /\ reader'[a] = reader[a]
           /\ ~active[a] => process'[a] = "running" /\ reader'[a] = Reading
           /\ \A q \in Requests, b \in Agents :
                 /\ reader'[b].request = q => reader[b].request = q /\ reader'[b] = reader[b]
                 /\ reader'[b].at = "complete" <=> reader[b].at = "complete"
                 /\ reader'[b].at = "chunk" <=> reader[b].at = "chunk"
                 /\ reader[b].request = q /\ reader[b].at = "complete" => reader'[b] = reader[b]
                 /\ In(q, b) /\ Lost(b) => Lost(b)'
<1>1. TypeOK /\ OfAgent(a) /\ NoRequest \notin Requests
  BY AgentsAssumption DEF AgentsInv
<1>2. /\ Reading \in [at: {"off", "reading", "chunk", "complete", "clean", "lost"},
                      request: Requests \cup {NoRequest}, of: Requests \cup {NoRequest}]
      /\ Reading.at = "reading" /\ Reading.request = NoRequest
  BY DEF Reading, Idle
<1>3. CASE active[a] /\ UNCHANGED <<active, process, reader>>
  BY <1>1, <1>3 DEF TypeOK, Lost, Farewell
<1>4. CASE /\ ~active[a]
           /\ active' = [active EXCEPT ![a] = TRUE]
           /\ process' = [process EXCEPT ![a] = "running"]
           /\ reader' = [reader EXCEPT ![a] = Reading]
  <2>1. /\ active' \in [Agents -> BOOLEAN] /\ active'[a]
        /\ process' \in [Agents -> {"none", "running", "leaving"}]
        /\ reader' \in [Agents ->
                 [at: {"off", "reading", "chunk", "complete", "clean", "lost"},
                  request: Requests \cup {NoRequest}, of: Requests \cup {NoRequest}]]
    BY <1>1, <1>2, <1>4 DEF TypeOK
  <2>2. /\ \A b \in Agents \ {a} :
              active'[b] = active[b] /\ process'[b] = process[b] /\ reader'[b] = reader[b]
        /\ process'[a] = "running" /\ reader'[a] = Reading
    BY <1>1, <1>4 DEF TypeOK
  <2>3. reader[a].at = "off" /\ table[a] = <<>>
    BY <1>1, <1>4 DEF OfAgent, Process
  <2>4. \A q \in Requests : ~In(q, a)
    BY <2>3 DEF In, Outstanding
  <2>5. \A q \in Requests, b \in Agents : In(q, b) /\ Lost(b) => Lost(b)'
    BY <2>2, <2>4 DEF Lost, Farewell
  <2> QED
    BY <1>1, <1>2, <1>4, <2>1, <2>2, <2>3, <2>5
<1> QED
  BY <1>3, <1>4 DEF StartedIfNeeded

\* A request that is about to be written: its token goes from the sender to
\* the table.
LEMMA EnterKeeps ==
    ASSUME AgentsInv, NEW r \in Requests, NEW a \in Agents,
           request[r].at = "sending", a \in request[r].agents, mutex[a] = NoRequest,
           StartedIfNeeded(a),
           request' = [request EXCEPT ![r].at = "entered"],
           UNCHANGED <<answers, stopped, unread, working, written, begun>>,
           aggregator'[r] = aggregator[r] \/ Miscounted(r),
           \A b \in Agents :
              (mutex'[b] = r <=> b = a) /\ (In(r, b)' <=> In(r, b) \/ b = a)
    PROVE  OfRequest(r)'
<1>1. request[r].at # "none"
  OBVIOUS
<1>2. /\ TypeOK /\ request[r] \in RequestRecord
      /\ Locked(r) /\ Listed(r) /\ Unseen(r) /\ Home(r)
      /\ Handled(r) /\ Tokens(r) /\ Aggregates(r)
  BY <1>1, Parts
<1>3. /\ request'[r].at = "entered" /\ request'[r].agents = request[r].agents
      /\ request'[r].type = request[r].type /\ request'[r].retry = request[r].retry
  BY <1>2 DEF TypeOK, RequestRecord
<1>4. \A b \in Agents :
          /\ reader'[b].request = r => reader[b].request = r /\ reader'[b] = reader[b]
          /\ reader'[b].at = "complete" <=> reader[b].at = "complete"
          /\ reader[b].request = r /\ reader[b].at = "complete" => reader'[b] = reader[b]
  BY StartLeaves
<1>5. \A b \in Agents : mutex[b] # r
  BY <1>2 DEF Locked, Busy
<1>6. (Answered(r)' <=> Answered(r)) /\ (Exempt(r) => Exempt(r)')
      /\ (HasAggregator(r)' <=> HasAggregator(r))
  BY <1>3 DEF Answered, Exempt, CleanedUp, Miscounted, HasAggregator
<1>7. \A b \in Agents : (Near(r, b)' <=> Near(r, b)) /\ (Asked(r, b)' <=> Asked(r, b))
  BY QuietMessages
<1>8. Pending(r)' = Pending(r) /\ Holding(r)' = Holding(r) /\ a \in Pending(r)
  <2>1. \A b \in Agents : b \in Pending(r)' <=> b \in Pending(r)
    BY <1>3, <1>5 DEF Pending
  <2>2. Pending(r)' \subseteq Agents /\ Pending(r) \subseteq Agents
    BY DEF Pending
  <2>3. \A b \in Agents : b \in Holding(r)' <=> b \in Holding(r)
    BY <1>4 DEF Holding
  <2>4. Holding(r)' \subseteq Agents /\ Holding(r) \subseteq Agents
    BY DEF Holding
  <2> QED
    BY <1>5, <2>1, <2>2, <2>3, <2>4 DEF Pending
<1>9. Locked(r)'
  <2>1. \A b \in Agents : In(r, b)' /\ b \in request[r].agents => b = a
    BY <1>2, <1>5 DEF Locked
  <2>2. request[r].retry => request[r].type \in {"operation"} \cup ToModule
    BY <1>2 DEF Locked
  <2> QED
    BY <1>3, <2>1, <2>2 DEF Locked, Busy
<1>10. Listed(r)'
  BY DEF Listed
<1>11. \A b \in request[r].agents : ~Near(r, b)' /\ reader'[b].request # r
  <2>1. TAKE b \in request[r].agents
  <2>2. b \in Agents /\ mutex[b] # r
    BY <1>2, <1>5 DEF RequestRecord
  <2> QED
    BY <1>2, <1>4, <1>7, <2>2 DEF Unseen
<1>12. Unseen(r)'
  BY <1>3, <1>11 DEF Unseen
<1>13. ASSUME NEW h \in Agents, AtHome(r, h)
       PROVE  AtHome(r, h)'
  <2>1. a = h
    BY <1>13 DEF AtHome
  <2> QED
    BY <1>3, <1>4, <1>7, <1>13, <2>1 DEF AtHome
<1>14. Home(r)'
  BY <1>2, <1>3, <1>13 DEF Home
<1>15. ASSUME request[r].type \in Single, ~Exempt(r), Followed(r)
       PROVE  Followed(r)'
  <2>1. begun[r] = 0 /\ begun' = begun
    BY <1>15 DEF Followed
  <2>2. \A b \in Agents : reader'[b].request # r
    <3>1. PICK h \in Agents : AtHome(r, h)
      BY <1>2, <1>15 DEF Home
    <3>2. reader'[a].request # r /\ a = h
      BY <1>11, <3>1 DEF AtHome
    <3> QED
      BY <1>4, <3>1, <3>2 DEF AtHome
  <2>3. ~Answered(r)
    <3>1. OneToken(r)
      BY <1>2, <1>15 DEF Tokens, HasAggregator, Single, Aggregated, ToAll, ToModule
    <3> QED
      BY <1>8, <3>1 DEF OneToken
  <2>4. Pending(r)' # {}
    BY <1>8
  <2> QED
    BY <1>3, <1>6, <2>1, <2>2, <2>3, <2>4 DEF Followed
<1>16. Handled(r)'
  BY <1>2, <1>3, <1>6, <1>15 DEF Handled
<1>17. OneToken(r) => OneToken(r)'
  BY <1>3, <1>6, <1>8 DEF OneToken
<1>18. ~Exempt(r) /\ Counts(r) => Counts(r)'
  BY <1>3, <1>6, <1>8 DEF Counts, Exempt
<1> QED
  BY <1>2, <1>3, <1>6, <1>9, <1>10, <1>12, <1>14, <1>16, <1>17, <1>18
     DEF OfRequest, Tokens, Aggregates

\* The request is entered in the table of its agent.
LEMMA EnterStep ==
    ASSUME AgentsInv, NEW r \in Requests, NEW a \in Agents, Enter(r, a)
    PROVE  AgentsInv'
<1>1. /\ request[r].at = "sending" /\ a \in request[r].agents /\ mutex[a] = NoRequest
      /\ StartedIfNeeded(a)
      /\ request' = [request EXCEPT ![r].at = "entered"]
      /\ table' = [table EXCEPT ![a] = AddEntry(r, a)]
      /\ mutex' = [mutex EXCEPT ![a] = r]
      /\ UNCHANGED <<answers, stopped, unread, working, written, begun, chunks, exits>>
  BY DEF Enter, StartedIfNeeded
<1>2. /\ TypeOK /\ request[r] \in RequestRecord /\ Locked(r)
      /\ \A b \in Agents : OfAgent(b)
  BY <1>1, Parts DEF AgentsInv
<1>3. /\ aggregator' \in [Requests ->
            [expected: 0..Cardinality(Agents), received: Nat, error: BOOLEAN, alive: BOOLEAN]]
      /\ \A q \in Requests \ {r} : aggregator'[q] = aggregator[q]
      /\ aggregator'[r] = aggregator[r] \/ Miscounted(r)
  <2>1. CASE UNCHANGED aggregator
    BY <1>2, <2>1 DEF TypeOK
  <2>2. CASE /\ HasAggregator(r) /\ stopped /\ request[r].type # "stopAll"
             /\ aggregator' = [aggregator EXCEPT ![r] = CountedResponse(r, TRUE, FALSE)]
    <3>1. Miscounted(r)
      BY <2>2 DEF HasAggregator, Miscounted
    <3> QED
      BY <1>2, <2>2, <3>1, CountedType DEF TypeOK
  <2> QED
    BY <2>1, <2>2 DEF Enter, Accept
<1>4. /\ request' \in [Requests -> RequestRecord \cup {[at |-> "none"]}]
      /\ \A q \in Requests \ {r} : request'[q] = request[q]
      /\ request'[r].id = request[r].id /\ request'[r].type = request[r].type
      /\ request'[r].at = "entered"
  <2>1. request'[r] \in RequestRecord
    BY <1>1, <1>2 DEF TypeOK, RequestRecord
  <2>2. request' \in [Requests -> RequestRecord \cup {[at |-> "none"]}]
    BY <1>1, <1>2, <2>1 DEF TypeOK
  <2> QED
    BY <1>1, <1>2, <2>2 DEF TypeOK, RequestRecord
<1>5. request[r].id \notin DOMAIN table[a] /\ ~In(r, a)
  BY <1>1, NoSuchEntry
<1>6. PICK x \in Addresses : x = request[r].id
  BY <1>2 DEF RequestRecord
<1>7. /\ table' \in [Agents -> Table]
      /\ \A q \in Requests, b \in Agents : In(q, b)' <=> In(q, b) \/ (q = r /\ b = a)
      /\ DOMAIN table'[a] = DOMAIN table[a] \cup {x}
      /\ \A y \in DOMAIN table[a] : table'[a][y] = table[a][y]
      /\ table'[a][x] = r
  BY <1>1, <1>2, <1>5, <1>6, EntryAdded
<1>8. /\ mutex' \in [Agents -> Requests \cup {NoRequest}] /\ mutex'[a] = r
      /\ \A b \in Agents \ {a} : mutex'[b] = mutex[b]
  BY <1>1, <1>2 DEF TypeOK
<1>9. /\ active' \in [Agents -> BOOLEAN] /\ active'[a]
      /\ process' \in [Agents -> {"none", "running", "leaving"}]
      /\ reader' \in [Agents ->
            [at: {"off", "reading", "chunk", "complete", "clean", "lost"},
             request: Requests \cup {NoRequest}, of: Requests \cup {NoRequest}]]
      /\ \A b \in Agents \ {a} :
            active'[b] = active[b] /\ process'[b] = process[b] /\ reader'[b] = reader[b]
      /\ active[a] => process'[a] = process[a] /\ reader'[a] = reader[a]
      /\ ~active[a] => process'[a] = "running" /\ reader'[a] = Reading
  BY <1>1, StartLeaves
<1>10. TypeOK'
  BY <1>1, <1>2, <1>3, <1>4, <1>7, <1>8, <1>9 DEF TypeOK
<1>11. NoRequest \notin Requests
  BY AgentsAssumption
<1>12. ASSUME NEW q \in Requests \ {r}
       PROVE  SenderSame(q) /\ MessageSame(q)
  <2>1. \A b \in Agents : (mutex'[b] = q <=> mutex[b] = q) /\ (In(q, b)' <=> In(q, b))
    BY <1>1, <1>7, <1>8, <1>11
  <2>2. \A b \in Agents :
            /\ reader'[b].request = q => reader[b].request = q /\ reader'[b] = reader[b]
            /\ reader[b].request = q /\ reader[b].at = "complete" => reader'[b] = reader[b]
            /\ In(q, b) /\ Lost(b) => Lost(b)'
    BY <1>1, StartLeaves
  <2>3. SenderSame(q)
    BY <1>1, <1>3, <1>4, <2>1, <2>2 DEF SenderSame
  <2>4. \A b \in Agents : /\ (Asked(q, b)' <=> Asked(q, b)) /\ (Served(q, b)' <=> Served(q, b))
                          /\ (Near(q, b)' <=> Near(q, b)) /\ (Replied(q, b)' <=> Replied(q, b))
    BY <1>1, QuietMessages
  <2> QED
    BY <1>1, <2>1, <2>2, <2>3, <2>4 DEF MessageSame
<1>13. ASSUME IdsKept, NEW b \in Agents
       PROVE  AgentSame(b) \/ OfAgent(b)'
  <2>1. CASE b # a
    <3>1. table'[b] = table[b]
      BY <1>1, <1>2, <2>1 DEF TypeOK
    <3> QED
      BY <1>1, <1>8, <1>9, <2>1, <3>1 DEF AgentSame
  <2>2. CASE b = a
    <3>1. Reading.at = "reading" /\ Reading.request = NoRequest
      BY DEF Reading, Idle
    <3>2. Process(a)'
      <4>1. CASE active[a]
        BY <1>1, <1>2, <1>9, <4>1 DEF OfAgent, Process
      <4>2. CASE ~active[a]
        <5>1. written'[a] = <<>> /\ process'[a] = "running" /\ reader'[a].at = "reading"
          BY <1>1, <1>2, <1>9, <3>1, <4>2 DEF OfAgent, Process
        <5> QED
          BY <1>9, <5>1 DEF Process
      <4> QED
        BY <4>1, <4>2
    <3>3. /\ \A y \in DOMAIN table[a] : table[a][y] \in Requests
          /\ \A n \in unread[a] \cup working[a] : n.of \in Requests
      BY <1>2 DEF TypeOK, Table
    <3>4. \A y \in DOMAIN table'[a] :
              request'[table'[a][y]].at # "none" /\ request'[table'[a][y]].id = y
      BY <1>2, <1>4, <1>6, <1>7, <1>13, <3>3 DEF OfAgent, Labelled, IdsKept
    <3>5. Labelled(a)'
      BY <1>1, <1>2, <1>13, <3>3, <3>4 DEF OfAgent, Labelled, IdsKept
    <3>6. Reads(a)'
      BY <1>2, <1>9, <1>13, <3>1 DEF OfAgent, Reads, IdsKept
    <3> QED
      BY <2>2, <3>2, <3>5, <3>6 DEF OfAgent
  <2> QED
    BY <2>1, <2>2
<1>14. \A b \in Agents : mutex[b] # r
  BY <1>1, <1>2 DEF Locked, Busy
<1>15. OfRequest(r)'
  <2>1. \A b \in Agents : (mutex'[b] = r <=> b = a) /\ (In(r, b)' <=> In(r, b) \/ b = a)
    BY <1>7, <1>8, <1>14
  <2> QED
    BY <1>1, <1>3, <2>1, EnterKeeps
<1>16. Live(r)
  BY <1>1 DEF Live
<1> QED
  BY <1>1, <1>4, <1>10, <1>12, <1>13, <1>15, <1>16, OneRequestStep

-----------------------------------------------------------------------------
\* A cleanup takes the entry: what is said of requests that are answered once
\* is no longer said of this one.
LEMMA CleanUpStep ==
    ASSUME AgentsInv, NEW a \in Agents, CleanUp(a)
    PROVE  AgentsInv'
<1>1. /\ TypeOK /\ Unique /\ NoRequest \notin Requests
      /\ \A b \in Agents : OfAgent(b)
  BY AgentsAssumption DEF AgentsInv
<1>2. PICK x \in DOMAIN table[a] :
          /\ Answer(table[a][x], Closed)
          /\ table' = [table EXCEPT ![a] = WithoutEntry(a, x)]
  BY DEF CleanUp
<1>3. PICK r \in Requests : r = table[a][x]
  BY <1>1 DEF TypeOK, Table
<1>4. request[r].at # "none" /\ request[r].id = x /\ In(r, a) /\ x \in Addresses
  BY <1>1, <1>3 DEF OfAgent, Labelled, In, Outstanding, TypeOK, Table
<1>5. /\ UNCHANGED <<request, aggregator, stopped, active, mutex, reader>>
      /\ UNCHANGED <<process, unread, working, written, begun, chunks, exits>>
  BY DEF CleanUp, agentVars
<1>6. /\ Locked(r) /\ Unseen(r) /\ Home(r)
  BY <1>4, Parts
<1>7. /\ answers' \in [Requests -> Seq(Requests \cup {Failed, Default, Closed})]
      /\ \A q \in Requests \ {r} : answers'[q] = answers[q]
      /\ Answered(r)' /\ CleanedUp(r)'
  <2>1. answers' = [answers EXCEPT ![r] = Append(@, Closed)]
    BY <1>2, <1>3 DEF Answer
  <2>2. Closed \in Requests \cup {Failed, Default, Closed}
    OBVIOUS
  <2> QED
    BY <1>1, <2>1, <2>2, AnswerAdded
<1>8. /\ table' \in [Agents -> Table]
      /\ \A q \in Requests, b \in Agents : In(q, b)' <=> In(q, b) /\ (b = a => request[q].id # x)
      /\ DOMAIN table'[a] = DOMAIN table[a] \ {x}
      /\ \A y \in DOMAIN table'[a] : table'[a][y] = table[a][y]
  <2>1. Labelled(a)
    BY <1>1 DEF OfAgent
  <2> QED
    BY <1>1, <1>2, <1>4, <2>1, EntryRemoved
<1>9. TypeOK'
  BY <1>1, <1>5, <1>7, <1>8 DEF TypeOK
<1>10. ASSUME NEW q \in Requests \ {r}
       PROVE  SenderSame(q) /\ MessageSame(q)
  <2>1. ASSUME NEW b \in Agents
        PROVE  In(q, b)' <=> In(q, b)
    <3>1. ASSUME In(q, a), request[q].id = x
          PROVE  FALSE
      <4>1. request[q].at # "none" /\ Live(q) /\ Live(r)
        BY <1>1, <1>4, <3>1, EntryOf DEF OfAgent, Live
      <4> QED
        BY <1>1, <1>4, <3>1, <4>1, SameId
    <3> QED
      BY <1>8, <3>1
  <2> QED
    BY <1>5, <1>7, <2>1, OthersLeft
<1>11. ASSUME NEW b \in Agents
       PROVE  AgentSame(b) \/ OfAgent(b)'
  <2>1. CASE b # a
    <3>1. table'[b] = table[b]
      BY <1>1, <1>2, <2>1 DEF TypeOK
    <3> QED
      BY <1>5, <3>1 DEF AgentSame
  <2>2. CASE b = a
    <3>1. active[a]
      BY <1>1, <1>4 DEF OfAgent, Process, In, Outstanding
    <3>2. Process(a)'
      BY <1>1, <1>5, <3>1 DEF OfAgent, Process
    <3>3. Labelled(a)'
      BY <1>1, <1>5, <1>8 DEF OfAgent, Labelled
    <3>4. Reads(a)'
      BY <1>1, <1>5 DEF OfAgent, Reads
    <3> QED
      BY <2>2, <3>2, <3>3, <3>4 DEF OfAgent
  <2> QED
    BY <2>1, <2>2
<1>12. Exempt(r)'
  BY <1>7 DEF Exempt
<1>13. \A b \in Agents : /\ (Near(r, b)' <=> Near(r, b)) /\ (In(r, b)' => In(r, b))
  BY <1>5, <1>8, QuietMessages
<1>14. OfRequest(r)'
  <2>1. Locked(r)'
    BY <1>5, <1>6, <1>13 DEF Locked
  <2>2. Unseen(r)'
    <3>1. request[r].agents \subseteq Agents
      BY <1>1, <1>4, RecordOf DEF RequestRecord
    <3> QED
      BY <1>5, <1>6, <1>13, <3>1 DEF Unseen
  <2>3. ASSUME NEW h \in Agents, AtHome(r, h)
        PROVE  AtHome(r, h)'
    BY <1>5, <1>13, <2>3 DEF AtHome
  <2>4. Home(r)'
    BY <1>5, <1>6, <2>3 DEF Home
  <2> QED
    BY <1>4, <1>5, <1>12, <2>1, <2>2, <2>4
       DEF OfRequest, Listed, Handled, Tokens, Aggregates
<1>15. Live(r)
  BY <1>4 DEF Live
<1> QED
  BY <1>4, <1>5, <1>9, <1>10, <1>11, <1>14, <1>15, OneRequestStep

\* The reader answers the request it holds: its last token is used up.
LEMMA SendResponseStep ==
    ASSUME AgentsInv, NEW a \in Agents, SendResponse(a)
    PROVE  AgentsInv'
<1>1. /\ TypeOK /\ NoRequest \notin Requests /\ OfAgent(a)
  BY AgentsAssumption DEF AgentsInv
<1>2. /\ reader[a].at = "complete" /\ mutex[a] = NoRequest
      /\ UNCHANGED <<request, aggregator, stopped, active, mutex, table>>
      /\ UNCHANGED <<process, unread, working, written, begun, chunks, exits>>
      /\ reader' = [reader EXCEPT ![a] = Reading]
  BY DEF SendResponse, SenderGone, agentVars
<1>3. PICK r \in Requests :
          r = reader[a].request /\ reader[a].of = r /\ request[r].at # "none"
  BY <1>1, <1>2 DEF OfAgent, Reads
<1>4. /\ Locked(r) /\ Listed(r) /\ Unseen(r) /\ Home(r)
      /\ Handled(r) /\ Tokens(r) /\ Aggregates(r)
      /\ request[r] \in RequestRecord
  BY <1>3, Parts
<1>5. answers' = [answers EXCEPT ![r] = Append(@, r)]
  BY <1>3 DEF SendResponse, Answer
<1>6. /\ answers' \in [Requests -> Seq(Requests \cup {Failed, Default, Closed})]
      /\ \A q \in Requests \ {r} : answers'[q] = answers[q]
      /\ Len(answers'[r]) = Len(answers[r]) + 1 /\ Len(answers[r]) \in Nat
      /\ Answered(r)'
      /\ (CleanedUp(r) => CleanedUp(r)')
  <2>1. r \in Requests \cup {Failed, Default, Closed}
    OBVIOUS
  <2> QED
    BY <1>1, <1>5, <2>1, AnswerAdded
<1>7. /\ Reading.at = "reading" /\ Reading.request = NoRequest
      /\ Reading \in [at: {"off", "reading", "chunk", "complete", "clean", "lost"},
                      request: Requests \cup {NoRequest}, of: Requests \cup {NoRequest}]
  BY DEF Reading, Idle
<1>8. /\ reader' \in [Agents ->
            [at: {"off", "reading", "chunk", "complete", "clean", "lost"},
             request: Requests \cup {NoRequest}, of: Requests \cup {NoRequest}]]
      /\ reader'[a] = Reading
      /\ \A b \in Agents \ {a} : reader'[b] = reader[b]
  BY <1>1, <1>2, <1>7 DEF TypeOK
<1>9. TypeOK'
  BY <1>1, <1>2, <1>6, <1>8 DEF TypeOK
<1>10. \A q \in Requests, b \in Agents : In(q, b)' <=> In(q, b)
  BY <1>2, TablesLeft
<1>11. \A q \in Requests, b \in Agents :
          /\ (Asked(q, b)' <=> Asked(q, b)) /\ (Served(q, b)' <=> Served(q, b))
          /\ (Near(q, b)' <=> Near(q, b)) /\ (Replied(q, b)' <=> Replied(q, b))
          /\ (Lost(b)' <=> Lost(b))
  <2>1. \A b \in Agents : Lost(b)' <=> Lost(b)
    BY <1>2, <1>7, <1>8 DEF Lost, Farewell
  <2> QED
    BY <1>2, <2>1, QuietMessages
<1>12. ASSUME NEW q \in Requests \ {r}
       PROVE  SenderSame(q) /\ MessageSame(q)
  <2>1. \A b \in Agents : reader'[b].request = q => reader'[b] = reader[b]
    BY <1>1, <1>7, <1>8
  <2>2. \A b \in Agents : reader[b].request = q => reader'[b] = reader[b]
    BY <1>3, <1>8
  <2>3. SenderSame(q)
    BY <1>2, <1>6, <1>10, <2>1, <2>2 DEF SenderSame
  <2> QED
    BY <1>2, <1>11, <2>1, <2>3 DEF MessageSame
<1>13. ASSUME NEW b \in Agents
       PROVE  AgentSame(b) \/ OfAgent(b)'
  <2>1. CASE b # a
    BY <1>2, <1>8, <2>1 DEF AgentSame
  <2>2. CASE b = a
    <3>1. Process(a)'
      BY <1>1, <1>2, <1>7, <1>8 DEF OfAgent, Process
    <3>2. Labelled(a)'
      BY <1>1, <1>2 DEF OfAgent, Labelled
    <3>3. Reads(a)'
      BY <1>7, <1>8 DEF Reads
    <3> QED
      BY <2>2, <3>1, <3>2, <3>3 DEF OfAgent
  <2> QED
    BY <2>1, <2>2
<1>14. Exempt(r) => Exempt(r)'
  BY <1>2, <1>6 DEF Exempt, Miscounted
<1>15. Pending(r)' = Pending(r) /\ Holding(r)' = Holding(r) \ {a} /\ a \in Holding(r)
  <2>1. \A b \in Agents : b \in Pending(r)' <=> b \in Pending(r)
    BY <1>2, <1>10 DEF Pending
  <2>2. Pending(r)' \subseteq Agents /\ Pending(r) \subseteq Agents
    BY DEF Pending
  <2>3. \A b \in Agents : b \in Holding(r)' <=> b \in Holding(r) /\ b # a
    BY <1>7, <1>8 DEF Holding
  <2>4. Holding(r)' \subseteq Agents /\ Holding(r) \subseteq Agents
    BY DEF Holding
  <2> QED
    BY <1>2, <1>3, <2>1, <2>2, <2>3, <2>4 DEF Holding
<1>16. HasAggregator(r)' <=> HasAggregator(r)
  BY <1>2 DEF HasAggregator
<1>17. ASSUME ~Answered(r)
       PROVE  Len(answers'[r]) <= 1
  <2>1. Len(answers[r]) = 0
    BY <1>1, <1>17, NoAnswers
  <2>2. PICK n : n = Len(answers'[r])
    OBVIOUS
  <2>3. n = 0 + 1
    BY <1>6, <2>1, <2>2
  <2>4. n <= 1
    BY <2>3
  <2> QED
    BY <2>2, <2>4
<1>18. ASSUME OneToken(r)
       PROVE  OneToken(r)'
  <2>1. Pending(r) = {} /\ Holding(r) = {a} /\ ~Answered(r) /\ request[r].at # "dropped"
    BY <1>15, <1>18 DEF OneToken
  <2>2. Pending(r)' = {} /\ Holding(r)' = {}
    BY <1>15, <2>1
  <2> QED
    BY <1>2, <1>17, <2>1, <2>2 DEF OneToken
<1>19. ASSUME Counts(r)
       PROVE  Counts(r)'
  <2>1. Holding(r) # {}
    BY <1>15
  <2>2. /\ Cardinality(Pending(r)) = 0 /\ aggregator[r].received = aggregator[r].expected
        /\ ~Answered(r)
    BY <1>19, <2>1 DEF Counts
  <2>3. Holding(r) = {a}
    BY <1>15, <1>19 DEF Counts
  <2>4. Holding(r)' = {} /\ Pending(r)' = Pending(r) /\ aggregator' = aggregator
    BY <1>2, <1>15, <2>3
  <2> QED
    BY <1>17, <1>19, <2>2, <2>4 DEF Counts
<1>20. ASSUME request[r].type \in Single, Followed(r)
       PROVE  Followed(r)'
  <2>1. PICK h \in Agents : AtHome(r, h)
    BY <1>4, <1>20 DEF Home
  <2>2. a = h
    BY <1>3, <2>1 DEF AtHome
  <2>3. request[r].at \notin Busy
    <3>1. SUFFICES ASSUME request[r].at \in Busy
                   PROVE  FALSE
      OBVIOUS
    <3>2. PICK b \in Agents : mutex[b] = r /\ b \in request[r].agents
      BY <1>4, <3>1 DEF Locked
    <3>3. b = a
      BY <2>1, <2>2, <3>2 DEF AtHome
    <3> QED
      BY <1>1, <1>2, <3>2, <3>3
  <2>4. \A b \in Agents : reader'[b].at = "chunk" => reader'[b] = reader[b]
    BY <1>7, <1>8
  <2> QED
    BY <1>2, <1>6, <1>10, <1>11, <1>20, <2>3, <2>4 DEF Followed
<1>21. OfRequest(r)'
  <2>1. Locked(r)'
    BY <1>2, <1>4, <1>10 DEF Locked
  <2>2. Listed(r)'
    BY <1>2, <1>4, <1>10, <1>14 DEF Listed
  <2>3. Unseen(r)'
    <3>1. request[r].agents \subseteq Agents
      BY <1>4 DEF RequestRecord
    <3>2. \A b \in Agents : reader'[b].request = r => reader[b].request = r
      BY <1>1, <1>7, <1>8
    <3> QED
      BY <1>2, <1>4, <1>11, <3>1, <3>2 DEF Unseen
  <2>4. ASSUME NEW h \in Agents, AtHome(r, h)
        PROVE  AtHome(r, h)'
    <3>2. \A b \in Agents : reader'[b].request = r => reader[b].request = r
      BY <1>1, <1>7, <1>8
    <3> QED
      BY <1>2, <1>10, <1>11, <2>4, <3>2 DEF AtHome
  <2>5. Home(r)'
    BY <1>2, <1>4, <2>4 DEF Home
  <2>6. Handled(r)'
    BY <1>2, <1>4, <1>14, <1>20 DEF Handled
  <2> QED
    BY <1>2, <1>3, <1>4, <1>14, <1>16, <1>18, <1>19, <2>1, <2>2, <2>3, <2>5, <2>6
       DEF OfRequest, Tokens, Aggregates
<1>22. Live(r)' => Live(r)
  BY <1>2, <1>6, <1>10, <1>11 DEF Live
<1> QED
  BY <1>2, <1>3, <1>9, <1>12, <1>13, <1>21, <1>22, OneRequestStep

-----------------------------------------------------------------------------
\* The reader takes a response to r: its entry is removed, and "took" says that
\* it is the only one or the last one, which the reader is to answer.
ResponseOf(r, a, took) ==
    /\ Heard(r, a) /\ In(r, a) /\ mutex'[a] = mutex[a]
    /\ Head(written[a]).kind = "complete" /\ Head(written[a]).of = r
    /\ \A q \in Requests, b \in Agents : In(q, b)' <=> In(q, b) /\ ~(q = r /\ b = a)
    /\ \A b \in Agents \ {a} : reader'[b] = reader[b] /\ table'[b] = table[b]
    /\ reader'[a] = IF took THEN [at |-> "complete", request |-> r, of |-> r] ELSE reader[a]
    /\ \/ ~HasAggregator(r) /\ took /\ UNCHANGED aggregator
       \/ /\ HasAggregator(r) /\ took \in IsComplete(r)
          /\ \E error \in BOOLEAN :
                aggregator' = [aggregator EXCEPT ![r] = CountedResponse(r, error, took)]

\* The entry of a response is that of its own request, and no other goes.
LEMMA ReadResponseOf ==
    ASSUME AgentsInv, NEW a \in Agents, Read(a), ReadResponse(a)
    PROVE  \E r \in Requests, took \in BOOLEAN :
              /\ request[r].at # "none" /\ ResponseOf(r, a, took) /\ TypeOK'
              /\ DOMAIN table'[a] \subseteq DOMAIN table[a]
              /\ \A x \in DOMAIN table'[a] : table'[a][x] = table[a][x]
<1>1. /\ TypeOK /\ Unique /\ NoRequest \notin Requests
      /\ \A b \in Agents : OfAgent(b)
  BY AgentsAssumption DEF AgentsInv
<1>2. /\ written[a] # <<>> /\ written' \in [Agents -> Seq(Messages)]
      /\ UNCHANGED <<requestVars, stopped, active, mutex, process>>
      /\ UNCHANGED <<unread, working, begun, chunks, exits>>
  BY <1>1, ReadMessage
<1>3. PICK r \in Requests :
          /\ r = Head(written[a]).of /\ r = table[a][Head(written[a]).id]
          /\ request[r].at # "none" /\ request[r].id = Head(written[a]).id
          /\ Heard(r, a) /\ In(r, a)
  BY <1>2, EntryFits DEF ReadResponse
<1>4. PICK id \in Addresses : id = Head(written[a]).id /\ id = request[r].id
  BY <1>1, <1>3, RecordOf DEF RequestRecord
<1>5. table' = [table EXCEPT ![a] = WithoutEntry(a, id)]
  BY <1>4 DEF ReadResponse
<1>6. /\ table' \in [Agents -> Table]
      /\ \A q \in Requests, b \in Agents :
            In(q, b)' <=> In(q, b) /\ (b = a => request[q].id # id)
      /\ DOMAIN table'[a] = DOMAIN table[a] \ {id}
      /\ \A x \in DOMAIN table'[a] : table'[a][x] = table[a][x]
  <2>1. Labelled(a)
    BY <1>1 DEF OfAgent
  <2> QED
    BY <1>1, <1>5, <2>1, EntryRemoved
<1>7. ASSUME NEW q \in Requests, NEW b \in Agents
      PROVE  In(q, b)' <=> In(q, b) /\ ~(q = r /\ b = a)
  <2>1. ASSUME In(q, a), request[q].id = id
        PROVE  q = r
    <3>1. request[q].at # "none" /\ Live(q) /\ Live(r)
      BY <1>1, <1>3, <2>1, EntryOf DEF OfAgent, Live
    <3> QED
      BY <1>1, <1>3, <1>4, <2>1, <3>1, SameId
  <2> QED
    BY <1>4, <1>6, <2>1
<1>8. PICK taken : taken = [at |-> "complete", request |-> r, of |-> r]
  OBVIOUS
<1>9. PICK took \in BOOLEAN :
          /\ reader' = IF took THEN [reader EXCEPT ![a] = taken] ELSE reader
          /\ \/ ~HasAggregator(r) /\ took /\ UNCHANGED aggregator
             \/ /\ HasAggregator(r) /\ took \in IsComplete(r)
                /\ \E error \in BOOLEAN :
                      aggregator' = [aggregator EXCEPT ![r] = CountedResponse(r, error, took)]
  <2>1. ReaderTakes(a, "complete") => reader' = [reader EXCEPT ![a] = taken]
    BY <1>3, <1>8 DEF ReaderTakes
  <2>2. \/ ~HasAggregator(r) /\ ReaderTakes(a, "complete") /\ UNCHANGED aggregator
        \/ /\ HasAggregator(r)
           /\ \E last \in IsComplete(r), error \in ProviderErrors(r) :
                 /\ aggregator' = [aggregator EXCEPT ![r] = CountedResponse(r, error, last)]
                 /\ IF last THEN ReaderTakes(a, "complete") ELSE UNCHANGED reader
    BY <1>3 DEF ReadResponse
  <2>3. CASE ~HasAggregator(r) /\ ReaderTakes(a, "complete") /\ UNCHANGED aggregator
    <3>1. PICK took \in BOOLEAN : took = TRUE
      OBVIOUS
    <3> QED
      BY <2>1, <2>3, <3>1
  <2>4. CASE /\ HasAggregator(r)
             /\ \E last \in IsComplete(r), error \in ProviderErrors(r) :
                   /\ aggregator' = [aggregator EXCEPT ![r] = CountedResponse(r, error, last)]
                   /\ IF last THEN ReaderTakes(a, "complete") ELSE UNCHANGED reader
    <3>1. IsComplete(r) \subseteq BOOLEAN /\ ProviderErrors(r) \subseteq BOOLEAN
      BY DEF IsComplete, ProviderErrors
    <3>2. PICK took \in IsComplete(r), error \in ProviderErrors(r) :
              /\ aggregator' = [aggregator EXCEPT ![r] = CountedResponse(r, error, took)]
              /\ IF took THEN ReaderTakes(a, "complete") ELSE UNCHANGED reader
      BY <2>4
    <3>3. reader' = IF took THEN [reader EXCEPT ![a] = taken] ELSE reader
      BY <2>1, <3>2
    <3> QED
      BY <2>4, <3>1, <3>2, <3>3
  <2> QED
    BY <2>2, <2>3, <2>4
<1>10. /\ reader' \in [Agents ->
             [at: {"off", "reading", "chunk", "complete", "clean", "lost"},
              request: Requests \cup {NoRequest}, of: Requests \cup {NoRequest}]]
       /\ reader'[a] = IF took THEN taken ELSE reader[a]
       /\ \A b \in Agents \ {a} : reader'[b] = reader[b]
  BY <1>1, <1>8, <1>9 DEF TypeOK
<1>11. aggregator' \in [Requests ->
            [expected: 0..Cardinality(Agents), received: Nat, error: BOOLEAN, alive: BOOLEAN]]
  <2>1. CASE UNCHANGED aggregator
    BY <1>1, <2>1 DEF TypeOK
  <2>2. ASSUME NEW error \in BOOLEAN,
               aggregator' = [aggregator EXCEPT ![r] = CountedResponse(r, error, took)]
        PROVE  aggregator' \in [Requests ->
            [expected: 0..Cardinality(Agents), received: Nat, error: BOOLEAN, alive: BOOLEAN]]
    <3>1. PICK g \in [expected: 0..Cardinality(Agents), received: Nat, error: BOOLEAN,
                      alive: BOOLEAN] : g = CountedResponse(r, error, took)
      BY <1>1, CountedType
    <3> QED
      BY <1>1, <2>2, <3>1 DEF TypeOK
  <2> QED
    BY <1>9, <2>1, <2>2
<1>12. TypeOK'
  BY <1>1, <1>2, <1>6, <1>10, <1>11 DEF TypeOK, requestVars
<1>13. \A b \in Agents \ {a} : table'[b] = table[b]
  BY <1>1, <1>5 DEF TypeOK
<1>14. ResponseOf(r, a, took)
  <2>1. Head(written[a]).kind = "complete"
    BY DEF ReadResponse
  <2> QED
    BY <1>2, <1>3, <1>7, <1>8, <1>9, <1>10, <1>13, <2>1 DEF ResponseOf
<1> QED
  BY <1>3, <1>6, <1>12, <1>14

\* The token of r moves from the table to the reader, or to the count.
LEMMA ResponseTokens ==
    ASSUME AgentsInv, NEW r \in Requests, NEW a \in Agents, NEW took \in BOOLEAN,
           request[r].at # "none", ResponseOf(r, a, took), reader[a].at = "reading",
           UNCHANGED <<request, answers, stopped, mutex>>
    PROVE  /\ a \in Pending(r) /\ Pending(r)' = Pending(r) \ {a}
           /\ a \notin Holding(r) /\ Holding(r)' = Holding(r) \cup (IF took THEN {a} ELSE {})
           /\ Tokens(r) => Tokens(r)'
           /\ Aggregates(r) => Aggregates(r)'
<1>1. /\ TypeOK /\ Locked(r)
  BY Parts
<1>2. /\ \A b \in Agents \ {a} : reader'[b] = reader[b]
      /\ took => reader'[a].at = "complete" /\ reader'[a].request = r
      /\ ~took => reader'[a] = reader[a]
      /\ In(r, a) /\ \A b \in Agents : In(r, b)' <=> In(r, b) /\ b # a
  BY DEF ResponseOf
<1>3. a \in Pending(r) /\ Pending(r)' = Pending(r) \ {a}
  <2>1. a \in request[r].agents => mutex[a] = r
    BY <1>1, <1>2 DEF Locked
  <2>2. \A b \in Agents : b \in Pending(r)' <=> b \in Pending(r) /\ b # a
    BY <1>2, <2>1 DEF Pending
  <2>3. Pending(r)' \subseteq Agents /\ Pending(r) \subseteq Agents
    BY DEF Pending
  <2> QED
    BY <1>2, <2>2, <2>3 DEF Pending
<1>4. a \notin Holding(r) /\ Holding(r)' = Holding(r) \cup (IF took THEN {a} ELSE {})
  <2>1. \A b \in Agents : b \in Holding(r)' <=> b \in Holding(r) \/ (b = a /\ took)
    BY <1>2 DEF Holding
  <2>2. Holding(r)' \subseteq Agents /\ Holding(r) \subseteq Agents
    BY DEF Holding
  <2> QED
    BY <2>1, <2>2 DEF Holding
<1>5. /\ HasAggregator(r)' <=> HasAggregator(r)
      /\ Exempt(r)' <=> Exempt(r)
      /\ Answered(r)' <=> Answered(r)
  BY DEF HasAggregator, Exempt, CleanedUp, Miscounted, Answered
<1>6. ASSUME ~HasAggregator(r), OneToken(r)
      PROVE  OneToken(r)'
  <2>1. took
    BY <1>6 DEF ResponseOf
  <2>2. Pending(r) = {a} /\ Holding(r) = {}
    BY <1>3, <1>4, <1>6 DEF OneToken
  <2>3. Pending(r)' = {} /\ Holding(r)' = {a}
    BY <1>3, <1>4, <2>1, <2>2
  <2> QED
    BY <1>5, <1>6, <2>2, <2>3 DEF OneToken
<1>7. Tokens(r) => Tokens(r)'
  BY <1>5, <1>6 DEF Tokens
<1>8. ASSUME HasAggregator(r), Counts(r)
      PROVE  Counts(r)'
  <2>1. PICK error \in BOOLEAN :
            /\ took \in IsComplete(r)
            /\ aggregator' = [aggregator EXCEPT ![r] = CountedResponse(r, error, took)]
    BY <1>8 DEF ResponseOf
  <2>2. PICK g \in [expected: 0..Cardinality(Agents), received: Nat, error: BOOLEAN,
                    alive: BOOLEAN] : g = aggregator[r]
    BY <1>1 DEF TypeOK
  <2>3. PICK left \in Nat : left = Cardinality(Pending(r))
    BY PendingCount
  <2>4. left # 0 /\ Cardinality(Pending(r)') = left - 1
    <3>1. /\ Cardinality(Pending(r)) = 0 <=> Pending(r) = {}
          /\ Cardinality(Pending(r) \ {a}) = Cardinality(Pending(r)) - 1
      BY <1>3, PendingCount
    <3> QED
      BY <1>3, <2>3, <3>1
  <2>5. g.expected \in Nat
    <3>1. Cardinality(Agents) \in Nat
      BY AgentsAssumption, FS_CardinalityType
    <3> QED
      BY <2>2, <3>1
  <2>6. /\ g.received + left <= g.expected
        /\ g.received < g.expected => g.alive
        /\ Holding(r) = {} /\ Len(answers[r]) <= 1
        /\ Answered(r) => /\ g.received + left < g.expected
                          /\ request[r].at = "done"
                          /\ request[r].type \in ToModule
    BY <1>8, <2>2, <2>3, <2>4 DEF Counts
  <2>7. g.received < g.expected /\ g.alive
    BY <2>2, <2>3, <2>4, <2>5, <2>6
  <2>8. took <=> g.received + 1 = g.expected
    <3>1. took = (g.received + 1 = g.expected)
      BY <2>1, <2>2, <2>7 DEF IsComplete
    <3> QED
      BY <3>1
  <2>9. /\ aggregator'[r].expected = g.expected
        /\ aggregator'[r].received = g.received + 1
        /\ ~took => aggregator'[r].alive
    <3>1. aggregator'[r] = CountedResponse(r, error, took)
      BY <1>1, <2>1 DEF TypeOK
    <3>2. aggregator'[r] = [g EXCEPT !.received = IF @ > g.expected THEN @ ELSE @ + 1,
                                     !.error = @ \/ error, !.alive = @ /\ ~took]
      BY <2>2, <3>1 DEF CountedResponse
    <3>3. ~(g.received > g.expected)
      BY <2>2, <2>5, <2>7
    <3> QED
      BY <2>2, <2>7, <3>2, <3>3
  <2>10. took => left = 1 /\ ~Answered(r)
    BY <2>2, <2>4, <2>5, <2>6, <2>8
  <2>11. g.received + 1 + (left - 1) = g.received + left
    BY <2>2
  <2>12. Holding(r)' = IF took THEN {a} ELSE {}
    BY <1>4, <2>6
  <2>13. CASE took
    BY <1>5, <2>2, <2>4, <2>5, <2>6, <2>8, <2>9, <2>10, <2>12, <2>13 DEF Counts
  <2>14. CASE ~took
    BY <1>5, <2>2, <2>4, <2>5, <2>6, <2>9, <2>12, <2>14 DEF Counts
  <2> QED
    BY <2>13, <2>14
<1>9. Aggregates(r) => Aggregates(r)'
  BY <1>5, <1>8 DEF Aggregates
<1> QED
  BY <1>3, <1>4, <1>7, <1>9

\* What is said of a request is still true when its response was taken.
LEMMA ResponseKeeps ==
    ASSUME AgentsInv, NEW r \in Requests, NEW a \in Agents, NEW took \in BOOLEAN,
           request[r].at # "none", ResponseOf(r, a, took), reader[a].at = "reading",
           UNCHANGED <<request, answers, stopped, mutex, begun>>,
           reader[a].request = NoRequest,
           \A b \in Agents : /\ (Asked(r, b)' <=> Asked(r, b)) /\ (Served(r, b)' <=> Served(r, b))
                             /\ (Near(r, b)' => Near(r, b)),
           \A b \in Agents \ {a} : (Replied(r, b)' <=> Replied(r, b)) /\ (Lost(b)' <=> Lost(b))
    PROVE  OfRequest(r)'
<1>1. /\ TypeOK /\ request[r] \in RequestRecord
      /\ Locked(r) /\ Listed(r) /\ Unseen(r) /\ Home(r)
      /\ Handled(r) /\ Tokens(r) /\ Aggregates(r)
  BY Parts
<1>2. /\ Holding(r)' = Holding(r) \cup (IF took THEN {a} ELSE {})
      /\ Tokens(r)' /\ Aggregates(r)'
  BY <1>1, ResponseTokens
<1>3. /\ \A b \in Agents \ {a} : reader'[b] = reader[b]
      /\ took => reader'[a].at = "complete"
      /\ ~took => reader'[a] = reader[a]
      /\ In(r, a) /\ \A b \in Agents : In(r, b)' <=> In(r, b) /\ b # a
      /\ Near(r, a)
  BY DEF ResponseOf, Near
<1>4. Exempt(r)' <=> Exempt(r)
  BY DEF Exempt, CleanedUp, Miscounted
<1>5. Locked(r)'
  BY <1>1, <1>3 DEF Locked
<1>6. a \in request[r].agents => mutex[a] = r /\ request[r].at # "entered"
  BY <1>1, <1>3 DEF Locked, Unseen
<1>7. Listed(r)'
  BY <1>1, <1>3, <1>4, <1>6 DEF Listed, Locked
<1>8. Unseen(r)'
  <2>1. request[r].agents \subseteq Agents
    BY <1>1 DEF RequestRecord
  <2> QED
    BY <1>1, <1>3, <1>6, <2>1 DEF Unseen
<1>9. ASSUME NEW h \in Agents, AtHome(r, h)
      PROVE  AtHome(r, h)'
  <2>1. h = a
    BY <1>3, <1>9 DEF AtHome
  <2> QED
    BY <1>3, <1>9, <2>1 DEF AtHome
<1>10. Home(r)'
  BY <1>1, <1>9 DEF Home
<1>11. ASSUME request[r].type \in Single, Followed(r)
       PROVE  Followed(r)'
  <2>1. took
    BY <1>11 DEF ResponseOf, HasAggregator, Single, Aggregated, ToAll, ToModule
  <2>2. Holding(r)' # {} /\ reader'[a].at # "chunk"
    BY <1>2, <1>3, <2>1
  <2>3. Answered(r)' <=> Answered(r)
    BY DEF Answered
  <2> QED
    BY <1>3, <1>11, <2>2, <2>3 DEF Followed
<1>12. Handled(r)'
  BY <1>1, <1>4, <1>11 DEF Handled
<1> QED
  BY <1>2, <1>5, <1>7, <1>8, <1>10, <1>12 DEF OfRequest

\* The response to a request is read.
LEMMA ReadResponseStep ==
    ASSUME AgentsInv, NEW a \in Agents, Read(a), ReadResponse(a)
    PROVE  AgentsInv'
<1>1. /\ TypeOK /\ Unique /\ NoRequest \notin Requests
      /\ \A b \in Agents : OfAgent(b)
  BY AgentsAssumption DEF AgentsInv
<1>2. /\ written[a] # <<>> /\ written'[a] = Tail(written[a])
      /\ \A b \in Agents \ {a} : written'[b] = written[b]
      /\ reader[a].at = "reading" /\ reader[a].request = NoRequest
      /\ UNCHANGED <<request, answers, stopped, active, mutex, process>>
      /\ UNCHANGED <<unread, working, begun, chunks, exits>>
  <2>1. \A b \in Agents \ {a} : written'[b] = written[b]
    <3>1. written' = [written EXCEPT ![a] = Tail(@)]
      BY DEF Read
    <3> QED
      BY <1>1, <3>1 DEF TypeOK
  <2> QED
    BY <1>1, <2>1, ReadMessage DEF requestVars
<1>3. PICK r \in Requests, took \in BOOLEAN :
              /\ request[r].at # "none" /\ ResponseOf(r, a, took) /\ TypeOK'
              /\ DOMAIN table'[a] \subseteq DOMAIN table[a]
              /\ \A x \in DOMAIN table'[a] : table'[a][x] = table[a][x]
  BY ReadResponseOf
<1>4. /\ \A q \in Requests, b \in Agents : In(q, b)' <=> In(q, b) /\ ~(q = r /\ b = a)
      /\ \A b \in Agents \ {a} : reader'[b] = reader[b] /\ table'[b] = table[b]
      /\ took => reader'[a] = [at |-> "complete", request |-> r, of |-> r]
      /\ ~took => reader'[a] = reader[a]
      /\ \A q \in Requests \ {r} : aggregator'[q] = aggregator[q]
      /\ Head(written[a]).kind = "complete" /\ Head(written[a]).of = r
      /\ In(r, a)
  <2>1. \A q \in Requests \ {r} : aggregator'[q] = aggregator[q]
    BY <1>1, <1>3 DEF ResponseOf, TypeOK
  <2> QED
    BY <1>3, <2>1 DEF ResponseOf
<1>5. ASSUME NEW q \in Requests, NEW b \in Agents
      PROVE  /\ (Asked(q, b)' <=> Asked(q, b)) /\ (Served(q, b)' <=> Served(q, b))
             /\ (Near(q, b)' => Near(q, b)) /\ (Replied(q, b) /\ q # r => Replied(q, b)')
             /\ (Lost(b) => Lost(b)')
             /\ b # a => (Replied(q, b)' <=> Replied(q, b)) /\ (Lost(b)' <=> Lost(b))
  <2>1. (Asked(q, b)' <=> Asked(q, b)) /\ (Served(q, b)' <=> Served(q, b))
    BY <1>2 DEF Asked, Served
  <2>2. CASE b = a
    <3>1. (Heard(q, a)' => Heard(q, a)) /\ (Replied(q, a) /\ q # r => Replied(q, a)')
          /\ (Farewell(a)' => Farewell(a))
      BY <1>1, <1>2, <1>4, ReadLeaves
    <3>2. Lost(a) => Lost(a)'
      BY <1>2, <1>4, <3>1 DEF Lost
    <3> QED
      BY <2>1, <2>2, <3>1, <3>2 DEF Near
  <2>3. CASE b # a
    <3>1. written'[b] = written[b] /\ reader'[b] = reader[b]
      BY <1>2, <1>4, <2>3
    <3>2. (Heard(q, b)' <=> Heard(q, b)) /\ (Replied(q, b)' <=> Replied(q, b))
      BY <3>1 DEF Heard, Replied
    <3>3. Lost(b)' <=> Lost(b)
      BY <1>2, <3>1 DEF Lost, Farewell
    <3> QED
      BY <2>1, <2>3, <3>2, <3>3 DEF Near
  <2> QED
    BY <2>2, <2>3
<1>6. ASSUME NEW q \in Requests \ {r}
      PROVE  SenderSame(q) /\ MessageSame(q)
  <2>1. reader'[a].request = q => FALSE
    BY <1>1, <1>2, <1>4
  <2>2. reader[a].at # "complete"
    BY <1>2
  <2>3. SenderSame(q)
    BY <1>2, <1>4, <2>1, <2>2 DEF SenderSame
  <2>4. ASSUME NEW b \in Agents
        PROVE  reader'[b].request = q => reader[b].request = q /\ reader'[b].at = reader[b].at
    BY <1>4, <2>1
  <2>5. MessageSame(q)
    BY <1>2, <1>5, <2>4 DEF MessageSame
  <2> QED
    BY <2>3, <2>5
<1>7. ASSUME NEW b \in Agents
      PROVE  AgentSame(b) \/ OfAgent(b)'
  <2>1. CASE b # a
    BY <1>2, <1>4, <2>1 DEF AgentSame
  <2>2. CASE b = a
    <3>1. active[a]
      BY <1>1, <1>2 DEF OfAgent, Process
    <3>2. reader'[a].at \in {"reading", "complete"}
      BY <1>2, <1>4
    <3>3. Process(a)'
      <4>1. \A k \in DOMAIN written'[a] : written'[a][k].kind = "bye" =>
                k = Len(written'[a]) /\ process'[a] # "running"
        BY <1>1, ReadLabels
      <4> QED
        BY <1>1, <1>2, <3>1, <3>2, <4>1 DEF OfAgent, Process
    <3>4. Labelled(a)'
      <4>1. \A x \in DOMAIN table'[a] :
                request'[table'[a][x]].at # "none" /\ request'[table'[a][x]].id = x
        BY <1>1, <1>2, <1>3 DEF OfAgent, Labelled
      <4> QED
        BY <1>1, <4>1, ReadLabels DEF Labelled
    <3>5. Reads(a)'
      BY <1>2, <1>3, <1>4 DEF Reads
    <3> QED
      BY <2>2, <3>3, <3>4, <3>5 DEF OfAgent
  <2> QED
    BY <2>1, <2>2
<1>8. OfRequest(r)'
  BY <1>2, <1>3, <1>5, ResponseKeeps
<1>9. Live(r)
  BY <1>4 DEF Live
<1> QED
  BY <1>2, <1>3, <1>6, <1>7, <1>8, <1>9, OneRequestStep

-----------------------------------------------------------------------------
\* Nothing is known yet of a request that does not exist.
LEMMA Nowhere ==
    ASSUME AgentsInv, NEW r \in Requests, request[r].at = "none", NEW a \in Agents
    PROVE  /\ ~In(r, a) /\ ~Near(r, a) /\ ~Asked(r, a) /\ reader[a].request # r
           /\ mutex[a] # r /\ answers[r] = <<>> /\ begun[r] = 0
<1>1. TypeOK /\ OfAgent(a) /\ Unborn(r) /\ NoRequest \notin Requests
  BY AgentsAssumption DEF AgentsInv, OfRequest
<1>2. ~In(r, a)
  BY <1>1, EntryOf DEF OfAgent
<1>3. ~Asked(r, a) /\ ~Served(r, a)
  BY <1>1 DEF OfAgent, Labelled, Asked, Served
<1>4. ~Heard(r, a)
  BY <1>1 DEF OfAgent, Labelled, Heard
<1>5. reader[a].request # r
  BY <1>1 DEF OfAgent, Reads
<1> QED
  BY <1>1, <1>2, <1>3, <1>4, <1>5 DEF Unborn, Near

\* The address of a request that is in use, or that an agent may still answer,
\* is not given to a new one.
LEMMA AddressTaken ==
    ASSUME AgentsInv, NEW q \in Requests, request[q].at # "none", Live(q)
    PROVE  request[q].id \in InUse \cup Known
<1>1. TypeOK /\ \A a \in Agents : OfAgent(a)
  BY DEF AgentsInv
<1>2. q \in Received /\ NoRequest \notin Requests
  BY AgentsAssumption DEF Received
<1>3. CASE ~Answered(q)
  BY <1>2, <1>3 DEF InUse
<1>4. CASE request[q].at \notin {"done", "dropped"}
  BY <1>2, <1>4 DEF Known
<1>5. ASSUME NEW a \in Agents, In(q, a)
      PROVE  request[q].id \in Known
  <2>1. request[q].id \in DOMAIN table[a]
    BY <1>1, <1>5, EntryOf DEF OfAgent
  <2> QED
    BY <2>1 DEF Known
<1>6. ASSUME NEW a \in Agents, Asked(q, a) \/ Served(q, a)
      PROVE  request[q].id \in Known
  <2>1. PICK m \in unread[a] \cup working[a] : m.of = q
    BY <1>6 DEF Asked, Served
  <2>2. m.id = request[q].id
    BY <1>1, <2>1 DEF OfAgent, Labelled
  <2> QED
    BY <2>1, <2>2 DEF Known
<1>7. ASSUME NEW a \in Agents, Heard(q, a)
      PROVE  request[q].id \in Known
  <2>1. PICK k \in DOMAIN written[a] : written[a][k].of = q
    BY <1>7 DEF Heard
  <2>2. written[a][k].id = request[q].id
    BY <1>1, <1>2, <2>1 DEF OfAgent, Labelled
  <2> QED
    BY <2>1, <2>2 DEF Known
<1> QED
  BY <1>3, <1>4, <1>5, <1>6, <1>7 DEF Live, Near

\* A request that was made: its type and address, and the agents it is for.
Made(r, t, x, S) ==
    /\ request'[r] = [at   |-> IF S = {} THEN "done" ELSE "sending",
                      type |-> t, id |-> x, agents |-> S, retry |-> FALSE]
    /\ answers'[r] = IF S = {} THEN <<Default>> ELSE <<>>
    /\ aggregator'[r] = IF t \in Single \/ S = {} THEN NoAggregator
                        ELSE [expected |-> Cardinality(S), received |-> 0,
                              error |-> FALSE, alive |-> TRUE]
    /\ t \in Single => \E h \in Agents : S = {h}

\* What a request is made of that is received: its address is not taken.
LEMMA ReceiveMakes ==
    ASSUME AgentsInv, Fresh, NEW r \in Requests, Receive(r)
    PROVE  \E t \in Types, x \in Addresses, S \in SUBSET Agents :
              Made(r, t, x, S) /\ TypeOK' /\ x \notin InUse \cup Known
<1>1. /\ TypeOK /\ answers[r] = <<>> /\ request[r].at = "none"
      /\ UNCHANGED <<active, mutex, table, reader, agentVars>>
  BY DEF AgentsInv, OfRequest, Unborn, Receive
<1>2. PICK t \in Types, x \in Addresses \ (InUse \cup Known) :
          /\ stopped' = (stopped \/ t = "stopAll")
          /\ \E S \in IF t \in Single THEN {{a} : a \in Agents} ELSE {ActiveAgents} :
                /\ request' = [request EXCEPT ![r] =
                       [at   |-> IF S = {} THEN "done" ELSE "sending",
                        type |-> t, id |-> x, agents |-> S, retry |-> FALSE]]
                /\ IF S = {} THEN Answer(r, Default) ELSE UNCHANGED answers
                /\ aggregator' = [aggregator EXCEPT ![r] =
                       IF t \in Single \/ S = {} THEN NoAggregator
                       ELSE [expected |-> Cardinality(S), received |-> 0,
                             error |-> FALSE, alive |-> TRUE]]
  BY DEF Receive, Fresh
<1>3. PICK S \in IF t \in Single THEN {{a} : a \in Agents} ELSE {ActiveAgents} :
          /\ request' = [request EXCEPT ![r] =
                 [at   |-> IF S = {} THEN "done" ELSE "sending",
                  type |-> t, id |-> x, agents |-> S, retry |-> FALSE]]
          /\ IF S = {} THEN Answer(r, Default) ELSE UNCHANGED answers
          /\ aggregator' = [aggregator EXCEPT ![r] =
                 IF t \in Single \/ S = {} THEN NoAggregator
                 ELSE [expected |-> Cardinality(S), received |-> 0,
                       error |-> FALSE, alive |-> TRUE]]
  BY <1>2
<1>4. S \in SUBSET Agents /\ (t \in Single => \E h \in Agents : S = {h})
  BY DEF ActiveAgents
<1>5. Cardinality(S) \in 0..Cardinality(Agents)
  <2>1. IsFiniteSet(Agents) /\ S \subseteq Agents
    BY <1>4, AgentsAssumption
  <2>2. IsFiniteSet(S) /\ Cardinality(S) <= Cardinality(Agents)
    BY <2>1, FS_Subset
  <2>3. Cardinality(S) \in Nat /\ Cardinality(Agents) \in Nat
    BY <2>1, <2>2, FS_CardinalityType
  <2> QED
    BY <2>2, <2>3
<1>6. /\ request' \in [Requests -> RequestRecord \cup {[at |-> "none"]}]
      /\ request'[r] = [at   |-> IF S = {} THEN "done" ELSE "sending",
                        type |-> t, id |-> x, agents |-> S, retry |-> FALSE]
  <2>1. [at   |-> IF S = {} THEN "done" ELSE "sending",
         type |-> t, id |-> x, agents |-> S, retry |-> FALSE] \in RequestRecord
    BY <1>2, <1>4 DEF RequestRecord
  <2> QED
    BY <1>1, <1>3, <2>1 DEF TypeOK
<1>7. /\ answers' \in [Requests -> Seq(Requests \cup {Failed, Default, Closed})]
      /\ answers'[r] = IF S = {} THEN <<Default>> ELSE <<>>
  <2>1. CASE S = {}
    <3>1. answers' = [answers EXCEPT ![r] = <<Default>>]
      BY <1>1, <1>3, <2>1 DEF Answer
    <3>2. <<Default>> \in Seq(Requests \cup {Failed, Default, Closed})
      OBVIOUS
    <3> QED
      BY <1>1, <2>1, <3>1, <3>2 DEF TypeOK
  <2>2. CASE S # {}
    BY <1>1, <1>3, <2>2 DEF TypeOK
  <2> QED
    BY <2>1, <2>2
<1>8. /\ aggregator' \in [Requests ->
            [expected: 0..Cardinality(Agents), received: Nat, error: BOOLEAN, alive: BOOLEAN]]
      /\ aggregator'[r] = IF t \in Single \/ S = {} THEN NoAggregator
                          ELSE [expected |-> Cardinality(S), received |-> 0,
                                error |-> FALSE, alive |-> TRUE]
  <2>1. PICK g \in [expected: 0..Cardinality(Agents), received: Nat, error: BOOLEAN,
                    alive: BOOLEAN] :
            g = IF t \in Single \/ S = {} THEN NoAggregator
                ELSE [expected |-> Cardinality(S), received |-> 0,
                      error |-> FALSE, alive |-> TRUE]
    <3>1. PICK n \in Nat : n = Cardinality(Agents)
      BY AgentsAssumption, FS_CardinalityType
    <3>2. 0 \in 0..Cardinality(Agents)
      BY <3>1
    <3>3. PICK c \in 0..Cardinality(Agents) : c = Cardinality(S)
      BY <1>5
    <3>4. NoAggregator \in [expected: 0..Cardinality(Agents), received: Nat, error: BOOLEAN,
                            alive: BOOLEAN]
      BY <3>2 DEF NoAggregator
    <3>5. [expected |-> c, received |-> 0, error |-> FALSE, alive |-> TRUE]
              \in [expected: 0..Cardinality(Agents), received: Nat, error: BOOLEAN,
                   alive: BOOLEAN]
      OBVIOUS
    <3> QED
      BY <3>3, <3>4, <3>5
  <2>2. aggregator' = [aggregator EXCEPT ![r] = g]
    BY <1>3, <2>1
  <2> QED
    BY <1>1, <2>1, <2>2 DEF TypeOK
<1>9. TypeOK'
  <2>1. stopped' \in BOOLEAN
    BY <1>1, <1>2 DEF TypeOK
  <2> QED
    BY <1>1, <1>6, <1>7, <1>8, <2>1 DEF TypeOK, agentVars
<1>10. Made(r, t, x, S)
  BY <1>4, <1>6, <1>7, <1>8 DEF Made
<1> QED
  BY <1>2, <1>4, <1>9, <1>10

\* A new request has one token for each agent that it is for.
LEMMA MadeKeeps ==
    ASSUME AgentsInv, NEW r \in Requests, request[r].at = "none",
           NEW t \in Types, NEW x \in Addresses, NEW S \in SUBSET Agents, Made(r, t, x, S),
           UNCHANGED <<mutex, table, reader, unread, working, written, begun>>
    PROVE  OfRequest(r)'
<1>1. \A a \in Agents :
          /\ ~In(r, a)' /\ ~Near(r, a)' /\ ~Asked(r, a)' /\ reader'[a].request # r
          /\ mutex'[a] # r /\ begun'[r] = 0
  <2>1. ASSUME NEW a \in Agents
        PROVE  /\ (In(r, a)' <=> In(r, a)) /\ (Near(r, a)' <=> Near(r, a))
               /\ (Asked(r, a)' <=> Asked(r, a))
    BY TablesLeft, QuietMessages
  <2> QED
    BY <2>1, Nowhere
<1>2. /\ request'[r].at = IF S = {} THEN "done" ELSE "sending"
      /\ request'[r].type = t /\ request'[r].agents = S /\ request'[r].retry = FALSE
  BY DEF Made
<1>3. t \in Single \cup Aggregated /\ (t \in Single => t \notin Aggregated)
  BY AgentsAssumption DEF Single, Aggregated, ToAll, ToModule
<1>4. Pending(r)' = S /\ Holding(r)' = {}
  <2>1. \A a \in Agents : a \in Pending(r)' <=> a \in S
    BY <1>1, <1>2 DEF Pending
  <2>2. Pending(r)' \subseteq Agents
    BY DEF Pending
  <2> QED
    BY <1>1, <2>1, <2>2 DEF Holding
<1>5. /\ S # {} => answers'[r] = <<>> /\ ~Answered(r)' /\ Len(answers'[r]) = 0
      /\ Len(answers'[r]) <= 1
  <2>1. CASE S = {}
    <3>1. answers'[r] = <<Default>>
      BY <2>1 DEF Made
    <3> QED
      BY <2>1, <3>1
  <2>2. CASE S # {}
    <3>1. answers'[r] = <<>>
      BY <2>2 DEF Made
    <3> QED
      BY <3>1 DEF Answered
  <2> QED
    BY <2>1, <2>2
<1>6. Locked(r)'
  BY <1>1, <1>2 DEF Locked, Busy
<1>7. Listed(r)' /\ Unseen(r)'
  BY <1>1, <1>2 DEF Listed, Unseen
<1>8. Home(r)'
  <2>1. ASSUME t \in Single
        PROVE  \E h \in Agents : AtHome(r, h)'
    <3>1. PICK h \in Agents : S = {h}
      BY <2>1 DEF Made
    <3>2. AtHome(r, h)'
      BY <1>1, <1>2, <3>1 DEF AtHome
    <3> QED
      BY <3>2
  <2> QED
    BY <1>2, <2>1 DEF Home
<1>9. ASSUME t \in Single
      PROVE  Followed(r)' /\ OneToken(r)'
  <2>1. PICK h \in Agents : S = {h}
    BY <1>9 DEF Made
  <2>2. Followed(r)'
    BY <1>1, <1>2, <1>4, <1>5, <2>1 DEF Followed, Busy
  <2>3. OneToken(r)'
    BY <1>2, <1>4, <1>5, <2>1 DEF OneToken
  <2> QED
    BY <2>2, <2>3
<1>10. Handled(r)' /\ Tokens(r)'
  BY <1>2, <1>3, <1>9 DEF Handled, Tokens, HasAggregator
<1>11. ASSUME t \in Aggregated
       PROVE  Counts(r)'
  <2>1. PICK left \in Nat : left = Cardinality(Pending(r)')
    <3>1. IsFiniteSet(S)
      BY AgentsAssumption, FS_Subset
    <3> QED
      BY <1>4, <3>1, FS_CardinalityType
  <2>2. CASE S = {}
    <3>1. left = 0
      BY <1>4, <2>1, <2>2, FS_EmptySet
    <3>2. aggregator'[r].expected = 0 /\ aggregator'[r].received = 0
      BY <2>2 DEF Made, NoAggregator
    <3> QED
      BY <1>4, <1>5, <2>1, <3>1, <3>2 DEF Counts
  <2>3. CASE S # {}
    <3>1. /\ aggregator'[r].expected = left /\ aggregator'[r].received = 0
          /\ aggregator'[r].alive
      BY <1>3, <1>4, <1>11, <2>1, <2>3 DEF Made
    <3> QED
      BY <1>4, <1>5, <2>1, <2>3, <3>1 DEF Counts
  <2> QED
    BY <2>2, <2>3
<1>12. Aggregates(r)'
  BY <1>2, <1>11 DEF Aggregates, HasAggregator
<1> QED
  BY <1>2, <1>6, <1>7, <1>8, <1>10, <1>12 DEF OfRequest

\* A new request reaches the router.
LEMMA ReceiveStep ==
    ASSUME AgentsInv, Fresh, NEW r \in Requests, Receive(r)
    PROVE  AgentsInv'
<1>1. /\ TypeOK /\ Unique /\ request[r].at = "none"
      /\ UNCHANGED <<active, mutex, table, reader>>
      /\ UNCHANGED <<process, unread, working, written, begun>>
      /\ \A b \in Agents : OfAgent(b)
  BY DEF AgentsInv, Receive, agentVars
<1>2. PICK t \in Types, x \in Addresses, S \in SUBSET Agents :
          Made(r, t, x, S) /\ TypeOK' /\ x \notin InUse \cup Known
  BY ReceiveMakes
<1>3. OfRequest(r)'
  BY <1>1, <1>2, MadeKeeps
<1>4. ASSUME NEW q \in Requests \ {r}
      PROVE  /\ request'[q] = request[q] /\ answers'[q] = answers[q]
             /\ SenderSame(q) /\ MessageSame(q)
  <2>1. request'[q] = request[q] /\ answers'[q] = answers[q] /\ aggregator'[q] = aggregator[q]
    BY <1>1 DEF Receive, Answer, TypeOK
  <2>2. stopped => stopped'
    BY DEF Receive
  <2>3. \A b \in Agents : In(q, b)' <=> In(q, b)
    BY <1>1, TablesLeft
  <2>4. \A b \in Agents : /\ (Asked(q, b)' <=> Asked(q, b)) /\ (Served(q, b)' <=> Served(q, b))
                          /\ (Near(q, b)' <=> Near(q, b)) /\ (Replied(q, b)' <=> Replied(q, b))
    BY <1>1, QuietMessages
  <2>5. \A b \in Agents : Lost(b)' <=> Lost(b)
    BY <1>1 DEF Lost, Farewell
  <2>6. SenderSame(q)
    BY <1>1, <2>1, <2>2, <2>3 DEF SenderSame
  <2>7. MessageSame(q)
    BY <1>1, <2>4, <2>5 DEF MessageSame
  <2> QED
    BY <2>1, <2>6, <2>7
<1>5. \A q \in Requests : OfRequest(q)'
  BY <1>1, <1>3, <1>4, RequestKept DEF AgentsInv
<1>6. \A q \in Requests \ {r} : Live(q)' => Live(q)
  BY <1>4, LiveKept
<1>7. IdsKept
  BY <1>1, <1>4 DEF IdsKept
<1>8. \A b \in Agents : OfAgent(b)'
  <2>1. \A b \in Agents : AgentSame(b)
    BY <1>1 DEF AgentSame
  <2> QED
    BY <1>1, <1>7, <2>1, AgentKept
<1>9. request'[r].id = x
  BY <1>2 DEF Made
<1>10. ASSUME NEW q \in Requests \ {r}, request[q].at # "none", Live(q)'
       PROVE  request'[q].id # x
  BY <1>2, <1>4, <1>6, <1>10, AddressTaken
<1>11. Unique'
  <2>1. SUFFICES ASSUME NEW p \in Requests, NEW q \in Requests,
                        request'[p].at # "none", request'[q].at # "none",
                        Live(p)', Live(q)', request'[p].id = request'[q].id
                 PROVE  p = q
    BY DEF Unique, Received
  <2>2. CASE p # r /\ q # r
    BY <1>1, <1>4, <1>6, <2>1, <2>2, SameId
  <2>3. CASE p = r /\ q # r
    BY <1>4, <1>9, <1>10, <2>1, <2>3
  <2>4. CASE p # r /\ q = r
    BY <1>4, <1>9, <1>10, <2>1, <2>4
  <2> QED
    BY <2>2, <2>3, <2>4
<1> QED
  BY <1>2, <1>5, <1>8, <1>11 DEF AgentsInv

-----------------------------------------------------------------------------
\* A request that is left in the table of an agent that is gone: its response
\* counts as the last one, and it is sent again or answered, or neither.
Ended(r, a, last, again, answer) ==
    /\ In(r, a) /\ mutex[a] = NoRequest
    /\ request[r].type \in Aggregated => HasAggregator(r)
    /\ last <=> /\ HasAggregator(r) /\ aggregator[r].alive
                /\ aggregator[r].received + 1 = aggregator[r].expected
    /\ again <=> \/ request[r].type = "operation" /\ reader[a].at = "clean"
                 \/ /\ request[r].type \in ToModule /\ last
                    /\ reader[a].at = "clean" /\ ~aggregator[r].error
    /\ answer <=> ~again /\ (request[r].type \in Single \/ last)
    /\ again => request'[r] =
          [request[r] EXCEPT !.at = IF @ = "done" THEN "sending" ELSE @,
                             !.agents = @ \cup {a}, !.retry = TRUE]
    /\ ~again => request'[r] = request[r]
    /\ answer => \E v \in {Failed, Default} : answers'[r] = Append(answers[r], v)
    /\ ~answer => answers'[r] = answers[r]
    /\ HasAggregator(r) => \E error \in BOOLEAN : aggregator'[r] =
          [aggregator[r] EXCEPT !.received = IF @ > aggregator[r].expected THEN @ ELSE @ + 1,
                                !.error = error, !.alive = @ /\ ~last]
    /\ ~HasAggregator(r) => aggregator'[r] = aggregator[r]

\* The container that is not initialized any more.
Closing(a) ==
    /\ reader[a].at \in {"clean", "lost"} /\ mutex[a] = NoRequest
    /\ active' = [active EXCEPT ![a] = FALSE]
    /\ table' = [table EXCEPT ![a] = <<>>]
    /\ reader' = [reader EXCEPT ![a] = Idle]
    /\ process' = [process EXCEPT ![a] = "none"]
    /\ unread' = [unread EXCEPT ![a] = {}]
    /\ working' = [working EXCEPT ![a] = {}]
    /\ written' = [written EXCEPT ![a] = <<>>]
    /\ UNCHANGED <<stopped, mutex, begun, chunks, exits>>

\* What becomes of each request when an agent is gone.
LEMMA UninitializeOf ==
    ASSUME NEW a \in Agents, Uninitialize(a), NEW r \in Requests
    PROVE  /\ In(r, a) => \E last, again, answer \in BOOLEAN : Ended(r, a, last, again, answer)
           /\ ~In(r, a) => /\ request'[r] = request[r] /\ answers'[r] = answers[r]
                           /\ aggregator'[r] = aggregator[r]
<1> DEFINE clean == reader[a].at = "clean"
           left == Left(a)
           last == {q \in left : HasAggregator(q) /\ aggregator[q].alive
                      /\ aggregator[q].received + 1 = aggregator[q].expected}
           again == {q \in left : Again(q, clean, q \in last)}
           answer == {q \in left \ again : request[q].type \in Single \/ q \in last}
<1>1. /\ mutex[a] = NoRequest
      /\ \A q \in left : request[q].type \in Aggregated => HasAggregator(q)
      /\ aggregator' = [q \in Requests |->
             IF q \in left /\ HasAggregator(q)
             THEN CountedResponse(q, ~clean, q \in last)
             ELSE aggregator[q]]
      /\ answers' = [q \in Requests |->
             IF q \in answer
             THEN Append(answers[q],
                         IF request[q].type = "operation" \/ request[q].type \in ToModule
                         THEN Failed ELSE Default)
             ELSE answers[q]]
      /\ request' = [q \in Requests |->
             IF q \in again
             THEN [request[q] EXCEPT !.at = IF @ = "done" THEN "sending" ELSE @,
                                     !.agents = @ \cup {a}, !.retry = TRUE]
             ELSE request[q]]
  BY DEF Uninitialize
<1>2. r \in left <=> In(r, a)
  BY DEF Left, In
<1>3. ASSUME ~In(r, a)
      PROVE  request'[r] = request[r] /\ answers'[r] = answers[r] /\ aggregator'[r] = aggregator[r]
  <2>1. r \notin left /\ r \notin again /\ r \notin answer
    BY <1>2, <1>3
  <2> HIDE DEF left, last, again, answer, clean
  <2> QED
    BY <1>1, <2>1
<1>4. ASSUME In(r, a)
      PROVE  \E l, g, w \in BOOLEAN : Ended(r, a, l, g, w)
  <2>1. PICK l \in BOOLEAN :
            l <=> /\ HasAggregator(r) /\ aggregator[r].alive
                  /\ aggregator[r].received + 1 = aggregator[r].expected
    OBVIOUS
  <2>2. r \in left /\ (r \in last <=> l)
    BY <1>2, <1>4, <2>1
  <2>3. PICK g \in BOOLEAN :
            g <=> \/ request[r].type = "operation" /\ reader[a].at = "clean"
                  \/ /\ request[r].type \in ToModule /\ l
                     /\ reader[a].at = "clean" /\ ~aggregator[r].error
    OBVIOUS
  <2>4. r \in again <=> g
    BY <2>2, <2>3 DEF Again
  <2>5. PICK w \in BOOLEAN : w <=> ~g /\ (request[r].type \in Single \/ l)
    OBVIOUS
  <2>6. r \in answer <=> w
    BY <2>2, <2>4, <2>5
  <2>7. HasAggregator(r) => aggregator'[r] = CountedResponse(r, ~clean, r \in last)
    <3> HIDE DEF left, last, again, answer, clean
    <3> QED
      BY <1>1, <2>2
  <2>8. HasAggregator(r) => aggregator'[r] =
            [aggregator[r] EXCEPT !.received = IF @ > aggregator[r].expected THEN @ ELSE @ + 1,
                                  !.error = @ \/ ~clean, !.alive = @ /\ ~l]
    <3> HIDE DEF left, last, again, answer, clean
    <3> QED
      BY <2>2, <2>7 DEF CountedResponse
  <2>9. PICK e \in BOOLEAN : e <=> aggregator[r].error \/ ~clean
    OBVIOUS
  <2>10. ~HasAggregator(r) => aggregator'[r] = aggregator[r]
    <3> HIDE DEF left, last, again, answer, clean
    <3> QED
      BY <1>1, <2>2
  <2>11. /\ w => \E v \in {Failed, Default} : answers'[r] = Append(answers[r], v)
         /\ ~w => answers'[r] = answers[r]
    <3> HIDE DEF left, last, again, answer, clean
    <3> QED
      BY <1>1, <2>6
  <2>12. /\ g => request'[r] =
               [request[r] EXCEPT !.at = IF @ = "done" THEN "sending" ELSE @,
                                  !.agents = @ \cup {a}, !.retry = TRUE]
         /\ ~g => request'[r] = request[r]
    <3> HIDE DEF left, last, again, answer, clean
    <3> QED
      BY <1>1, <2>4
  <2>13. request[r].type \in Aggregated => HasAggregator(r)
    <3> HIDE DEF left, last, again, answer, clean
    <3> QED
      BY <1>1, <2>2
  <2> HIDE DEF left, last, again, answer, clean
  <2>14. Ended(r, a, l, g, w)
    BY <1>1, <1>4, <2>1, <2>3, <2>5, <2>8, <2>9, <2>10, <2>11, <2>12, <2>13 DEF Ended
  <2> QED
    BY <2>14
<1> QED
  BY <1>3, <1>4

\* The fields of such a request afterwards.
LEMMA EndedFields ==
    ASSUME NEW r \in Requests, request[r] \in RequestRecord, NEW a \in Agents,
           NEW last \in BOOLEAN, NEW again \in BOOLEAN, NEW answer \in BOOLEAN,
           Ended(r, a, last, again, answer)
    PROVE  /\ request'[r] \in RequestRecord
           /\ request'[r].id = request[r].id /\ request'[r].type = request[r].type
           /\ again => /\ request'[r].agents = request[r].agents \cup {a}
                       /\ request[r].at = "done" => request'[r].at = "sending"
                       /\ request[r].at # "done" => request'[r].at = request[r].at
                       /\ request'[r].retry
           /\ ~again => request'[r] = request[r]
<1>1. CASE again
  <2>1. PICK q \in RequestRecord : q = request[r]
    OBVIOUS
  <2>2. request'[r] = [q EXCEPT !.at = IF @ = "done" THEN "sending" ELSE @,
                                !.agents = @ \cup {a}, !.retry = TRUE]
    BY <1>1, <2>1 DEF Ended
  <2>3. PICK at : at = IF q.at = "done" THEN "sending" ELSE q.at
    OBVIOUS
  <2>4. PICK S : S = q.agents \cup {a}
    OBVIOUS
  <2>5. at \in {"sending", "entered", "written", "done", "dropped"} /\ S \in SUBSET Agents
    BY <2>1, <2>3, <2>4 DEF RequestRecord
  <2>6. request'[r] = [q EXCEPT !.at = at, !.agents = S, !.retry = TRUE]
    BY <2>2, <2>3, <2>4
  <2>7. /\ request'[r].at = at /\ request'[r].agents = S /\ request'[r].retry
        /\ request'[r].id = q.id /\ request'[r].type = q.type
        /\ request'[r] \in RequestRecord
    BY <2>1, <2>5, <2>6 DEF RequestRecord
  <2> QED
    BY <1>1, <2>1, <2>3, <2>4, <2>7
<1>2. CASE ~again
  BY <1>2 DEF Ended
<1> QED
  BY <1>1, <1>2

\* Its answers afterwards, none of which is a new response.
LEMMA EndedAnswers ==
    ASSUME TypeOK, NEW r \in Requests, NEW a \in Agents,
           NEW last \in BOOLEAN, NEW again \in BOOLEAN, NEW answer \in BOOLEAN,
           Ended(r, a, last, again, answer)
    PROVE  /\ answers'[r] \in Seq(Requests \cup {Failed, Default, Closed})
           /\ answer => Answered(r)'
           /\ answer /\ ~Answered(r) => Len(answers'[r]) <= 1
           /\ ~answer => answers'[r] = answers[r]
           /\ CleanedUp(r) => CleanedUp(r)'
<1>1. PICK s : s = answers[r]
  OBVIOUS
<1>2. s \in Seq(Requests \cup {Failed, Default, Closed})
  BY <1>1 DEF TypeOK
<1>3. ~answer => answers'[r] = answers[r]
  BY DEF Ended
<1>4. ASSUME answer
      PROVE  /\ answers'[r] \in Seq(Requests \cup {Failed, Default, Closed})
             /\ Answered(r)' /\ (~Answered(r) => Len(answers'[r]) <= 1)
             /\ CleanedUp(r) => CleanedUp(r)'
  <2>1. PICK v \in {Failed, Default} : answers'[r] = Append(s, v)
    BY <1>1, <1>4 DEF Ended
  <2>2. v \in Requests \cup {Failed, Default, Closed}
    OBVIOUS
  <2>3. /\ Append(s, v) \in Seq(Requests \cup {Failed, Default, Closed})
        /\ Len(Append(s, v)) = Len(s) + 1 /\ Len(s) \in Nat
        /\ DOMAIN s = 1..Len(s) /\ DOMAIN Append(s, v) = 1..(Len(s) + 1)
        /\ \A k \in DOMAIN s : Append(s, v)[k] = s[k]
    BY <1>2, <2>2, Appended
  <2>4. Answered(r)'
    <3>1. answers'[r] # <<>>
      BY <2>1, <2>3
    <3> QED
      BY <3>1 DEF Answered
  <2>5. ~Answered(r) => Len(answers'[r]) <= 1
    <3>1. ASSUME ~Answered(r)
          PROVE  Len(answers'[r]) <= 1
      <4>1. PICK n : n = Len(answers'[r])
        OBVIOUS
      <4>2. Len(s) = 0
        BY <1>1, <3>1 DEF Answered
      <4>3. n = 0 + 1
        BY <2>1, <2>3, <4>1, <4>2
      <4>4. n <= 1
        BY <4>3
      <4> QED
        BY <4>1, <4>4
    <3> QED
      BY <3>1
  <2>6. CleanedUp(r) => CleanedUp(r)'
    BY <1>1, <2>1, <2>3 DEF CleanedUp
  <2> QED
    BY <2>1, <2>3, <2>4, <2>5, <2>6
<1>5. ~answer => (CleanedUp(r) => CleanedUp(r)')
  BY <1>3 DEF CleanedUp
<1> QED
  BY <1>1, <1>2, <1>3, <1>4, <1>5

\* Its count afterwards.
LEMMA EndedCount ==
    ASSUME TypeOK, NEW r \in Requests, NEW a \in Agents,
           NEW last \in BOOLEAN, NEW again \in BOOLEAN, NEW answer \in BOOLEAN,
           Ended(r, a, last, again, answer)
    PROVE  /\ aggregator'[r] \in [expected: 0..Cardinality(Agents), received: Nat,
                                  error: BOOLEAN, alive: BOOLEAN]
           /\ HasAggregator(r) =>
                 /\ aggregator'[r].expected = aggregator[r].expected
                 /\ aggregator[r].received < aggregator[r].expected =>
                       aggregator'[r].received = aggregator[r].received + 1
                 /\ aggregator'[r].alive <=> aggregator[r].alive /\ ~last
<1>1. PICK g \in [expected: 0..Cardinality(Agents), received: Nat, error: BOOLEAN,
                  alive: BOOLEAN] : g = aggregator[r]
  BY DEF TypeOK
<1>2. CASE HasAggregator(r)
  <2>1. PICK error \in BOOLEAN : aggregator'[r] =
            [g EXCEPT !.received = IF @ > g.expected THEN @ ELSE @ + 1,
                      !.error = error, !.alive = @ /\ ~last]
    BY <1>1, <1>2 DEF Ended
  <2>2. (IF g.received > g.expected THEN g.received ELSE g.received + 1) \in Nat
    BY <1>1
  <2>3. (g.alive /\ ~last) \in BOOLEAN
    OBVIOUS
  <2>4. g.expected \in Int /\ g.received \in Int
    <3>1. Cardinality(Agents) \in Nat
      BY AgentsAssumption, FS_CardinalityType
    <3> QED
      BY <1>1, <3>1
  <2>5. g.received < g.expected => ~(g.received > g.expected)
    BY <2>4
  <2> QED
    BY <1>1, <2>1, <2>2, <2>3, <2>5
<1>3. CASE ~HasAggregator(r)
  BY <1>1, <1>3 DEF Ended
<1> QED
  BY <1>2, <1>3

\* The sender of such a request, and its tokens: the one in the table goes back
\* to the sender, or it is used up.
LEMMA EndedTokens ==
    ASSUME AgentsInv, NEW r \in Requests, NEW a \in Agents, request[r].at # "none",
           NEW last \in BOOLEAN, NEW again \in BOOLEAN, NEW answer \in BOOLEAN,
           Ended(r, a, last, again, answer), UNCHANGED <<mutex, stopped>>,
           \A b \in Agents : In(r, b)' <=> In(r, b) /\ b # a,
           \A b \in Agents \ {a} : reader'[b] = reader[b],
           reader[a].at \in {"clean", "lost"}, reader'[a] = Idle
    PROVE  /\ Locked(r)' /\ Tokens(r)' /\ Aggregates(r)'
           /\ a \notin request[r].agents
           /\ again => a \in Pending(r)'
           /\ Holding(r)' = Holding(r)
           /\ Exempt(r) => Exempt(r)'
<1>1. /\ TypeOK /\ request[r] \in RequestRecord /\ NoRequest \notin Requests
      /\ Locked(r) /\ Tokens(r) /\ Aggregates(r)
  BY Parts, AgentsAssumption
<1>2. /\ request'[r] \in RequestRecord
      /\ request'[r].id = request[r].id /\ request'[r].type = request[r].type
      /\ again => /\ request'[r].agents = request[r].agents \cup {a}
                  /\ request[r].at = "done" => request'[r].at = "sending"
                  /\ request[r].at # "done" => request'[r].at = request[r].at
                  /\ request'[r].retry
      /\ ~again => request'[r] = request[r]
  BY <1>1, EndedFields
<1>3. /\ answers'[r] \in Seq(Requests \cup {Failed, Default, Closed})
      /\ answer => Answered(r)'
      /\ answer /\ ~Answered(r) => Len(answers'[r]) <= 1
      /\ ~answer => answers'[r] = answers[r] /\ (Answered(r)' <=> Answered(r))
      /\ CleanedUp(r) => CleanedUp(r)'
  BY <1>1, EndedAnswers DEF Answered
<1>4. Exempt(r) => Exempt(r)'
  BY <1>2, <1>3 DEF Exempt, Miscounted
<1>5. In(r, a) /\ mutex[a] = NoRequest /\ a \notin request[r].agents
  BY <1>1 DEF Ended, Locked
<1>6. /\ request[r].type \in Aggregated => HasAggregator(r)
      /\ again => request[r].type \in {"operation"} \cup ToModule
      /\ answer => ~again
  BY DEF Ended
<1>7. request[r].at # "dropped"
  <2>1. SUFFICES ASSUME request[r].at = "dropped"
                 PROVE  FALSE
    OBVIOUS
  <2>2. request[r].retry /\ request[r].type \notin Single
    BY <1>1, <1>5, <2>1 DEF Locked
  <2>3. request[r].type \in Aggregated
    BY <1>1, AgentsAssumption, <2>2 DEF RequestRecord
  <2> QED
    BY <1>6, <2>2, <2>3 DEF HasAggregator
<1>8. Locked(r)'
  <2>1. CASE again
    <3>1. request'[r].at \notin {"done", "dropped"}
          /\ (request'[r].at \in Busy <=> request[r].at \in Busy)
      BY <1>2, <1>7, <2>1 DEF Busy
    <3>2. \A b \in Agents : mutex[b] = r => b \in request'[r].agents /\ request'[r].at \in Busy
      BY <1>1, <1>2, <2>1, <3>1 DEF Locked
    <3>3. \A b \in Agents : In(r, b)' /\ b \in request'[r].agents => mutex[b] = r
      BY <1>1, <1>2, <2>1 DEF Locked
    <3> QED
      BY <1>1, <1>2, <1>6, <2>1, <3>1, <3>2, <3>3 DEF Locked
  <2>2. CASE ~again
    BY <1>1, <1>2, <2>2 DEF Locked
  <2> QED
    BY <2>1, <2>2
<1>9. /\ a \in Pending(r) /\ (a \in Pending(r)' <=> again)
      /\ Pending(r)' = Pending(r) \ (IF again THEN {} ELSE {a})
  <2>1. \A b \in Agents : b \in Pending(r)' <=> b \in Pending(r) /\ (b = a => again)
    <3>1. TAKE b \in Agents
    <3>2. CASE b = a
      BY <1>1, <1>2, <1>5, <3>2 DEF Pending
    <3>3. CASE b # a
      BY <1>2, <3>3 DEF Pending
    <3> QED
      BY <3>2, <3>3
  <2>2. Pending(r)' \subseteq Agents /\ Pending(r) \subseteq Agents
    BY DEF Pending
  <2>3. a \in Pending(r)
    BY <1>5 DEF Pending
  <2> QED
    BY <2>1, <2>2, <2>3
<1>10. Holding(r)' = Holding(r)
  <2>1. \A b \in Agents : b \in Holding(r)' <=> b \in Holding(r)
    BY DEF Holding, Idle
  <2>2. Holding(r)' \subseteq Agents /\ Holding(r) \subseteq Agents
    BY DEF Holding
  <2> QED
    BY <2>1, <2>2
<1>11. ASSUME ~HasAggregator(r), OneToken(r)
       PROVE  OneToken(r)'
  <2>1. request[r].type \in Single /\ ~last
    BY <1>1, <1>6, <1>11, AgentsAssumption DEF RequestRecord, Ended
  <2>2. again \/ answer
    BY <2>1 DEF Ended
  <2>3. Pending(r) = {a} /\ Holding(r) = {} /\ ~Answered(r) /\ Len(answers[r]) <= 1
    BY <1>9, <1>11 DEF OneToken
  <2>4. CASE again
    <3>1. Pending(r)' = {a} /\ Holding(r)' = {} /\ ~Answered(r)' /\ Len(answers'[r]) <= 1
      BY <1>3, <1>6, <1>9, <1>10, <2>3, <2>4
    <3> QED
      BY <1>2, <1>7, <2>4, <3>1 DEF OneToken
  <2>5. CASE answer
    <3>1. Pending(r)' = {} /\ Holding(r)' = {} /\ Len(answers'[r]) <= 1
      BY <1>3, <1>6, <1>9, <1>10, <2>3, <2>5
    <3> QED
      BY <1>2, <1>6, <1>7, <2>5, <3>1 DEF OneToken
  <2> QED
    BY <2>2, <2>4, <2>5
<1>12. ASSUME HasAggregator(r), Counts(r)
       PROVE  (HasAggregator(r)' => Counts(r)') /\ (~HasAggregator(r)' => OneToken(r)')
  <2>1. PICK g \in [expected: 0..Cardinality(Agents), received: Nat, error: BOOLEAN,
                    alive: BOOLEAN] : g = aggregator[r]
    BY <1>1 DEF TypeOK
  <2>2. PICK left \in Nat : left = Cardinality(Pending(r))
    BY PendingCount
  <2>3. /\ left # 0
        /\ Cardinality(Pending(r) \ {a}) = left - 1
        /\ left = 1 => Pending(r) = {a}
    <3>1. /\ Cardinality(Pending(r)) = 0 <=> Pending(r) = {}
          /\ Cardinality(Pending(r) \ {a}) = Cardinality(Pending(r)) - 1
          /\ Cardinality(Pending(r)) = 1 => Pending(r) = {a}
      BY <1>9, PendingCount
    <3> QED
      BY <1>9, <2>2, <3>1
  <2>4. g.expected \in Nat
    <3>1. Cardinality(Agents) \in Nat
      BY AgentsAssumption, FS_CardinalityType
    <3> QED
      BY <2>1, <3>1
  <2>5. /\ g.received + left <= g.expected
        /\ g.received < g.expected => g.alive
        /\ Holding(r) = {} /\ Len(answers[r]) <= 1
        /\ Answered(r) => /\ g.received + left < g.expected
                          /\ request[r].at = "done"
                          /\ request[r].type \in ToModule
    BY <1>12, <2>1, <2>2, <2>3 DEF Counts
  <2>6. g.received < g.expected /\ g.alive
    BY <2>1, <2>3, <2>4, <2>5
  <2>7. last <=> g.received + 1 = g.expected
    BY <1>12, <2>1, <2>6 DEF Ended
  <2>8. last => left = 1 /\ Pending(r) = {a} /\ ~Answered(r)
    BY <2>1, <2>3, <2>4, <2>5, <2>7
  <2>9. /\ aggregator'[r].expected = g.expected
        /\ aggregator'[r].received = g.received + 1
        /\ aggregator'[r].alive <=> ~last
    BY <1>1, <1>12, <2>1, <2>6, EndedCount
  <2>10. request[r].type \in Aggregated /\ request[r].type \notin Single
         /\ request[r].type # "operation" /\ ~request[r].retry
    BY <1>12 DEF HasAggregator, Aggregated, ToAll, ToModule, Single
  <2>11. /\ again => last
         /\ answer <=> last /\ ~again
    BY <2>10 DEF Ended
  <2>12. HasAggregator(r)' <=> ~again
    BY <1>2, <2>10 DEF HasAggregator
  <2>13. CASE again
    <3>1. /\ Pending(r)' = {a} /\ Holding(r)' = {} /\ ~Answered(r)' /\ Len(answers'[r]) <= 1
          /\ request'[r].at # "dropped"
      BY <1>2, <1>3, <1>6, <1>7, <1>9, <1>10, <2>5, <2>8, <2>11, <2>13
    <3>2. OneToken(r)'
      BY <3>1 DEF OneToken
    <3> QED
      BY <2>12, <2>13, <3>2
  <2>14. CASE ~again
    <3>1. /\ Pending(r)' = Pending(r) \ {a} /\ Cardinality(Pending(r)') = left - 1
          /\ Holding(r)' = {}
      BY <1>9, <1>10, <2>3, <2>5, <2>14
    <3>2. CASE last
      <4>1. Len(answers'[r]) <= 1
        BY <1>3, <2>8, <2>11, <2>14, <3>2
      <4>2. left - 1 = 0 /\ g.received + 1 = g.expected
        BY <2>7, <2>8, <3>2
      <4>3. Counts(r)'
        BY <2>1, <2>4, <2>9, <3>1, <4>1, <4>2 DEF Counts
      <4> QED
        BY <2>12, <2>14, <4>3
    <3>3. CASE ~last
      <4>1. answers'[r] = answers[r] /\ request'[r] = request[r] /\ (Answered(r)' <=> Answered(r))
        BY <1>2, <1>3, <2>11, <2>14, <3>3
      <4>2. g.received + 1 + (left - 1) = g.received + left
        BY <2>1
      <4>3. Counts(r)'
        BY <2>1, <2>4, <2>5, <2>9, <3>1, <3>3, <4>1, <4>2 DEF Counts
      <4> QED
        BY <2>12, <2>14, <4>3
    <3> QED
      BY <3>2, <3>3
  <2> QED
    BY <2>13, <2>14
<1>13. ~HasAggregator(r) => ~HasAggregator(r)'
  BY <1>2 DEF HasAggregator
<1>14. Tokens(r)' /\ Aggregates(r)'
  BY <1>1, <1>4, <1>11, <1>12, <1>13 DEF Tokens, Aggregates
<1> QED
  BY <1>4, <1>5, <1>8, <1>9, <1>10, <1>14

\* What is said of a request stays true when an agent is gone in whose table it
\* was.
LEMMA EndedKeeps ==
    ASSUME AgentsInv, NEW r \in Requests, NEW a \in Agents, request[r].at # "none",
           NEW last \in BOOLEAN, NEW again \in BOOLEAN, NEW answer \in BOOLEAN,
           Ended(r, a, last, again, answer), UNCHANGED <<mutex, stopped, begun>>,
           \A b \in Agents : In(r, b)' <=> In(r, b) /\ b # a,
           \A b \in Agents \ {a} :
              /\ reader'[b] = reader[b]
              /\ (Near(r, b)' <=> Near(r, b)) /\ (Asked(r, b)' <=> Asked(r, b)),
           ~Near(r, a)', ~Served(r, a), ~Replied(r, a),
           reader[a].at \in {"clean", "lost"}, reader'[a] = Idle
    PROVE  OfRequest(r)'
<1>1. /\ TypeOK /\ request[r] \in RequestRecord /\ NoRequest \notin Requests
      /\ Locked(r) /\ Listed(r) /\ Unseen(r) /\ Home(r) /\ Handled(r) /\ Tokens(r)
  BY Parts, AgentsAssumption
<1>2. /\ request'[r] \in RequestRecord
      /\ request'[r].id = request[r].id /\ request'[r].type = request[r].type
      /\ again => /\ request'[r].agents = request[r].agents \cup {a}
                  /\ request[r].at = "done" => request'[r].at = "sending"
                  /\ request[r].at # "done" => request'[r].at = request[r].at
                  /\ request'[r].retry
      /\ ~again => request'[r] = request[r]
  BY <1>1, EndedFields
<1>3. /\ answer => Answered(r)'
      /\ ~answer => (Answered(r)' <=> Answered(r))
  BY <1>1, EndedAnswers DEF Answered
<1>4. /\ Locked(r)' /\ Tokens(r)' /\ Aggregates(r)'
      /\ a \notin request[r].agents
      /\ again => a \in Pending(r)'
      /\ Holding(r)' = Holding(r)
      /\ Exempt(r) => Exempt(r)'
  BY EndedTokens
<1>5. In(r, a) /\ mutex[a] = NoRequest
  BY DEF Ended
<1>6. request'[r].at # "none" /\ (request'[r].at = "entered" <=> request[r].at = "entered")
  BY <1>2 DEF RequestRecord
<1>7. Idle.at = "off" /\ Idle.request = NoRequest
  BY DEF Idle
<1>8. Listed(r)'
  BY <1>1, <1>4, <1>5, <1>6 DEF Listed
<1>9. Unseen(r)'
  <2>1. ASSUME NEW b \in request'[r].agents, mutex[b] = r => request[r].at = "entered"
        PROVE  ~Near(r, b)' /\ reader'[b].request # r
    <3>1. b \in Agents
      BY <1>2 DEF RequestRecord
    <3>2. CASE b = a
      BY <1>1, <1>7, <3>2
    <3>3. CASE b # a
      <4>1. b \in request[r].agents
        BY <1>2, <2>1, <3>3
      <4> QED
        BY <1>1, <2>1, <3>1, <3>3, <4>1 DEF Unseen
    <3> QED
      BY <3>2, <3>3
  <2> QED
    BY <1>6, <2>1 DEF Unseen
<1>10. ASSUME NEW h \in Agents, AtHome(r, h)
       PROVE  h = a /\ AtHome(r, h)'
  <2>1. h = a
    BY <1>5, <1>10 DEF AtHome
  <2> QED
    BY <1>2, <1>10, <2>1 DEF AtHome
<1>11. Home(r)'
  BY <1>1, <1>2, <1>10 DEF Home
<1>12. ASSUME request[r].type \in Single, ~Exempt(r), Followed(r)
       PROVE  Followed(r)'
  <2>1. AtHome(r, a)
    BY <1>1, <1>10, <1>12 DEF Home
  <2>2. request[r].at = "done"
    <3>1. request[r].agents = {}
      BY <1>4, <2>1 DEF AtHome
    <3> QED
      BY <1>1, <1>5, <1>12, <3>1 DEF Locked
  <2>3. \A b \in Agents : ~In(r, b)' /\ ~Asked(r, b)' /\ reader'[b].request # r
    BY <1>1, <1>7, <2>1 DEF AtHome, Near
  <2>4. ~last
    BY <1>12 DEF Ended, HasAggregator, Single, Aggregated, ToAll, ToModule
  <2>5. CASE again
    <3>1. reader[a].at = "clean" /\ ~answer
      BY <1>12, <2>4, <2>5 DEF Ended, Single, ToModule
    <3>2. begun[r] = 0
      BY <1>5, <1>12, <3>1 DEF Followed, Lost
    <3>3. ~Answered(r)
      <4>1. OneToken(r)
        BY <1>1, <1>12 DEF Tokens, HasAggregator, Single, Aggregated, ToAll, ToModule
      <4>2. a \in Pending(r)
        BY <1>5 DEF Pending
      <4> QED
        BY <4>1, <4>2 DEF OneToken
    <3>4. a \in Pending(r)' /\ request'[r].at = "sending"
      BY <1>2, <1>4, <2>2, <2>5
    <3> QED
      BY <1>3, <2>3, <3>1, <3>2, <3>3, <3>4 DEF Followed
  <2>6. CASE ~again
    <3>1. answer /\ request'[r] = request[r]
      BY <1>2, <1>12, <2>6 DEF Ended
    <3> QED
      BY <1>3, <1>12, <2>2, <2>3, <3>1 DEF Followed, Busy
  <2> QED
    BY <2>5, <2>6
<1>13. Handled(r)'
  BY <1>1, <1>2, <1>4, <1>12 DEF Handled
<1> QED
  BY <1>4, <1>6, <1>8, <1>9, <1>11, <1>13 DEF OfRequest

\* The agent is gone: every request in its table is answered, sent again or
\* counted, and the others are left alone.
LEMMA UninitializeStep ==
    ASSUME AgentsInv, NEW a \in Agents, Uninitialize(a)
    PROVE  AgentsInv'
<1>1. /\ TypeOK /\ Unique /\ NoRequest \notin Requests
      /\ \A b \in Agents : OfAgent(b)
  BY AgentsAssumption DEF AgentsInv
<1>2. Closing(a)
  BY DEF Closing, Uninitialize
<1>3. /\ reader[a].at \in {"clean", "lost"} /\ mutex[a] = NoRequest
      /\ ~active'[a] /\ table'[a] = <<>> /\ reader'[a] = Idle /\ process'[a] = "none"
      /\ unread'[a] = {} /\ working'[a] = {} /\ written'[a] = <<>>
      /\ \A b \in Agents \ {a} :
            /\ active'[b] = active[b] /\ table'[b] = table[b] /\ reader'[b] = reader[b]
            /\ process'[b] = process[b] /\ unread'[b] = unread[b]
            /\ working'[b] = working[b] /\ written'[b] = written[b]
      /\ UNCHANGED <<stopped, mutex, begun, chunks, exits>>
  BY <1>1, <1>2 DEF Closing, TypeOK
<1>4. Idle.at = "off" /\ Idle.request = NoRequest
  BY DEF Idle
<1>5. /\ written[a] = <<>> /\ working[a] = {}
      /\ reader[a].request = NoRequest
  BY <1>1, <1>3 DEF OfAgent, Process, Reads
<1>6. ASSUME NEW q \in Requests, NEW b \in Agents
      PROVE  /\ In(q, b)' <=> In(q, b) /\ b # a
             /\ b = a => ~Near(q, b)' /\ ~Asked(q, b)'
             /\ b # a => /\ (Near(q, b)' <=> Near(q, b)) /\ (Asked(q, b)' <=> Asked(q, b))
                         /\ (Served(q, b)' <=> Served(q, b))
                         /\ (Replied(q, b)' <=> Replied(q, b)) /\ (Lost(b)' <=> Lost(b))
  <2>1. CASE b = a
    <3>1. DOMAIN table'[a] = {} /\ DOMAIN written'[a] = {}
      BY <1>3
    <3> QED
      BY <1>3, <2>1, <3>1 DEF In, Outstanding, Near, Asked, Served, Heard
  <2>2. CASE b # a
    <3>1. /\ table'[b] = table[b] /\ written'[b] = written[b] /\ unread'[b] = unread[b]
          /\ working'[b] = working[b] /\ process'[b] = process[b] /\ reader'[b] = reader[b]
      BY <1>3, <2>2
    <3> QED
      BY <2>2, <3>1 DEF In, Outstanding, Near, Asked, Served, Heard, Replied, Lost, Farewell
  <2> QED
    BY <2>1, <2>2
<1>7. \A q \in Requests : ~Served(q, a) /\ ~Replied(q, a)
  <2>1. DOMAIN written[a] = {}
    BY <1>5
  <2> QED
    BY <1>5, <2>1 DEF Served, Replied
<1>8. ASSUME NEW q \in Requests, ~In(q, a)
      PROVE  /\ request'[q] = request[q] /\ answers'[q] = answers[q]
             /\ aggregator'[q] = aggregator[q]
             /\ OfRequest(q)' /\ (Live(q)' => Live(q))
  <2>1. request'[q] = request[q] /\ answers'[q] = answers[q] /\ aggregator'[q] = aggregator[q]
    BY <1>8, UninitializeOf
  <2>2. SenderSame(q)
    <3>1. \A b \in Agents : In(q, b)' <=> In(q, b)
      BY <1>6, <1>8
    <3>2. \A b \in Agents : reader'[b].at = "complete" /\ reader'[b].request = q
                            <=> reader[b].at = "complete" /\ reader[b].request = q
      BY <1>1, <1>3, <1>4, <1>5
    <3> QED
      BY <1>3, <2>1, <3>1, <3>2 DEF SenderSame
  <2>3. MessageSame(q)
    <3>1. \A b \in Agents : reader'[b].request = q =>
              reader[b].request = q /\ reader'[b].at = reader[b].at
      BY <1>1, <1>3, <1>4
    <3>2. \A b \in Agents : In(q, b) => b # a
      BY <1>8
    <3> QED
      BY <1>3, <1>6, <3>1, <3>2 DEF MessageSame
  <2> QED
    BY <1>1, <2>1, <2>2, <2>3, RequestKept DEF AgentsInv
<1>9. ASSUME NEW q \in Requests, In(q, a)
      PROVE  /\ request[q].at # "none" /\ request'[q] \in RequestRecord
             /\ request'[q].id = request[q].id /\ request'[q].type = request[q].type
             /\ answers'[q] \in Seq(Requests \cup {Failed, Default, Closed})
             /\ aggregator'[q] \in [expected: 0..Cardinality(Agents), received: Nat,
                                    error: BOOLEAN, alive: BOOLEAN]
             /\ OfRequest(q)' /\ Live(q)
  <2>1. request[q].at # "none"
    BY <1>1, <1>9, EntryOf DEF OfAgent
  <2>2. request[q] \in RequestRecord
    BY <1>1, <2>1, RecordOf
  <2>3. PICK last, again, answer \in BOOLEAN : Ended(q, a, last, again, answer)
    BY <1>9, UninitializeOf
  <2>4. request'[q] \in RequestRecord
        /\ request'[q].id = request[q].id /\ request'[q].type = request[q].type
    BY <2>2, <2>3, EndedFields
  <2>5. answers'[q] \in Seq(Requests \cup {Failed, Default, Closed})
    BY <1>1, <2>3, EndedAnswers
  <2>6. aggregator'[q] \in [expected: 0..Cardinality(Agents), received: Nat,
                            error: BOOLEAN, alive: BOOLEAN]
    BY <1>1, <2>3, EndedCount
  <2>7. OfRequest(q)'
    BY <1>3, <1>6, <1>7, <2>1, <2>3, EndedKeeps
  <2>8. Live(q)
    BY <1>9 DEF Live
  <2> QED
    BY <2>1, <2>4, <2>5, <2>6, <2>7, <2>8
<1>10. IdsKept
  <2>1. \A q \in Requests : request[q].at # "none" => request'[q].at # "none"
    BY <1>8, <1>9 DEF RequestRecord
  <2> QED
    BY <1>8, <1>9, <2>1 DEF IdsKept
<1>11. TypeOK'
  <2>1. /\ DOMAIN request' = Requests /\ request' = [q \in Requests |-> request'[q]]
        /\ DOMAIN answers' = Requests /\ answers' = [q \in Requests |-> answers'[q]]
        /\ DOMAIN aggregator' = Requests /\ aggregator' = [q \in Requests |-> aggregator'[q]]
    BY DEF Uninitialize
  <2>2. request' \in [Requests -> RequestRecord \cup {[at |-> "none"]}]
    <3>1. \A q \in Requests : request'[q] \in RequestRecord \cup {[at |-> "none"]}
      BY <1>1, <1>8, <1>9 DEF TypeOK
    <3> QED
      BY <2>1, <3>1
  <2>3. answers' \in [Requests -> Seq(Requests \cup {Failed, Default, Closed})]
    <3>1. \A q \in Requests : answers'[q] \in Seq(Requests \cup {Failed, Default, Closed})
      BY <1>1, <1>8, <1>9 DEF TypeOK
    <3> QED
      BY <2>1, <3>1
  <2>4. aggregator' \in [Requests ->
            [expected: 0..Cardinality(Agents), received: Nat, error: BOOLEAN, alive: BOOLEAN]]
    <3>1. \A q \in Requests : aggregator'[q] \in
              [expected: 0..Cardinality(Agents), received: Nat, error: BOOLEAN, alive: BOOLEAN]
      BY <1>1, <1>8, <1>9 DEF TypeOK
    <3> QED
      BY <2>1, <3>1
  <2>5. table' \in [Agents -> Table]
    <3>1. <<>> \in [{} -> Requests]
      OBVIOUS
    <3>2. <<>> \in Table
      BY <3>1 DEF Table
    <3> QED
      BY <1>1, <1>2, <3>2 DEF TypeOK, Closing
  <2>6. reader' \in [Agents ->
            [at: {"off", "reading", "chunk", "complete", "clean", "lost"},
             request: Requests \cup {NoRequest}, of: Requests \cup {NoRequest}]]
    <3>1. Idle \in [at: {"off", "reading", "chunk", "complete", "clean", "lost"},
                    request: Requests \cup {NoRequest}, of: Requests \cup {NoRequest}]
      BY DEF Idle
    <3> QED
      BY <1>1, <1>2, <3>1 DEF TypeOK, Closing
  <2>7. /\ active' \in [Agents -> BOOLEAN]
        /\ process' \in [Agents -> {"none", "running", "leaving"}]
        /\ unread' \in [Agents -> SUBSET [id: Addresses, of: Requests]]
        /\ working' \in [Agents -> SUBSET [id: Addresses, of: Requests]]
    BY <1>1, <1>2 DEF TypeOK, Closing
  <2>8. written' \in [Agents -> Seq(Messages)]
    BY <1>1, <1>2 DEF TypeOK, Closing
  <2> QED
    BY <1>1, <1>3, <2>2, <2>3, <2>4, <2>5, <2>6, <2>7, <2>8 DEF TypeOK
<1>12. \A b \in Agents : OfAgent(b)'
  <2>1. ASSUME NEW b \in Agents \ {a}
        PROVE  OfAgent(b)'
    <3>1. AgentSame(b)
      BY <1>3 DEF AgentSame
    <3> QED
      BY <1>1, <1>10, <3>1, AgentKept
  <2>2. OfAgent(a)'
    <3>1. DOMAIN table'[a] = {} /\ DOMAIN written'[a] = {}
      BY <1>3
    <3>2. Process(a)'
      BY <1>3, <1>4, <3>1 DEF Process
    <3>3. Labelled(a)'
      BY <1>3, <3>1 DEF Labelled
    <3>4. Reads(a)'
      BY <1>3, <1>4 DEF Reads
    <3> QED
      BY <3>2, <3>3, <3>4 DEF OfAgent
  <2> QED
    BY <2>1, <2>2
<1>13. \A q \in Requests : OfRequest(q)' /\ (Live(q)' => Live(q))
  BY <1>8, <1>9
<1>14. Unique'
  <2>1. \A q \in Requests : request'[q].at # "none" =>
            request[q].at # "none" /\ request'[q].id = request[q].id
    BY <1>8, <1>9
  <2> QED
    BY <1>1, <1>13, <2>1, UniqueKept
<1> QED
  BY <1>11, <1>12, <1>13, <1>14 DEF AgentsInv

-----------------------------------------------------------------------------
\* Nothing has been requested yet.
LEMMA InitInv ==
    ASSUME Init
    PROVE  AgentsInv
<1>1. \A r \in Requests : request[r].at = "none" /\ answers[r] = <<>> /\ begun[r] = 0
  BY DEF Init
<1>2. \A a \in Agents :
          /\ mutex[a] = NoRequest /\ table[a] = <<>> /\ unread[a] = {} /\ working[a] = {}
          /\ written[a] = <<>>
          /\ active[a] => process[a] = "running" /\ reader[a] = Reading
          /\ ~active[a] => process[a] = "none" /\ reader[a] = Idle
  BY DEF Init
<1>3. /\ Reading.at = "reading" /\ Reading.request = NoRequest
      /\ Idle.at = "off" /\ Idle.request = NoRequest
  BY DEF Reading, Idle
<1>4. TypeOK
  <2>1. PICK n \in Nat : n = Cardinality(Agents)
    BY AgentsAssumption, FS_CardinalityType
  <2>2. aggregator \in [Requests ->
            [expected: 0..Cardinality(Agents), received: Nat, error: BOOLEAN, alive: BOOLEAN]]
    <3>1. 0 \in 0..Cardinality(Agents)
      BY <2>1
    <3> QED
      BY <3>1 DEF Init, NoAggregator
  <2>3. table \in [Agents -> Table]
    <3>1. <<>> \in [{} -> Requests]
      OBVIOUS
    <3>2. <<>> \in Table
      BY <3>1 DEF Table
    <3> QED
      BY <3>2 DEF Init
  <2>4. reader \in [Agents ->
            [at: {"off", "reading", "chunk", "complete", "clean", "lost"},
             request: Requests \cup {NoRequest}, of: Requests \cup {NoRequest}]]
    BY DEF Init, Reading, Idle
  <2>5. chunks \in 0..MaxChunks /\ exits \in 0..MaxExits
    BY AgentsAssumption DEF Init
  <2>6. active \in [Agents -> BOOLEAN] /\ process \in [Agents -> {"none", "running", "leaving"}]
    BY DEF Init
  <2>7. /\ request \in [Requests -> RequestRecord \cup {[at |-> "none"]}]
        /\ stopped \in BOOLEAN
        /\ mutex \in [Agents -> Requests \cup {NoRequest}]
        /\ begun \in [Requests -> Nat]
    BY DEF Init
  <2>9. answers \in [Requests -> Seq(Requests \cup {Failed, Default, Closed})]
    <3>1. <<>> \in Seq(Requests \cup {Failed, Default, Closed})
      OBVIOUS
    <3> QED
      BY <3>1 DEF Init
  <2>8. /\ unread \in [Agents -> SUBSET [id: Addresses, of: Requests]]
        /\ working \in [Agents -> SUBSET [id: Addresses, of: Requests]]
        /\ written \in [Agents -> Seq(Messages)]
    BY DEF Init
  <2> QED
    BY <2>2, <2>3, <2>4, <2>5, <2>6, <2>7, <2>8, <2>9 DEF TypeOK
<1>5. ASSUME NEW a \in Agents
      PROVE  OfAgent(a)
  <2>1. DOMAIN table[a] = {} /\ DOMAIN written[a] = {}
    BY <1>2
  <2> QED
    BY <1>2, <1>3, <2>1 DEF OfAgent, Process, Labelled, Reads
<1>6. ASSUME NEW r \in Requests
      PROVE  OfRequest(r)
  BY <1>1, <1>2, AgentsAssumption DEF OfRequest, Unborn
<1>7. Unique
  BY <1>1 DEF Unique, Received
<1> QED
  BY <1>4, <1>5, <1>6, <1>7 DEF AgentsInv

\* A step that changes nothing.
LEMMA StutterStep ==
    ASSUME AgentsInv, UNCHANGED vars
    PROVE  AgentsInv'
<1>1. /\ UNCHANGED <<request, answers, aggregator, stopped, active, mutex, table, reader>>
      /\ UNCHANGED <<process, unread, working, written, begun, chunks, exits>>
  BY DEF vars, requestVars, serverVars, agentVars
<1>2. TypeOK'
  BY <1>1 DEF AgentsInv, TypeOK
<1>3. \A q \in Requests, b \in Agents : (mutex'[b] = q <=> mutex[b] = q) /\ (In(q, b)' <=> In(q, b))
  BY <1>1, TablesLeft
<1>4. \A q \in Requests : SenderSame(q) /\ MessageSame(q)
  <2>1. TAKE q \in Requests
  <2>2. SenderSame(q)
    BY <1>1, <1>3 DEF SenderSame
  <2>3. \A b \in Agents : /\ (Asked(q, b)' <=> Asked(q, b)) /\ (Served(q, b)' <=> Served(q, b))
                          /\ (Near(q, b)' <=> Near(q, b)) /\ (Replied(q, b)' <=> Replied(q, b))
                          /\ (Lost(b)' <=> Lost(b))
    BY <1>1, QuietMessages DEF Lost
  <2>4. MessageSame(q)
    BY <1>1, <2>3 DEF MessageSame
  <2> QED
    BY <2>2, <2>4
<1>5. IdsKept
  BY <1>1 DEF IdsKept
<1>6. \A b \in Agents : OfAgent(b)'
  <2>1. \A b \in Agents : AgentSame(b)
    BY <1>1 DEF AgentSame
  <2> QED
    BY <1>5, <2>1, AgentKept DEF AgentsInv
<1>7. \A q \in Requests : OfRequest(q)' /\ (Live(q)' => Live(q))
  BY <1>4, RequestKept DEF AgentsInv
<1>8. Unique'
  BY <1>1, <1>7, UniqueKept DEF AgentsInv
<1> QED
  BY <1>2, <1>6, <1>7, <1>8 DEF AgentsInv

\* The invariant is inductive.
LEMMA StepInv ==
    ASSUME AgentsInv, Fresh, [Next]_vars
    PROVE  AgentsInv'
<1>1. CASE UNCHANGED vars
  BY <1>1, StutterStep
<1>2. ASSUME NEW r \in Requests, Receive(r)
      PROVE  AgentsInv'
  BY <1>2, ReceiveStep
<1>3. ASSUME NEW r \in Requests, SenderStep(r)
      PROVE  AgentsInv'
  <2>1. PICK a \in Agents :
            Refuse(r, a) \/ Enter(r, a) \/ StartFailed(r, a)
                \/ Write(r, a) \/ WriteFailed(r, a) \/ Leave(r, a)
    BY <1>3 DEF SenderStep
  <2>2. CASE Refuse(r, a)
    BY <2>2, RefuseStep
  <2>3. CASE Enter(r, a)
    BY <2>3, EnterStep
  <2>4. CASE StartFailed(r, a)
    BY <2>4, StartFailedStep
  <2>5. CASE Write(r, a)
    BY <2>5, WriteStep
  <2>6. CASE WriteFailed(r, a)
    BY <2>6, WriteFailedStep
  <2>7. CASE Leave(r, a)
    BY <2>7, LeaveStep
  <2> QED
    BY <2>1, <2>2, <2>3, <2>4, <2>5, <2>6, <2>7
<1>4. ASSUME NEW a \in Agents, ReaderStep(a)
      PROVE  AgentsInv'
  <2>1. CASE Read(a)
    BY <2>1, ReadCases, ReadQuietStep, ReadResponseStep
  <2>2. CASE DeliverChunk(a)
    BY <2>2, DeliverChunkStep
  <2>3. CASE SendResponse(a)
    BY <2>3, SendResponseStep
  <2>4. CASE ConnectionLost(a)
    BY <2>4, ConnectionLostStep
  <2>5. CASE Uninitialize(a)
    BY <2>5, UninitializeStep
  <2> QED
    BY <1>4, <2>1, <2>2, <2>3, <2>4, <2>5 DEF ReaderStep
<1>5. ASSUME NEW a \in Agents,
             CleanUp(a) \/ AgentReads(a) \/ WriteChunk(a) \/ WriteResponse(a)
                 \/ Terminate(a) \/ Exit(a)
      PROVE  AgentsInv'
  <2>1. CASE CleanUp(a)
    BY <2>1, CleanUpStep
  <2>2. CASE AgentReads(a)
    BY <2>2, AgentReadsStep
  <2>3. CASE WriteChunk(a)
    BY <2>3, WriteChunkStep
  <2>4. CASE WriteResponse(a)
    BY <2>4, WriteResponseStep
  <2>5. CASE Terminate(a)
    BY <2>5, TerminateStep
  <2>6. CASE Exit(a)
    BY <2>6, ExitStep
  <2> QED
    BY <1>5, <2>1, <2>2, <2>3, <2>4, <2>5, <2>6
<1> QED
  BY <1>1, <1>2, <1>3, <1>4, <1>5 DEF Next

-----------------------------------------------------------------------------
\* The answers of a request: a response is its own, and only an operation is
\* cleaned up.
OwnAnswers(r) ==
    \A k \in DOMAIN answers[r] :
        /\ answers[r][k] \in Requests => answers[r][k] = r
        /\ answers[r][k] = Closed => request[r].type = "operation"

Own == \A r \in Requests : OwnAnswers(r)

\* It stays so for a request that is not answered.
LEMMA OwnSame ==
    ASSUME NEW r \in Requests, OwnAnswers(r), answers'[r] = answers[r],
           answers[r] = <<>> \/ request'[r].type = request[r].type
    PROVE  OwnAnswers(r)'
BY DEF OwnAnswers

\* It stays so when the answer is one that may be given.
LEMMA OwnAdded ==
    ASSUME TypeOK, NEW r \in Requests, OwnAnswers(r),
           NEW v \in {Failed, Default, Closed, r},
           v = Closed => request[r].type = "operation",
           answers'[r] = Append(answers[r], v), request'[r].type = request[r].type
    PROVE  OwnAnswers(r)'
<1>1. PICK s \in Seq(Requests \cup {Failed, Default, Closed}) : s = answers[r]
  BY DEF TypeOK
<1>2. v \in Requests \cup {Failed, Default, Closed}
  OBVIOUS
<1>3. /\ Len(s) \in Nat /\ DOMAIN s = 1..Len(s) /\ DOMAIN Append(s, v) = 1..(Len(s) + 1)
      /\ \A k \in DOMAIN s : Append(s, v)[k] = s[k]
      /\ Append(s, v)[Len(s) + 1] = v
  BY <1>1, <1>2, Appended
<1>4. ASSUME NEW k \in DOMAIN answers'[r]
      PROVE  /\ answers'[r][k] \in Requests => answers'[r][k] = r
             /\ answers'[r][k] = Closed => request'[r].type = "operation"
  <2>1. CASE k \in DOMAIN s
    BY <1>1, <1>3, <2>1 DEF OwnAnswers
  <2>2. CASE k = Len(s) + 1
    <3>1. answers'[r][k] = v
      BY <1>1, <1>3, <2>2
    <3>2. v \in Requests => v = r
      BY AnswersAssumption
    <3> QED
      BY <3>1, <3>2
  <2> QED
    BY <1>1, <1>3, <1>4, <2>1, <2>2
<1> QED
  BY <1>4 DEF OwnAnswers

\* The sender is done with an agent.
LEMMA OwnSent ==
    ASSUME TypeOK, Own, NEW r \in Requests, request[r] \in RequestRecord, NEW a \in Agents,
           NEW sync \in BOOLEAN, NEW result \in {Failed, Default}, Sent(r, a, sync, result)
    PROVE  Own'
<1>1. \A q \in Requests \ {r} : request'[q] = request[q] /\ answers'[q] = answers[q]
  BY DEF Sent, Answer, TypeOK
<1>2. request'[r].type = request[r].type
  BY DEF Sent, TypeOK, RequestRecord
<1>3. answers'[r] = answers[r] \/ answers'[r] = Append(answers[r], result)
  BY DEF Sent, Answer, TypeOK
<1>4. result \in {Failed, Default, Closed, r} /\ result # Closed
  BY DEF Failed, Default, Closed
<1>5. OwnAnswers(r)'
  <2>1. CASE answers'[r] = answers[r]
    BY <1>2, <2>1, OwnSame DEF Own
  <2>2. CASE answers'[r] = Append(answers[r], result)
    BY <1>2, <1>4, <2>2, OwnAdded DEF Own
  <2> QED
    BY <1>3, <2>1, <2>2
<1>6. \A q \in Requests \ {r} : OwnAnswers(q)'
  BY <1>1, OwnSame DEF Own
<1> QED
  BY <1>5, <1>6 DEF Own

\* The sender goes on with a request.
LEMMA OwnMoved ==
    ASSUME TypeOK, Own, NEW r \in Requests, request[r] \in RequestRecord, NEW at,
           request' = [request EXCEPT ![r].at = at], UNCHANGED answers
    PROVE  Own'
<1>1. \A q \in Requests : request'[q].type = request[q].type
  BY DEF TypeOK, RequestRecord
<1> QED
  BY <1>1, OwnSame DEF Own

\* Responses stay where they belong in every step.
LEMMA OwnStep ==
    ASSUME AgentsInv, Fresh, Own, [Next]_vars
    PROVE  Own'
<1>1. TypeOK /\ \A a \in Agents : OfAgent(a)
  BY DEF AgentsInv
<1>2. ASSUME UNCHANGED <<request, answers>>
      PROVE  Own'
  BY <1>2, OwnSame DEF Own
<1>3. TRUE \in BOOLEAN /\ FALSE \in BOOLEAN /\ Failed \in {Failed, Default}
      /\ Default \in {Failed, Default}
  OBVIOUS
<1>4. ASSUME NEW r \in Requests, Receive(r)
      PROVE  Own'
  <2>1. PICK t \in Types, x \in Addresses, S \in SUBSET Agents : Made(r, t, x, S)
    BY <1>4, ReceiveMakes
  <2>2. \A q \in Requests \ {r} : request'[q] = request[q] /\ answers'[q] = answers[q]
    BY <1>1, <1>4 DEF Receive, Answer, TypeOK
  <2>3. OwnAnswers(r)'
    <3>1. CASE S = {}
      <4>1. answers'[r] = <<Default>>
        BY <2>1, <3>1 DEF Made
      <4>2. Default \notin Requests /\ Default # Closed
        BY AnswersAssumption DEF Default, Closed
      <4>3. DOMAIN answers'[r] = {1} /\ answers'[r][1] = Default
        BY <4>1
      <4> QED
        BY <4>2, <4>3 DEF OwnAnswers
    <3>2. CASE S # {}
      <4>1. answers'[r] = <<>>
        BY <2>1, <3>2 DEF Made
      <4>2. DOMAIN answers'[r] = {}
        BY <4>1
      <4> QED
        BY <4>2 DEF OwnAnswers
    <3> QED
      BY <3>1, <3>2
  <2>4. \A q \in Requests \ {r} : OwnAnswers(q)'
    BY <2>2, OwnSame DEF Own
  <2> QED
    BY <2>3, <2>4 DEF Own
<1>5. ASSUME NEW r \in Requests, SenderStep(r)
      PROVE  Own'
  <2>1. PICK a \in Agents :
            Refuse(r, a) \/ Enter(r, a) \/ StartFailed(r, a)
                \/ Write(r, a) \/ WriteFailed(r, a) \/ Leave(r, a)
    BY <1>5 DEF SenderStep
  <2>2. request[r] \in RequestRecord
    <3>1. request[r].at # "none"
      BY <2>1 DEF Refuse, Enter, StartFailed, Write, WriteFailed, Leave
    <3> QED
      BY <1>1, <3>1, RecordOf
  <2>3. CASE Refuse(r, a)
    BY <1>1, <1>3, <2>2, <2>3, OwnSent DEF Refuse
  <2>4. CASE StartFailed(r, a)
    BY <1>1, <1>3, <2>2, <2>4, OwnSent DEF StartFailed
  <2>5. CASE Leave(r, a)
    BY <1>1, <1>3, <2>2, <2>5, OwnSent DEF Leave
  <2>6. CASE WriteFailed(r, a)
    <3>1. \/ Sent(r, a, TRUE, Default)
          \/ request' = [request EXCEPT ![r].at = "sending"] /\ UNCHANGED answers
      BY <2>6 DEF WriteFailed
    <3> QED
      BY <1>1, <1>3, <2>2, <3>1, OwnSent, OwnMoved
  <2>7. CASE Enter(r, a) \/ Write(r, a)
    BY <1>1, <2>2, <2>7, OwnMoved DEF Enter, Write
  <2> QED
    BY <2>1, <2>3, <2>4, <2>5, <2>6, <2>7
<1>6. ASSUME NEW a \in Agents, Uninitialize(a)
      PROVE  Own'
  <2>1. ASSUME NEW q \in Requests
        PROVE  OwnAnswers(q)'
    <3>1. CASE ~In(q, a)
      BY <1>6, <3>1, UninitializeOf, OwnSame DEF Own
    <3>2. CASE In(q, a)
      <4>1. request[q] \in RequestRecord
        BY <1>1, <3>2, EntryOf, RecordOf DEF OfAgent
      <4>2. PICK last, again, answer \in BOOLEAN : Ended(q, a, last, again, answer)
        BY <1>6, <3>2, UninitializeOf
      <4>3. request'[q].type = request[q].type
        BY <4>1, <4>2, EndedFields
      <4>4. CASE answer
        <5>1. PICK v \in {Failed, Default} : answers'[q] = Append(answers[q], v)
          BY <4>2, <4>4 DEF Ended
        <5>2. v \in {Failed, Default, Closed, q} /\ v # Closed
          BY DEF Failed, Default, Closed
        <5> QED
          BY <1>1, <4>3, <5>1, <5>2, OwnAdded DEF Own
      <4>5. CASE ~answer
        <5>1. answers'[q] = answers[q]
          BY <4>2, <4>5 DEF Ended
        <5> QED
          BY <4>3, <5>1, OwnSame DEF Own
      <4> QED
        BY <4>4, <4>5
    <3> QED
      BY <3>1, <3>2
  <2> QED
    BY <2>1 DEF Own
<1>7. ASSUME NEW r \in Requests, NEW v \in {Failed, Default, Closed, r},
             v = Closed => request[r].type = "operation",
             answers' = [answers EXCEPT ![r] = Append(@, v)], UNCHANGED request
      PROVE  Own'
  <2>1. answers'[r] = Append(answers[r], v) /\ \A q \in Requests \ {r} : answers'[q] = answers[q]
    BY <1>1, <1>7 DEF TypeOK
  <2>2. OwnAnswers(r)'
    BY <1>1, <1>7, <2>1, OwnAdded DEF Own
  <2>3. \A q \in Requests \ {r} : OwnAnswers(q)'
    BY <1>7, <2>1, OwnSame DEF Own
  <2> QED
    BY <2>2, <2>3 DEF Own
<1>8. ASSUME NEW a \in Agents, SendResponse(a)
      PROVE  Own'
  <2>1. PICK r \in Requests : r = reader[a].request /\ r = reader[a].of
    BY <1>1, <1>8 DEF SendResponse, OfAgent, Reads
  <2>2. answers' = [answers EXCEPT ![r] = Append(@, r)] /\ UNCHANGED request
    BY <1>8, <2>1 DEF SendResponse, Answer
  <2>3. r # Closed
    BY AnswersAssumption
  <2> QED
    BY <1>7, <2>2, <2>3
<1>9. ASSUME NEW a \in Agents, CleanUp(a)
      PROVE  Own'
  <2>1. PICK x \in DOMAIN table[a] :
            request[table[a][x]].type = "operation" /\ Answer(table[a][x], Closed)
    BY <1>9 DEF CleanUp
  <2>2. PICK r \in Requests : r = table[a][x]
    BY <1>1 DEF TypeOK, Table
  <2>3. /\ answers' = [answers EXCEPT ![r] = Append(@, Closed)] /\ UNCHANGED request
        /\ request[r].type = "operation"
    BY <1>9, <2>1, <2>2 DEF CleanUp, Answer
  <2> QED
    BY <1>7, <2>3
<1>10. ASSUME NEW a \in Agents,
              \/ Read(a) \/ DeliverChunk(a) \/ ConnectionLost(a) \/ AgentReads(a)
              \/ WriteChunk(a) \/ WriteResponse(a) \/ Terminate(a) \/ Exit(a)
       PROVE  Own'
  <2>1. UNCHANGED requestVars
    BY <1>10 DEF Read, DeliverChunk, ConnectionLost, AgentReads, WriteChunk, WriteResponse,
                 Terminate, Exit
  <2> QED
    BY <1>2, <2>1 DEF requestVars
<1>11. CASE UNCHANGED vars
  BY <1>2, <1>11 DEF vars, requestVars
<1> QED
  BY <1>4, <1>5, <1>6, <1>8, <1>9, <1>10, <1>11 DEF Next, ReaderStep

-----------------------------------------------------------------------------
\* A request to all agents, of which there is one: whoever is to send it, to
\* respond or to answer is that agent, and it is not answered while its sender
\* writes it.  With a second agent this is not so.
Places(r) == request[r].agents \cup {a \in Agents : In(r, a)} \cup Holding(r)

ToOne(r) == request[r].type \in ToAll /\ aggregator[r].expected = 1

SoloOf(r) ==
    request[r].at # "none" /\ ToOne(r) =>
        /\ \A a, b \in Places(r) : a = b
        /\ Answered(r) /\ ~Miscounted(r) => request[r].at \notin Busy

Solo == \A r \in Requests : SoloOf(r)

\* It stays so when nobody joins, and a sender that begins to write does not
\* find the request answered, nor an answer a sender that writes.
LEMMA SoloKept ==
    ASSUME NEW q \in Requests, SoloOf(q), request[q].at # "none",
           request'[q].type = request[q].type,
           aggregator'[q].expected = aggregator[q].expected,
           stopped => stopped', Places(q)' \subseteq Places(q),
           \/ request'[q].at \notin Busy
           \/ Answered(q)' => Answered(q) /\ request[q].at \in Busy
           \/ ToOne(q) /\ ~Miscounted(q) => ~Answered(q)' \/ request'[q].at \notin Busy
    PROVE  SoloOf(q)'
<1>1. ToOne(q)' => ToOne(q)
  BY DEF ToOne
<1>2. ~Miscounted(q)' => ~Miscounted(q)
  BY DEF Miscounted
<1> QED
  BY <1>1, <1>2 DEF SoloOf

\* A request that a step leaves alone, but for an entry that it loses.
SoloSame(q) ==
    /\ request'[q] = request[q] /\ answers'[q] = answers[q]
    /\ aggregator'[q].expected = aggregator[q].expected
    /\ \A a \in Agents : /\ In(q, a)' => In(q, a)
                         /\ a \in Holding(q)' => a \in Places(q)

LEMMA SoloLeft ==
    ASSUME NEW q \in Requests, SoloOf(q), SoloSame(q), stopped => stopped'
    PROVE  SoloOf(q)'
<1>1. CASE request[q].at = "none"
  BY <1>1 DEF SoloSame, SoloOf
<1>2. CASE request[q].at # "none"
  <2>1. Places(q)' \subseteq Places(q)
    BY DEF SoloSame, Places, Holding
  <2>2. Answered(q)' = Answered(q)
    BY DEF SoloSame, Answered
  <2>3. Answered(q) /\ ToOne(q) /\ ~Miscounted(q) => request[q].at \notin Busy
    BY <1>2 DEF SoloOf
  <2> QED
    BY <1>2, <2>1, <2>2, <2>3, SoloKept DEF SoloSame
<1> QED
  BY <1>1, <1>2

\* Counting a response does not change how many are expected.
LEMMA ExpectedKept ==
    ASSUME TypeOK, NEW r \in Requests, NEW error \in BOOLEAN, NEW last \in BOOLEAN,
           aggregator' = [aggregator EXCEPT ![r] = CountedResponse(r, error, last)]
    PROVE  \A q \in Requests : aggregator'[q].expected = aggregator[q].expected
<1>1. PICK g \in [expected: 0..Cardinality(Agents), received: Nat, error: BOOLEAN,
                  alive: BOOLEAN] : g = aggregator[r]
  BY DEF TypeOK
<1>2. CountedResponse(r, error, last) =
          [g EXCEPT !.received = IF @ > g.expected THEN @ ELSE @ + 1,
                    !.error = @ \/ error, !.alive = @ /\ ~last]
  BY <1>1 DEF CountedResponse
<1>3. CountedResponse(r, error, last).expected = g.expected
  BY <1>1, <1>2
<1> QED
  BY <1>1, <1>3 DEF TypeOK

\* The sender is done with an agent.
LEMMA SoloSent ==
    ASSUME TypeOK, Solo, NEW r \in Requests, request[r].at # "none", NEW a \in Agents,
           NEW sync \in BOOLEAN, NEW result \in {Failed, Default}, Sent(r, a, sync, result),
           \A q \in Requests : aggregator'[q].expected = aggregator[q].expected,
           \A q \in Requests, b \in Agents : In(q, b)' => In(q, b),
           UNCHANGED <<stopped, reader>>
    PROVE  Solo'
<1>1. /\ \A q \in Requests \ {r} : request'[q] = request[q] /\ answers'[q] = answers[q]
      /\ request'[r].agents = request[r].agents \ {a}
      /\ request'[r].type = request[r].type
      /\ request'[r].at \in {"sending", "dropped", "done"}
  BY SentOf
<1>2. \A q \in Requests : Holding(q)' = Holding(q)
  BY DEF Holding
<1>3. \A q \in Requests \ {r} : SoloOf(q)'
  <2>1. TAKE q \in Requests \ {r}
  <2>2. SoloSame(q)
    BY <1>1, <1>2 DEF SoloSame, Places
  <2> QED
    BY <2>2, SoloLeft DEF Solo
<1>4. SoloOf(r)'
  <2>1. Places(r)' \subseteq Places(r)
    BY <1>1, <1>2 DEF Places
  <2>2. request'[r].at \notin Busy
    BY <1>1 DEF Busy
  <2> QED
    BY <1>1, <2>1, <2>2, SoloKept DEF Solo
<1> QED
  BY <1>3, <1>4 DEF Solo

\* The sender goes on with a request.
LEMMA SoloMoved ==
    ASSUME TypeOK, Solo, NEW r \in Requests, request[r] \in RequestRecord,
           NEW at \in {"sending", "entered", "written"},
           request' = [request EXCEPT ![r].at = at], UNCHANGED <<answers, stopped>>,
           \A q \in Requests : aggregator'[q].expected = aggregator[q].expected,
           \A q \in Requests, b \in Agents :
               In(q, b)' => In(q, b) \/ (q = r /\ b \in request[r].agents),
           \A q \in Requests : Holding(q)' = Holding(q),
           at \in Busy /\ ToOne(r) /\ ~Miscounted(r) => ~Answered(r)
    PROVE  Solo'
<1>1. /\ \A q \in Requests \ {r} : request'[q] = request[q]
      /\ request'[r].agents = request[r].agents
      /\ request'[r].type = request[r].type /\ request'[r].at = at
  BY DEF TypeOK, RequestRecord
<1>2. request[r].at # "none"
  BY DEF RequestRecord
<1>3. \A q \in Requests \ {r} : SoloOf(q)'
  <2>1. TAKE q \in Requests \ {r}
  <2>2. SoloSame(q)
    BY <1>1 DEF SoloSame, Places
  <2> QED
    BY <2>2, SoloLeft DEF Solo
<1>4. SoloOf(r)'
  <2>1. Places(r)' \subseteq Places(r)
    BY <1>1 DEF Places
  <2>2. Answered(r)' = Answered(r)
    BY DEF Answered
  <2>3. \/ request'[r].at \notin Busy
        \/ ToOne(r) /\ ~Miscounted(r) => ~Answered(r)'
    BY <1>1, <2>2
  <2> QED
    BY <1>1, <1>2, <2>1, <2>3, SoloKept DEF Solo
<1> QED
  BY <1>3, <1>4 DEF Solo

\* A broadcast that somebody has still to complete is not answered.
LEMMA NotAnsweredYet ==
    ASSUME AgentsInv, Own, NEW r \in Requests, request[r].at # "none",
           request[r].type \in ToAll, ~Miscounted(r), NEW a \in Pending(r)
    PROVE  ~Answered(r)
<1>1. /\ request[r].type # "operation" /\ request[r].type \notin ToModule
      /\ request[r].type \in Aggregated
  BY DEF ToAll, ToModule, Aggregated
<1>2. ~Exempt(r)
  BY <1>1 DEF Exempt, CleanedUp, Own, OwnAnswers
<1>3. HasAggregator(r) /\ Counts(r)
  BY <1>1, <1>2, Parts DEF Locked, HasAggregator, Aggregates
<1>4. Cardinality(Pending(r)) # 0
  BY PendingCount
<1> QED
  BY <1>1, <1>3, <1>4 DEF Counts

\* A request object is received.
LEMMA SoloReceive ==
    ASSUME AgentsInv, Fresh, Solo, NEW r \in Requests, Receive(r)
    PROVE  Solo'
<1>1. TypeOK /\ request[r].at = "none" /\ UNCHANGED <<mutex, table, reader>>
  BY DEF AgentsInv, Receive
<1>2. PICK t \in Types, x \in Addresses, S \in SUBSET Agents : Made(r, t, x, S)
  BY ReceiveMakes
<1>3. /\ \A q \in Requests \ {r} :
            /\ request'[q] = request[q] /\ answers'[q] = answers[q]
            /\ aggregator'[q] = aggregator[q]
      /\ stopped => stopped'
  BY <1>1 DEF Receive, Answer, TypeOK
<1>4. \A q \in Requests : Holding(q)' = Holding(q) /\ \A b \in Agents : In(q, b)' <=> In(q, b)
  BY <1>1 DEF Holding, In, Outstanding
<1>5. \A q \in Requests \ {r} : SoloOf(q)'
  <2>1. TAKE q \in Requests \ {r}
  <2>2. SoloSame(q)
    BY <1>3, <1>4 DEF SoloSame, Places
  <2> QED
    BY <1>3, <2>2, SoloLeft DEF Solo
<1>6. SoloOf(r)'
  <2>1. SUFFICES ASSUME ToOne(r)'
                 PROVE  /\ \A a, b \in Places(r)' : a = b
                        /\ request'[r].at \notin Busy
    BY DEF SoloOf
  <2>2. t \in ToAll /\ t \notin Single /\ request'[r].agents = S
    BY <1>2, <2>1 DEF Made, ToOne, ToAll, Single
  <2>3. S # {} => Cardinality(S) = 1
    BY <1>2, <2>1, <2>2 DEF Made, ToOne
  <2>4. ASSUME NEW a \in S, NEW b \in S
        PROVE  a = b
    <3>1. IsFiniteSet(S) /\ Cardinality(S) = 1
      BY <2>3, AgentsAssumption, FS_Subset
    <3>2. IsFiniteSet(S \ {a}) /\ Cardinality(S \ {a}) = Cardinality(S) - 1
      BY <3>1, FS_RemoveElement
    <3>3. S \ {a} = {}
      BY <3>1, <3>2, FS_EmptySet
    <3> QED
      BY <3>3
  <2>5. Places(r)' = S
    BY <1>1, <1>4, <2>2, Nowhere DEF Places, Holding
  <2>6. request'[r].at \notin Busy
    BY <1>2 DEF Made, Busy
  <2> QED
    BY <2>4, <2>5, <2>6
<1> QED
  BY <1>5, <1>6 DEF Solo

\* The steps of a sender.
LEMMA SoloSender ==
    ASSUME AgentsInv, Own, Solo, NEW r \in Requests, SenderStep(r)
    PROVE  Solo'
<1>1. PICK a \in Agents :
          Refuse(r, a) \/ Enter(r, a) \/ StartFailed(r, a)
              \/ Write(r, a) \/ WriteFailed(r, a) \/ Leave(r, a)
  BY DEF SenderStep
<1>2. TypeOK /\ request[r].at # "none" /\ request[r] \in RequestRecord
  <2>1. request[r].at # "none"
    BY <1>1 DEF Refuse, Enter, StartFailed, Write, WriteFailed, Leave
  <2> QED
    BY <2>1, Parts
<1>3. TRUE \in BOOLEAN /\ FALSE \in BOOLEAN /\ Failed \in {Failed, Default}
      /\ Default \in {Failed, Default}
  OBVIOUS
<1>4. ASSUME UNCHANGED aggregator \/ Accept(r)
             \/ \E error, last \in BOOLEAN :
                   aggregator' = [aggregator EXCEPT ![r] = CountedResponse(r, error, last)]
      PROVE  \A q \in Requests : aggregator'[q].expected = aggregator[q].expected
  BY <1>2, <1>3, <1>4, ExpectedKept DEF Accept
<1>5. ASSUME UNCHANGED table
      PROVE  \A q \in Requests, b \in Agents : In(q, b)' <=> In(q, b)
  BY <1>5 DEF In, Outstanding
<1>6. CASE Refuse(r, a)
  <2>1. /\ Sent(r, a, TRUE, Default) /\ UNCHANGED <<stopped, table, reader>>
        /\ \/ UNCHANGED aggregator
           \/ \E error, last \in BOOLEAN :
                 aggregator' = [aggregator EXCEPT ![r] = CountedResponse(r, error, last)]
    BY <1>3, <1>6 DEF Refuse
  <2> QED
    BY <1>2, <1>3, <1>4, <1>5, <2>1, SoloSent
<1>7. CASE StartFailed(r, a)
  <2>1. Sent(r, a, TRUE, Failed) /\ Accept(r) /\ UNCHANGED <<stopped, table, reader>>
    BY <1>7 DEF StartFailed
  <2> QED
    BY <1>2, <1>3, <1>4, <1>5, <2>1, SoloSent
<1>8. CASE Leave(r, a)
  <2>1. Sent(r, a, FALSE, Default) /\ UNCHANGED <<stopped, table, reader, aggregator>>
    BY <1>8 DEF Leave
  <2> QED
    BY <1>2, <1>3, <1>4, <1>5, <2>1, SoloSent
<1>9. CASE WriteFailed(r, a)
  <2>1. /\ table' = [table EXCEPT ![a] = WithoutEntry(a, request[r].id)]
        /\ \/ Sent(r, a, TRUE, Default)
           \/ request' = [request EXCEPT ![r].at = "sending"] /\ UNCHANGED answers
        /\ UNCHANGED <<aggregator, stopped, reader>>
    BY <1>9 DEF WriteFailed
  <2>2. request[r].id \in Addresses /\ Labelled(a)
    BY <1>2 DEF RequestRecord, AgentsInv, OfAgent
  <2>3. \A q \in Requests, b \in Agents : In(q, b)' => In(q, b)
    BY <1>2, <2>1, <2>2, EntryRemoved
  <2>4. \A q \in Requests : Holding(q)' = Holding(q)
    BY <2>1 DEF Holding
  <2>5. "sending" \notin Busy
    BY DEF Busy
  <2> QED
    BY <1>2, <1>3, <1>4, <2>1, <2>3, <2>4, <2>5, SoloSent, SoloMoved
<1>10. CASE Enter(r, a)
  <2>1. /\ request[r].at = "sending" /\ a \in request[r].agents /\ mutex[a] = NoRequest
        /\ StartedIfNeeded(a) /\ Accept(r)
        /\ request' = [request EXCEPT ![r].at = "entered"]
        /\ table' = [table EXCEPT ![a] = AddEntry(r, a)]
        /\ UNCHANGED <<answers, stopped, unread, working, written>>
    BY <1>10 DEF Enter, StartedIfNeeded
  <2>2. request[r].id \notin DOMAIN table[a]
    BY <2>1, NoSuchEntry
  <2>3. \A q \in Requests, b \in Agents : In(q, b)' <=> In(q, b) \/ (q = r /\ b = a)
    BY <1>2, <2>1, <2>2, EntryAdded
  <2>4. \A q \in Requests : Holding(q)' = Holding(q)
    <3>1. TAKE q \in Requests
    <3>2. \A b \in Agents :
              reader'[b].at = "complete" /\ reader'[b].request = q
                  <=> reader[b].at = "complete" /\ reader[b].request = q
      BY <2>1, StartLeaves
    <3> QED
      BY <3>2 DEF Holding
  <2>5. a \in Pending(r)
    BY <2>1, AgentsAssumption DEF Pending
  <2>6. ToOne(r) /\ ~Miscounted(r) => ~Answered(r)
    BY <1>2, <2>5, NotAnsweredYet DEF ToOne
  <2> QED
    BY <1>2, <1>4, <2>1, <2>3, <2>4, <2>6, SoloMoved
<1>11. CASE Write(r, a)
  <2>1. /\ request[r].at = "entered"
        /\ request' = [request EXCEPT ![r].at = "written"]
        /\ UNCHANGED <<answers, stopped, aggregator, table, reader>>
    BY <1>11 DEF Write, serverVars
  <2>2. \A q \in Requests : Holding(q)' = Holding(q)
    BY <2>1 DEF Holding
  <2>3. ToOne(r) /\ ~Miscounted(r) => ~Answered(r)
    BY <1>2, <2>1 DEF Solo, SoloOf, Busy
  <2> QED
    BY <1>2, <1>4, <1>5, <2>1, <2>2, <2>3, SoloMoved
<1> QED
  BY <1>1, <1>6, <1>7, <1>8, <1>9, <1>10, <1>11

\* The reader answers a request when nobody writes it to the reader's agent.
LEMMA SoloResponse ==
    ASSUME AgentsInv, Solo, NEW a \in Agents, SendResponse(a)
    PROVE  Solo'
<1>1. TypeOK /\ OfAgent(a) /\ NoRequest \notin Requests
  BY AgentsAssumption DEF AgentsInv
<1>2. PICK r \in Requests : r = reader[a].request /\ request[r].at # "none"
  BY <1>1 DEF SendResponse, OfAgent, Reads
<1>3. /\ reader[a].at = "complete" /\ mutex[a] = NoRequest
      /\ \A q \in Requests \ {r} : answers'[q] = answers[q]
      /\ reader' = [reader EXCEPT ![a] = Reading]
      /\ UNCHANGED <<request, aggregator, stopped, mutex, table>>
  BY <1>1, <1>2 DEF SendResponse, SenderGone, Answer, TypeOK
<1>4. \A q \in Requests : /\ Holding(q)' \subseteq Holding(q)
                          /\ \A b \in Agents : In(q, b)' <=> In(q, b)
  BY <1>1, <1>3 DEF Holding, In, Outstanding, Reading, Idle, TypeOK
<1>5. \A q \in Requests \ {r} : SoloOf(q)'
  <2>1. TAKE q \in Requests \ {r}
  <2>2. SoloSame(q)
    BY <1>3, <1>4 DEF SoloSame, Places
  <2> QED
    BY <1>3, <2>2, SoloLeft DEF Solo
<1>6. SoloOf(r)'
  <2>1. a \in Places(r)
    BY <1>2, <1>3 DEF Places, Holding
  <2>2. ToOne(r) => request[r].at \notin Busy
    <3>1. SUFFICES ASSUME ToOne(r), request[r].at \in Busy
                   PROVE  FALSE
      OBVIOUS
    <3>2. PICK b \in Agents : mutex[b] = r /\ b \in request[r].agents
      BY <1>2, <3>1, Parts DEF Locked
    <3>3. a = b
      BY <1>2, <2>1, <3>1, <3>2 DEF Solo, SoloOf, Places
    <3> QED
      BY <1>1, <1>3, <3>2, <3>3
  <2>3. Places(r)' \subseteq Places(r)
    BY <1>3, <1>4 DEF Places
  <2> QED
    BY <1>2, <1>3, <2>2, <2>3, SoloKept DEF Solo
<1> QED
  BY <1>5, <1>6 DEF Solo

\* A message is read: who takes the response had the entry.
LEMMA SoloRead ==
    ASSUME AgentsInv, Solo, NEW a \in Agents, Read(a)
    PROVE  Solo'
<1>1. TypeOK /\ OfAgent(a) /\ Labelled(a)
  BY DEF AgentsInv, OfAgent
<1>2. /\ written[a] # <<>> /\ UNCHANGED <<request, answers, stopped>>
      /\ Head(written[a]) \in Messages
  BY <1>1, ReadMessage DEF requestVars
<1>3. PICK id : id = Head(written[a]).id
  OBVIOUS
<1>4. \A q \in Requests, b \in Agents : In(q, b)' => In(q, b)
  <2>1. CASE UNCHANGED table
    BY <2>1 DEF In, Outstanding
  <2>2. CASE id \in DOMAIN table[a] /\ table' = [table EXCEPT ![a] = WithoutEntry(a, id)]
    <3>1. id \in Addresses
      BY <1>1, <2>2 DEF TypeOK, Table
    <3> QED
      BY <1>1, <2>2, <3>1, EntryRemoved
  <2> QED
    BY <1>3, <2>1, <2>2, ReadCases DEF ReadBye, ReadUnknown, ReadChunk, ReadResponse
<1>5. \A q \in Requests : aggregator'[q].expected = aggregator[q].expected
  <2>1. CASE UNCHANGED aggregator
    BY <2>1
  <2>2. CASE ReadResponse(a) /\ ~UNCHANGED aggregator
    <3>1. PICK r \in Requests : r = table[a][id] /\ id \in DOMAIN table[a]
      BY <1>1, <1>3, <2>2 DEF ReadResponse, TypeOK, Table
    <3>2. PICK last \in IsComplete(r), error \in ProviderErrors(r) :
              aggregator' = [aggregator EXCEPT ![r] = CountedResponse(r, error, last)]
      BY <1>3, <2>2, <3>1 DEF ReadResponse
    <3>3. last \in BOOLEAN /\ error \in BOOLEAN
      BY <3>2 DEF IsComplete, ProviderErrors
    <3> QED
      BY <1>1, <3>2, <3>3, ExpectedKept
  <2> QED
    BY <2>1, <2>2, ReadCases DEF ReadBye, ReadUnknown, ReadChunk
<1>6. ASSUME NEW q \in Requests, NEW b \in Holding(q)'
      PROVE  b \in Places(q)
  <2>1. b \in Agents /\ reader'[b].at = "complete" /\ reader'[b].request = q
    BY <1>6 DEF Holding
  <2>2. CASE reader'[b] = reader[b]
    BY <2>1, <2>2 DEF Places, Holding
  <2>3. CASE reader'[b] # reader[b]
    <3>1. b = a /\ id \in DOMAIN table[a] /\ q = table[a][id]
      <4>1. CASE ReadBye(a)
        BY <1>1, <2>1, <2>3, <4>1 DEF ReadBye, TypeOK
      <4>2. CASE ReadUnknown(a)
        BY <2>3, <4>2 DEF ReadUnknown
      <4>3. CASE \/ ReadChunk(a) /\ ReaderTakes(a, "chunk")
                 \/ ReadResponse(a) /\ ReaderTakes(a, "complete")
        <5>1. reader \in [Agents ->
                  [at: {"off", "reading", "chunk", "complete", "clean", "lost"},
                   request: Requests \cup {NoRequest}, of: Requests \cup {NoRequest}]]
          BY <1>1 DEF TypeOK
        <5>2. b = a
          BY <2>1, <2>3, <4>3, <5>1 DEF ReaderTakes
        <5>3. Head(written[a]).id \in DOMAIN table[a]
          BY <4>3 DEF ReadChunk, ReadResponse
        <5>4. PICK at : reader' = [reader EXCEPT ![a] =
                  [at |-> at, request |-> table[a][id], of |-> Head(written[a]).of]]
          BY <1>3, <4>3 DEF ReaderTakes
        <5>5. reader'[a].request = table[a][id]
          BY <5>1, <5>4
        <5> QED
          BY <1>3, <2>1, <5>2, <5>3, <5>5
      <4> QED
        BY <2>3, <4>1, <4>2, <4>3, ReadCases DEF ReadChunk, ReadResponse
    <3>2. In(q, a)
      BY <3>1 DEF In, Outstanding
    <3> QED
      BY <2>1, <3>1, <3>2 DEF Places
  <2> QED
    BY <2>2, <2>3
<1>7. \A q \in Requests : SoloSame(q)
  BY <1>2, <1>4, <1>5, <1>6 DEF SoloSame
<1> QED
  BY <1>2, <1>7, SoloLeft DEF Solo

\* An agent is gone: what is left in its table is answered or sent again.
LEMMA SoloEnded ==
    ASSUME AgentsInv, Solo, NEW a \in Agents, Uninitialize(a)
    PROVE  Solo'
<1>1. TypeOK /\ OfAgent(a) /\ NoRequest \notin Requests
  BY AgentsAssumption DEF AgentsInv
<1>2. /\ mutex[a] = NoRequest /\ UNCHANGED stopped
      /\ table' = [table EXCEPT ![a] = <<>>] /\ reader' = [reader EXCEPT ![a] = Idle]
  BY DEF Uninitialize
<1>3. \A q \in Requests : /\ Holding(q)' \subseteq Holding(q)
                          /\ \A b \in Agents : In(q, b)' => In(q, b)
  BY <1>1, <1>2 DEF Holding, In, Outstanding, Idle, TypeOK
<1>4. ASSUME NEW q \in Requests
      PROVE  SoloOf(q)'
  <2>1. CASE ~In(q, a)
    <3>1. SoloSame(q)
      BY <1>3, <2>1, UninitializeOf DEF SoloSame, Places
    <3> QED
      BY <1>2, <3>1, SoloLeft DEF Solo
  <2>2. CASE In(q, a)
    <3>1. request[q].at # "none" /\ request[q] \in RequestRecord
      BY <1>1, <2>2, EntryOf, RecordOf DEF OfAgent
    <3>2. PICK last, again, answer \in BOOLEAN : Ended(q, a, last, again, answer)
      BY <2>2, UninitializeOf
    <3>3. request'[q].type = request[q].type
      BY <3>1, <3>2, EndedFields
    <3>4. aggregator'[q].expected = aggregator[q].expected
      <4>1. aggregator[q] \in [expected: 0..Cardinality(Agents), received: Nat,
                               error: BOOLEAN, alive: BOOLEAN]
        BY <1>1 DEF TypeOK
      <4> QED
        BY <3>2, <4>1 DEF Ended
    <3>5. SUFFICES ASSUME ToOne(q)
                   PROVE  SoloOf(q)'
      BY <3>3, <3>4 DEF SoloOf, ToOne
    <3>6. ~again /\ request'[q] = request[q]
      BY <3>2, <3>5 DEF Ended, ToOne, ToAll, ToModule
    <3>7. Places(q)' \subseteq Places(q)
      BY <1>3, <3>6 DEF Places
    <3>8. request[q].at \notin Busy
      <4>1. SUFFICES ASSUME request[q].at \in Busy
                     PROVE  FALSE
        OBVIOUS
      <4>2. PICK b \in Agents : mutex[b] = q /\ b \in request[q].agents
        BY <3>1, <4>1, Parts DEF Locked
      <4>3. a = b
        BY <2>2, <3>1, <3>5, <4>2 DEF Solo, SoloOf, Places
      <4> QED
        BY <1>1, <1>2, <4>2, <4>3
    <3> QED
      BY <1>2, <3>1, <3>3, <3>4, <3>6, <3>7, <3>8, SoloKept DEF Solo
  <2> QED
    BY <2>1, <2>2
<1> QED
  BY <1>4 DEF Solo

\* A request to the only agent stays with it in every step.
LEMMA SoloStep ==
    ASSUME AgentsInv, Fresh, Own, Solo, [Next]_vars
    PROVE  Solo'
<1>1. TypeOK /\ \A a \in Agents : OfAgent(a)
  BY DEF AgentsInv
<1>2. ASSUME UNCHANGED <<request, answers, aggregator, stopped>>,
             \A q \in Requests, b \in Agents :
                 (In(q, b)' => In(q, b)) /\ (b \in Holding(q)' => b \in Holding(q))
      PROVE  Solo'
  <2>1. \A q \in Requests : SoloSame(q)
    BY <1>2 DEF SoloSame, Places
  <2> QED
    BY <1>2, <2>1, SoloLeft DEF Solo
<1>3. ASSUME NEW a \in Agents, CleanUp(a)
      PROVE  Solo'
  <2>1. PICK x \in DOMAIN table[a] :
            /\ request[table[a][x]].type = "operation" /\ Answer(table[a][x], Closed)
            /\ table' = [table EXCEPT ![a] = WithoutEntry(a, x)]
    BY <1>3 DEF CleanUp
  <2>2. PICK r \in Requests : r = table[a][x]
    BY <1>1 DEF TypeOK, Table
  <2>3. /\ \A q \in Requests \ {r} : answers'[q] = answers[q]
        /\ UNCHANGED <<request, aggregator, stopped, reader>>
        /\ request[r].type = "operation"
    BY <1>1, <1>3, <2>1, <2>2 DEF CleanUp, Answer, TypeOK
  <2>4. x \in Addresses /\ Labelled(a)
    BY <1>1 DEF TypeOK, Table, OfAgent
  <2>5. \A q \in Requests, b \in Agents : In(q, b)' => In(q, b)
    BY <1>1, <2>1, <2>4, EntryRemoved
  <2>6. \A q \in Requests : Holding(q)' = Holding(q)
    BY <2>3 DEF Holding
  <2>7. \A q \in Requests \ {r} : SoloSame(q)
    BY <2>3, <2>5, <2>6 DEF SoloSame, Places
  <2>8. SoloOf(r)'
    BY <2>3 DEF SoloOf, ToOne, ToAll
  <2> QED
    BY <2>3, <2>7, <2>8, SoloLeft DEF Solo
<1>4. ASSUME NEW a \in Agents, DeliverChunk(a) \/ ConnectionLost(a)
      PROVE  Solo'
  <2>1. /\ UNCHANGED <<request, answers, aggregator, stopped, table>>
        /\ \/ reader' = [reader EXCEPT ![a] = Reading]
           \/ reader' = [reader EXCEPT ![a].at = "lost"]
    BY <1>4 DEF DeliverChunk, ConnectionLost, requestVars
  <2>2. \A q \in Requests, b \in Agents :
            (In(q, b)' => In(q, b)) /\ (b \in Holding(q)' => b \in Holding(q))
    <3>1. reader \in [Agents ->
              [at: {"off", "reading", "chunk", "complete", "clean", "lost"},
               request: Requests \cup {NoRequest}, of: Requests \cup {NoRequest}]]
      BY <1>1 DEF TypeOK
    <3>2. \A b \in Agents : reader'[b] = reader[b] \/ reader'[b].at \in {"reading", "lost"}
      BY <2>1, <3>1 DEF Reading, Idle
    <3> QED
      BY <2>1, <3>2 DEF In, Outstanding, Holding
  <2> QED
    BY <1>2, <2>1, <2>2
<1>5. ASSUME UNCHANGED <<requestVars, serverVars>>
      PROVE  Solo'
  <2>1. UNCHANGED <<request, answers, aggregator, stopped, table, reader>>
    BY <1>5 DEF requestVars, serverVars
  <2>2. \A q \in Requests, b \in Agents :
            (In(q, b)' => In(q, b)) /\ (b \in Holding(q)' => b \in Holding(q))
    BY <2>1 DEF In, Outstanding, Holding
  <2> QED
    BY <1>2, <2>1, <2>2
<1>6. ASSUME NEW a \in Agents,
             AgentReads(a) \/ WriteChunk(a) \/ WriteResponse(a) \/ Terminate(a) \/ Exit(a)
      PROVE  Solo'
  BY <1>5, <1>6 DEF AgentReads, WriteChunk, WriteResponse, Terminate, Exit
<1>7. CASE UNCHANGED vars
  BY <1>5, <1>7 DEF vars
<1> QED
  BY <1>3, <1>4, <1>6, <1>7, SoloReceive, SoloSender, SoloResponse, SoloRead, SoloEnded
    DEF Next, ReaderStep

\* The invariants hold in every state.
LEMMA Invariant ==
    ASSUME Fresh
    PROVE  Spec => [](AgentsInv /\ Own /\ Solo)
<1>1. Init => AgentsInv /\ Own /\ Solo
  <2>1. Init => AgentsInv
    BY InitInv
  <2>2. SUFFICES ASSUME Init
                 PROVE  Own /\ Solo
    BY <2>1
  <2>3. \A r \in Requests : /\ answers[r] = <<>> /\ DOMAIN answers[r] = {}
                            /\ request[r].at = "none"
    BY <2>2 DEF Init
  <2> QED
    BY <2>3 DEF Own, OwnAnswers, Solo, SoloOf
<1>2. AgentsInv /\ Own /\ Solo /\ [Next]_vars => (AgentsInv /\ Own /\ Solo)'
  BY StepInv, OwnStep, SoloStep
<1> QED
  BY <1>1, <1>2, PTL DEF Spec

-----------------------------------------------------------------------------
\* A request with a response for one agent has one token, or it is exempt.
LEMMA OperationParts ==
    ASSUME AgentsInv, NEW r \in Operations, ~CleanedUp(r)
    PROVE  /\ r \in Requests /\ request[r].at # "none" /\ request[r] \in RequestRecord
           /\ Locked(r) /\ Followed(r) /\ OneToken(r)
<1>1. r \in Requests /\ request[r].at # "none" /\ request[r].type \in Single
  BY DEF Operations, Received
<1>2. request[r].type \notin Aggregated
  BY <1>1 DEF Single, Aggregated, ToAll, ToModule
<1>3. ~Exempt(r) /\ ~HasAggregator(r)
  BY <1>2 DEF Exempt, Miscounted, HasAggregator
<1> QED
  BY <1>1, <1>3, Parts DEF Handled, Tokens

\* The tables, the messages and the counters keep their types.
THEOREM TypeCorrect ==
    ASSUME Fresh
    PROVE  Spec => []TypeOK
<1>1. AgentsInv => TypeOK
  BY DEF AgentsInv
<1> QED
  BY <1>1, Invariant, PTL

\* A request is answered once, and with no response but its own, however late
\* responses, exits of agents, retries and cleanups coincide.
THEOREM OneAnswerEach ==
    ASSUME Fresh
    PROVE  Spec => []AnsweredOnce
<1>1. AgentsInv /\ Own => AnsweredOnce
  <2>1. SUFFICES ASSUME AgentsInv, Own, NEW r \in Received
                 PROVE  /\ Len(answers[r]) > 1 => CleanedUp(r) \/ Miscounted(r)
                        /\ \A k \in DOMAIN answers[r] :
                              answers[r][k] \in Requests => answers[r][k] = r
    BY DEF AnsweredOnce
  <2>2. r \in Requests /\ request[r].at # "none"
    BY <2>1 DEF Received
  <2>3. ~Exempt(r) => Len(answers[r]) <= 1
    BY <2>1, <2>2, Parts DEF Tokens, Aggregates, OneToken, Counts
  <2>4. Len(answers[r]) \in Nat
    BY <2>1, <2>2, NoAnswers DEF AgentsInv
  <2>5. Len(answers[r]) > 1 => CleanedUp(r) \/ Miscounted(r)
    BY <2>3, <2>4 DEF Exempt
  <2>6. \A k \in DOMAIN answers[r] : answers[r][k] \in Requests => answers[r][k] = r
    BY <2>1, <2>2 DEF Own, OwnAnswers
  <2> QED
    BY <2>5, <2>6
<1> QED
  BY <1>1, Invariant, PTL

\* A request to all agents is answered only when each agent that was asked has
\* responded or is gone, and nothing is left to be written to any of them.  When
\* there is one agent, its sender has done with the request, too; when there are
\* several, the sender may still use it at the last one, which the code does not
\* prevent, and which the theorem does not claim.
THEOREM AllAgentsAnswered ==
    ASSUME Fresh
    PROVE  Spec => []AnsweredInFull
<1>1. AgentsInv /\ Own /\ Solo => AnsweredInFull
  <2>1. SUFFICES ASSUME AgentsInv, Own, Solo, NEW r \in Received,
                        Answered(r), request[r].type \in ToAll, ~Miscounted(r)
                 PROVE  /\ Unfinished(r) = {}
                        /\ aggregator[r].expected = 1 => request[r].at = "done"
    BY DEF AnsweredInFull
  <2>2. r \in Requests /\ request[r].at # "none"
    BY <2>1 DEF Received
  <2>3. /\ TypeOK /\ request[r] \in RequestRecord
        /\ Locked(r) /\ Listed(r) /\ Aggregates(r)
    BY <2>1, <2>2, Parts
  <2>4. Pending(r) = {}
    BY <2>1, <2>2, NotAnsweredYet
  <2>5. /\ \A a \in Agents : ~In(r, a)
        /\ \A a \in request[r].agents : a \in Agents /\ mutex[a] = r
    BY <2>3, <2>4 DEF Pending, RequestRecord
  <2>6. ~Exempt(r) /\ ~request[r].retry
    BY <2>1, <2>2, <2>3 DEF Exempt, CleanedUp, Own, OwnAnswers, Locked, ToAll, ToModule
  <2>7. request[r].at \in {"written", "done"}
    <3>1. request[r].at # "sending"
      BY <2>3, <2>5 DEF Locked, Busy
    <3>2. request[r].at # "entered"
      BY <2>3, <2>5, <2>6 DEF Locked, Listed, Busy
    <3>3. request[r].at # "dropped"
      BY <2>3, <2>6 DEF Locked
    <3> QED
      BY <2>3, <3>1, <3>2, <3>3 DEF RequestRecord
  <2>8. Unfinished(r) = {}
    <3>1. ASSUME NEW a \in request[r].agents
          PROVE  mutex[a] = r /\ request[r].at = "written"
      BY <2>3, <2>5, <2>7, <3>1 DEF Locked
    <3> QED
      BY <2>5, <3>1 DEF Unfinished, In
  <2>9. aggregator[r].expected = 1 => request[r].at # "written"
    BY <2>1, <2>2 DEF Solo, SoloOf, ToOne, Busy
  <2> QED
    BY <2>7, <2>8, <2>9
<1> QED
  BY <1>1, Invariant, PTL

\* When an operation is answered, its sender, the table and the readers have
\* done with it: its object may be freed.
THEOREM AnsweredAfterUse ==
    ASSUME Fresh
    PROVE  Spec => []AnsweredLast
<1>1. AgentsInv => AnsweredLast
  <2>1. SUFFICES ASSUME AgentsInv, NEW r \in Operations, Answered(r), ~CleanedUp(r)
                 PROVE  ~InHand(r)
    BY DEF AnsweredLast
  <2>2. /\ r \in Requests /\ request[r].at # "none" /\ request[r] \in RequestRecord
        /\ Locked(r) /\ Followed(r) /\ OneToken(r)
    BY <2>1, OperationParts
  <2>3. Pending(r) = {} /\ Holding(r) = {} /\ request[r].at \notin Busy
    BY <2>1, <2>2 DEF OneToken, Followed
  <2>4. \A a \in Agents : ~In(r, a)
    BY <2>3 DEF Pending
  <2>5. request[r].at # "sending"
    <3>1. \A a \in request[r].agents : a \in Agents /\ mutex[a] # r
      BY <2>2, <2>3 DEF Locked, RequestRecord
    <3>2. request[r].agents = {}
      BY <2>3, <3>1 DEF Pending
    <3> QED
      BY <2>2, <3>2 DEF Locked
  <2>6. ASSUME NEW a \in Agents, reader[a].request = r
        PROVE  FALSE
    <3>1. Reads(a) /\ NoRequest \notin Requests
      BY <2>1, AgentsAssumption DEF AgentsInv, OfAgent
    <3>2. reader[a].at \in {"chunk", "complete"}
      BY <2>2, <2>6, <3>1 DEF Reads
    <3>3. reader[a].at # "complete"
      BY <2>3, <2>6 DEF Holding
    <3>4. In(r, a)
      BY <2>2, <2>6, <3>2, <3>3 DEF Followed
    <3> QED
      BY <2>4, <3>4
  <2> QED
    BY <2>3, <2>4, <2>5, <2>6 DEF InHand, In, Busy
<1> QED
  BY <1>1, Invariant, PTL

\* No operation is processed twice: it is sent again only when no provider has
\* begun to process it.
THEOREM OperationsProcessedOnce ==
    ASSUME Fresh
    PROVE  Spec => []ProcessedOnce
<1>1. AgentsInv => ProcessedOnce
  <2>1. SUFFICES ASSUME AgentsInv, NEW r \in Operations, ~CleanedUp(r)
                 PROVE  begun[r] <= 1
    BY DEF ProcessedOnce
  <2>2. begun[r] \in {0, 1}
    BY <2>1, OperationParts DEF Followed
  <2> QED
    BY <2>2
<1> QED
  BY <1>1, Invariant, PTL

\* An operation that is not answered is still with its sender, in the table of
\* an agent, or with a reader, unless its retry was dropped.
THEOREM NoneForgotten ==
    ASSUME Fresh
    PROVE  Spec => []OperationsKept
<1>1. AgentsInv => OperationsKept
  <2>1. SUFFICES ASSUME AgentsInv, NEW r \in Received, Forgotten(r)
                 PROVE  FALSE
    BY DEF OperationsKept
  <2>2. r \in Operations /\ ~Answered(r) /\ ~InHand(r) /\ request[r].at # "dropped"
    BY <2>1 DEF Forgotten
  <2>3. ~CleanedUp(r)
    <3>1. DOMAIN answers[r] = {}
      BY <2>2 DEF Answered
    <3> QED
      BY <3>1 DEF CleanedUp
  <2>4. /\ r \in Requests /\ request[r].at # "none" /\ request[r] \in RequestRecord
        /\ Locked(r) /\ Followed(r)
    BY <2>1, <2>2, <2>3, OperationParts
  <2>5. CASE Pending(r) # {}
    <3>1. PICK a \in Agents : a \in request[r].agents \/ In(r, a)
      BY <2>5 DEF Pending
    <3>2. CASE In(r, a)
      BY <2>2, <3>2 DEF InHand, In
    <3>3. CASE a \in request[r].agents
      <4>1. request[r].at \in {"sending", "entered", "written"}
        BY <2>4, <3>3 DEF Locked, RequestRecord
      <4> QED
        BY <2>2, <4>1 DEF InHand
    <3> QED
      BY <3>1, <3>2, <3>3
  <2>6. CASE Holding(r) # {}
    BY <2>2, <2>6 DEF Holding, InHand
  <2> QED
    BY <2>2, <2>4, <2>5, <2>6 DEF Followed
<1> QED
  BY <1>1, Invariant, PTL
=============================================================================
