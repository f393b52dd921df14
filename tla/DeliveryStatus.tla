-------------------------- MODULE DeliveryStatus --------------------------
(***************************************************************************)
(* How the thread that generates an indication learns that it may go on    *)
(* (Common/IndicationRouter.cpp).  The thread registers a semaphore under  *)
(* a message id made from the address of its router, sends the indication  *)
(* to the indication service and waits, for a limited time.  The service   *)
(* creates a DeliveryStatusAggregator, forwards one request for each       *)
(* matched subscription to the handler service and counts it; the handler  *)
(* service's threads report each request complete; whoever finds the       *)
(* counts equal sends the response and deletes the aggregator.             *)
(*                                                                         *)
(* Each subscription has a destination of its own.  A thread that sends    *)
(* one indication after the other has its router at the same address each  *)
(* time.  Service threads take messages in any order.                      *)
(***************************************************************************)
EXTENDS Integers, Sequences, FiniteSets

CONSTANTS
    Senders,            \* threads that generate indications
    Subscriptions,      \* subscriptions that may match
    MaxSent,            \* bound: indications that one thread sends
    WaitModes,          \* whether providers ask to wait for the delivery
    Kinds,              \* ways a handler request may be treated
    TimeoutsHappen,     \* the wait for the status may time out
    HandlerMayStop      \* the handler service may refuse a request

ASSUME StatusAssumption ==
    /\ IsFiniteSet(Subscriptions)
    /\ MaxSent \in Nat \ {0}
    /\ WaitModes \subseteq BOOLEAN
    /\ Kinds \subseteq {"reliable", "direct", "export", "rejected"}
    /\ TimeoutsHappen \in BOOLEAN
    /\ HandlerMayStop \in BOOLEAN

VARIABLES
    sender,         \* each thread: whether it waits, how many it has sent, and
                    \* which of its indications' response signalled it
    service,        \* how far the indication service is with an indication
    matched,        \* subscriptions an indication matched
    waits,          \* indications answered only when they are delivered
    toForward,      \* those for which a request is still to be sent
    aggregator,     \* its counts
    answers,        \* responses sent: the aggregator is deleted with the first
    request,        \* handler request of an indication and a subscription
    queue,          \* destination queue of each subscription
    settled,        \* requests handled to their end
    responses       \* indications whose response is on its way

serviceVars == <<service, waits, matched, toForward>>
statusVars  == <<aggregator, answers, responses>>
handlerVars == <<request, queue, settled>>

vars == <<sender, serviceVars, statusVars, handlerVars>>

Indications == Senders \X (1..MaxSent)

NoResponse == 0

Freed(i) == answers[i] > 0
-----------------------------------------------------------------------------
Init ==
    /\ sender = [t \in Senders |-> [at |-> "idle", sent |-> 0, signal |-> NoResponse]]
    /\ service = [i \in Indications |-> "none"]
    /\ waits = {}
    /\ matched = [i \in Indications |-> {}]
    /\ toForward = [i \in Indications |-> {}]
    /\ aggregator = [i \in Indications |-> [expected |-> 0, current |-> 0, setDone |-> FALSE]]
    /\ answers = [i \in Indications |-> 0]
    /\ request = [i \in Indications |-> [s \in Subscriptions |-> "none"]]
    /\ queue = [s \in Subscriptions |-> <<>>]
    /\ settled = {}
    /\ responses = {}

\* deliverAndWaitForStatus registers the semaphore and sends the indication.
Deliver(t) ==
    LET n == sender[t].sent + 1
    IN  /\ sender[t].at = "idle"
        /\ n <= MaxSent
        /\ sender' = [sender EXCEPT ![t] =
                         [at |-> "waiting", sent |-> n, signal |-> NoResponse]]
        /\ service' = [service EXCEPT ![<<t, n>>] = "sent"]
        /\ \E w \in WaitModes : waits' = IF w THEN waits \cup {<<t, n>>} ELSE waits
        /\ UNCHANGED <<matched, toForward, statusVars, handlerVars>>

\* time_wait has returned; the entry is removed and the thread goes on.
Signalled(t) ==
    /\ sender[t].at = "waiting"
    /\ sender[t].signal # NoResponse
    /\ sender' = [sender EXCEPT ![t].at = "idle"]
    /\ UNCHANGED <<serviceVars, statusVars, handlerVars>>

TimedOut(t) ==
    /\ TimeoutsHappen
    /\ sender[t].at = "waiting"
    /\ sender' = [sender EXCEPT ![t].at = "idle"]
    /\ UNCHANGED <<serviceVars, statusVars, handlerVars>>

\* notify looks the waiting thread up by the message id, its router's address.
Notify(i) ==
    LET t == i[1]
    IN  /\ i \in responses
        /\ responses' = responses \ {i}
        /\ sender' = [sender EXCEPT ![t].signal =
                         IF sender[t].at = "waiting" /\ @ = NoResponse THEN i[2] ELSE @]
        /\ UNCHANGED <<serviceVars, aggregator, answers, handlerVars>>
-----------------------------------------------------------------------------
\* _handleProcessIndicationRequest: the subscriptions that match.
Match(i) ==
    /\ service[i] = "sent"
    /\ \E M \in SUBSET Subscriptions :
          /\ matched' = [matched EXCEPT ![i] = M]
          /\ toForward' = [toForward EXCEPT ![i] = M]
    /\ service' = [service EXCEPT ![i] = "forwarding"]
    /\ UNCHANGED <<sender, waits, statusVars, handlerVars>>

\* _forwardIndToHandler sends the request, and counts it afterwards.
Forward(i, s) ==
    /\ service[i] = "forwarding"
    /\ s \in toForward[i]
    /\ toForward' = [toForward EXCEPT ![i] = @ \ {s}]
    /\ service' = [service EXCEPT ![i] = "counting"]
    /\ \/ request' = [request EXCEPT ![i][s] = "new"]
       \/ HandlerMayStop /\ request' = [request EXCEPT ![i][s] = "lost"]
    /\ UNCHANGED <<sender, waits, matched, statusVars, queue, settled>>

CountExpected(i) == aggregator' = [aggregator EXCEPT ![i].expected = @ + 1]

IncExpectedResponseCount(i) ==
    /\ service[i] = "counting"
    /\ service' = [service EXCEPT ![i] = "forwarding"]
    /\ CountExpected(i)
    /\ UNCHANGED <<sender, waits, matched, toForward, answers, responses, handlerVars>>

\* _sendDeliveryStausResponse, which also deletes the aggregator.
SendResponse(i) ==
    /\ answers' = [answers EXCEPT ![i] = @ + 1]
    /\ responses' = responses \cup {i}

NoAnswer == UNCHANGED <<answers, responses>>

\* Mutant of AllComplete: the response is sent when all were forwarded.
AllForwarded(i) == TRUE

AllComplete(i) == aggregator[i].expected = aggregator[i].current

\* The indication service is done: ExpectedResponseCountSetDone.
SetDone(i) ==
    /\ service[i] = "forwarding"
    /\ toForward[i] = {}
    /\ service' = [service EXCEPT ![i] = "done"]
    /\ aggregator' = [aggregator EXCEPT ![i].setDone = TRUE]
    /\ IF AllComplete(i) THEN SendResponse(i) ELSE NoAnswer
    /\ UNCHANGED <<sender, waits, matched, toForward, handlerVars>>

\* Mutant of LastOne: the requests still to be forwarded are forgotten.
CountsEqual(i) == aggregator[i].expected = aggregator[i].current + 1

\* Mutant of LastOne: compared before the response is counted.
ComparedFirst(i) ==
    /\ aggregator[i].setDone
    /\ aggregator[i].expected = aggregator[i].current

\* The response being counted is the last one.
LastOne(i) ==
    /\ aggregator[i].setDone
    /\ aggregator[i].expected = aggregator[i].current + 1

\* complete.  Called on a deleted aggregator it writes to memory that may hold
\* anything: a second response is possible.
Complete(i) ==
    IF Freed(i)
    THEN /\ UNCHANGED aggregator
         /\ SendResponse(i) \/ NoAnswer
    ELSE /\ aggregator' = [aggregator EXCEPT ![i].current = @ + 1]
         /\ IF LastOne(i) THEN SendResponse(i) ELSE NoAnswer
-----------------------------------------------------------------------------
Handle(i, s, from, to) ==
    /\ request[i][s] = from
    /\ request' = [request EXCEPT ![i][s] = to]

Settle(i, s) == settled' = settled \cup {<<i, s>>}

\* Reliable indications are enabled: the indication is queued for its
\* destination, with the aggregator if it is to wait for the delivery.
EnqueueReliable(i, s) ==
    /\ "reliable" \in Kinds
    /\ Handle(i, s, "new", "enqueued")
    /\ queue' = [queue EXCEPT ![s] = Append(@, i)]
    /\ UNCHANGED <<sender, serviceVars, statusVars, settled>>

\* _handleIndication then reads waitUntilDelivered again, to leave the rest to
\* the queue; in a deleted aggregator it may read anything.
ReadFlag(i, s) ==
    /\ \/ /\ i \in waits \/ Freed(i)
          /\ Handle(i, s, "enqueued", "done")
       \/ /\ i \notin waits \/ Freed(i)
          /\ Handle(i, s, "enqueued", "completing")
    /\ UNCHANGED <<sender, serviceVars, statusVars, queue, settled>>

\* The destination is done with the oldest indication of its queue, one way or
\* another, and deletes its IndicationInfo.
DestinationDone(s) ==
    /\ queue[s] # <<>>
    /\ LET i == Head(queue[s])
       IN  /\ Settle(i, s)
           /\ IF i \in waits THEN Complete(i) ELSE UNCHANGED statusVars
    /\ queue' = [queue EXCEPT ![s] = Tail(@)]
    /\ UNCHANGED <<sender, serviceVars, request>>

\* Reliable indications are disabled, or the handler is an SNMP, log, e-mail or
\* file handler: complete is called first, then the indication is delivered, also
\* if the provider waits for the delivery (against waitUntilDelivered).
CompleteThenDeliver(i, s) ==
    /\ "direct" \in Kinds
    /\ Handle(i, s, "new", "attempt")
    /\ Complete(i)
    /\ UNCHANGED <<sender, serviceVars, queue, settled>>

\* Mutant of Export: complete is called first for every sender.
ExportAtOnce(i, s) ==
    /\ "export" \in Kinds
    /\ Handle(i, s, "new", "attempt") /\ Complete(i)
    /\ UNCHANGED <<sender, serviceVars, queue, settled>>

\* A listener in the same server: complete is called first only if the sender
\* need not wait for the delivery.
Export(i, s) ==
    /\ "export" \in Kinds
    /\ IF i \in waits
       THEN Handle(i, s, "new", "export") /\ UNCHANGED statusVars
       ELSE Handle(i, s, "new", "attempt") /\ Complete(i)
    /\ UNCHANGED <<sender, serviceVars, queue, settled>>

AttemptDone(i, s) ==
    /\ \/ Handle(i, s, "attempt", "done")
       \/ Handle(i, s, "export", "completing")
    /\ Settle(i, s)
    /\ UNCHANGED <<sender, serviceVars, statusVars, queue>>

\* The destination of the handler is missing or invalid.
Reject(i, s) ==
    /\ "rejected" \in Kinds
    /\ Handle(i, s, "new", "completing")
    /\ Settle(i, s)
    /\ UNCHANGED <<sender, serviceVars, statusVars, queue>>

\* _handle_async_request completes what _handleIndication left.
CompleteRequest(i, s) ==
    /\ Handle(i, s, "completing", "done")
    /\ Complete(i)
    /\ UNCHANGED <<sender, serviceVars, queue, settled>>
-----------------------------------------------------------------------------
ServiceStep(i) ==
    \/ Match(i)
    \/ \E s \in Subscriptions : Forward(i, s)
    \/ IncExpectedResponseCount(i)
    \/ SetDone(i)

HandlerStep(i, s) ==
    \/ EnqueueReliable(i, s)
    \/ ReadFlag(i, s)
    \/ CompleteThenDeliver(i, s)
    \/ Export(i, s)
    \/ AttemptDone(i, s)
    \/ Reject(i, s)
    \/ CompleteRequest(i, s)

Next ==
    \/ \E t \in Senders : Deliver(t) \/ Signalled(t) \/ TimedOut(t)
    \/ \E i \in Indications : Notify(i) \/ ServiceStep(i)
    \/ \E i \in Indications, s \in Subscriptions : HandlerStep(i, s)
    \/ \E s \in Subscriptions : DestinationDone(s)

Spec == Init /\ [][Next]_vars

\* The services take every message, and a thread that was signalled goes on.
Fairness ==
    /\ \A t \in Senders : WF_vars(Signalled(t))
    /\ \A i \in Indications : WF_vars(Notify(i)) /\ WF_vars(ServiceStep(i))
    /\ \A i \in Indications : \A s \in Subscriptions : WF_vars(HandlerStep(i, s))
    /\ \A s \in Subscriptions : WF_vars(DestinationDone(s))

FairSpec == Spec /\ Fairness
-----------------------------------------------------------------------------
\* The types of the table entries, the messages and the aggregators.
TypeOK ==
    /\ sender \in [Senders -> [at: {"idle", "waiting"}, sent: 0..MaxSent,
                               signal: 0..MaxSent]]
    /\ service \in [Indications -> {"none", "sent", "forwarding", "counting", "done"}]
    /\ waits \subseteq Indications
    /\ matched \in [Indications -> SUBSET Subscriptions]
    /\ toForward \in [Indications -> SUBSET Subscriptions]
    /\ aggregator \in [Indications ->
                          [expected: 0..Cardinality(Subscriptions),
                           current: 0..Cardinality(Subscriptions),
                           setDone: BOOLEAN]]
    /\ answers \in [Indications -> Nat]
    /\ request \in [Indications -> [Subscriptions ->
                       {"none", "new", "lost", "enqueued", "attempt", "export",
                        "completing", "done"}]]
    /\ queue \in [Subscriptions -> Seq(Indications)]
    /\ settled \subseteq Indications \X Subscriptions
    /\ responses \subseteq Indications

\* Steps that will still use the aggregator of an indication: the indication
\* service before it is done, the handler's threads before they give it up,
\* and an IndicationInfo that carries it.
StillUsed(i) ==
    \/ service[i] \in {"forwarding", "counting"}
    \/ \E s \in Subscriptions :
          \/ request[i][s] \in {"new", "enqueued", "export", "completing"}
          \/ i \in waits /\ \E k \in DOMAIN queue[s] : queue[s][k] = i

\* Nobody uses an aggregator after _sendDeliveryStausResponse deleted it.
AggregatorAlive == \A i \in Indications : StillUsed(i) => ~Freed(i)

\* The same for the indications that need not wait for their delivery.
AggregatorKept == \A i \in Indications \ waits : StillUsed(i) => ~Freed(i)

\* The response is sent once, whichever of the threads finds the counts equal,
\* as long as the aggregator is not used after it.
AnsweredOnce == \A i \in Indications \ waits : answers[i] <= 1

\* When the response is sent, every matched destination is done with the indication
\* if the provider waits for the delivery (waitUntilDelivered in IndicationRouter.h);
\* else it has the indication, at least, in its queue or in an attempt to deliver it.
\* The code does not keep this for the requests of CompleteThenDeliver, of whatever
\* indication: it holds where "direct" is not among the Kinds.
AnsweredWhenDelivered ==
    \A i \in Indications : Freed(i) => \A s \in matched[i] :
        \/ <<i, s>> \in settled
        \/ /\ i \notin waits
           /\ \/ request[i][s] = "attempt"
              \/ \E k \in DOMAIN queue[s] : queue[s][k] = i

\* Every destination gets the indications of one thread in the order in which
\* the thread generated them.
SenderOrder ==
    \A s \in Subscriptions : \A j, k \in DOMAIN queue[s] :
        j < k /\ queue[s][j][1] = queue[s][k][1]
            => queue[s][j][2] < queue[s][k][2]

\* A thread that waits for the status of its indication gets it, without the
\* help of the time-out.
WaitEnds == \A t \in Senders : sender[t].at = "waiting" ~> sender[t].at = "idle"
=============================================================================
