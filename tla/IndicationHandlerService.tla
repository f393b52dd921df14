--------------------- MODULE IndicationHandlerService ---------------------
(***************************************************************************)
(* The threads of the indication handler service                           *)
(* (HandlerService/IndicationHandlerService.cpp): service threads that     *)
(* enqueue, deliver directly, discard or clean up; the dispatcher thread   *)
(* that goes round the destination queues under the table's ReadLock; and  *)
(* the delivery threads of a pool of fixed size.  DestinationQueue models  *)
(* one queue in detail; here a queue is a number of indications, whether   *)
(* its front failed and rests, and whether a delivery is PENDING.          *)
(*                                                                         *)
(* Time is abstract: a retry interval ends at any moment (RetryIntervalOver), queued *)
(* indications expire at any visit, and the dispatcher's time_wait ends at  *)
(* any moment, so the semaphore, which only shortens it, is left out.      *)
(***************************************************************************)
EXTENDS Integers, Sequences, FiniteSets

CONSTANTS
    Destinations,       \* names of destination queues
    Requests,           \* service threads of the handler service
    DeliveryThreads,    \* _deliveryThreadPool, _maxDeliveryThreads of them
    MaxKept,            \* bound: indications kept in one queue
    CreationMayFail,    \* whether the pool may fail to create a thread
    NoRequest,          \* no service thread
    NoDestination       \* no destination

ASSUME ThreadAssumption ==
    /\ IsFiniteSet(DeliveryThreads)
    /\ MaxKept \in Nat \ {0}
    /\ CreationMayFail \in BOOLEAN
    /\ NoRequest \notin Requests
    /\ NoDestination \notin Destinations

VARIABLES
    table,          \* keys of _destinationQueueTable
    kept,           \* number of indications in each queue
    resting,        \* queues whose front failed less than an interval ago
    pending,        \* queues whose _lastDeliveryRetryStatus is PENDING
    reliable,       \* _maxDeliveryRetry # 0
    needCleanup,    \* _needDestinationQueueCleanup
    writer,         \* request that holds the table's WriteLock
    dispatcher,     \* where the dispatcher thread is
    todo,           \* queues the dispatcher has still to visit in this round
    deliveryQueue,  \* _deliveryQueue, of the destinations of its indications
    count,          \* _deliveryThreadsRunningCount
    threads,        \* what each delivery thread does
    requests,       \* what each service thread does
    stop            \* who has asked the dispatcher to stop

queueVars == <<table, kept, resting, pending>>
flagVars  == <<reliable, needCleanup, stop>>
roundVars == <<dispatcher, todo>>
poolVars  == <<deliveryQueue, count, threads>>
lockVars  == <<writer, requests>>

vars == <<queueVars, flagVars, roundVars, poolVars, lockVars>>

\* A request is at its next step, for an operation on some queues.
Idle == [at |-> "idle", op |-> "none", todo |-> {}]

At(r, step) == requests[r].at = step

Goto(r, step) == requests' = [requests EXCEPT ![r].at = step]

Finish(r) == requests' = [requests EXCEPT ![r] = Idle]

\* Nothing keeps a writer out; nothing keeps a reader out.
LockFree == writer = NoRequest /\ dispatcher \notin {"round", "assign"}

Unwritten == writer = NoRequest
-----------------------------------------------------------------------------
Init ==
    /\ table = {}
    /\ kept = [d \in Destinations |-> 0]
    /\ resting = {}
    /\ pending = {}
    /\ reliable = TRUE
    /\ needCleanup = FALSE
    /\ writer = NoRequest
    /\ dispatcher = "waiting"
    /\ todo = {}
    /\ deliveryQueue = <<>>
    /\ count = 0
    /\ threads = [t \in DeliveryThreads |-> [at |-> "idle", dest |-> NoDestination]]
    /\ requests = [r \in Requests |-> Idle]
    /\ stop = "no"

\* DestinationQueue::enqueue; a full queue drops its oldest.
AddTo(d) ==
    /\ kept' = [kept EXCEPT ![d] = IF @ < MaxKept THEN @ + 1 ELSE @]
    /\ resting' = IF kept[d] < MaxKept THEN resting ELSE resting \ {d}

\* _handleIndication, reliable indications enabled.
HandleReliable(r, d) ==
    /\ At(r, "idle")
    /\ stop # "destructor"
    /\ reliable
    /\ requests' = [requests EXCEPT ![r] =
                       [at |-> "enqueue", op |-> "enqueue", todo |-> {d}]]
    /\ UNCHANGED <<queueVars, flagVars, roundVars, poolVars, writer>>

\* _setSequenceIdentifierAndEnqueue: under a ReadLock when the queue exists.
EnqueueExisting(r, d) ==
    /\ At(r, "enqueue") /\ requests[r].todo = {d}
    /\ Unwritten
    /\ d \in table
    /\ AddTo(d)
    /\ Goto(r, "mark")
    /\ UNCHANGED <<table, pending, flagVars, roundVars, poolVars, writer>>

QueueMissing(r, d) ==
    /\ At(r, "enqueue") /\ requests[r].todo = {d}
    /\ Unwritten
    /\ d \notin table
    /\ Goto(r, "create")
    /\ UNCHANGED <<queueVars, flagVars, roundVars, poolVars, writer>>

\* Under the WriteLock, it looks again and creates the queue if still needed.
CreateAndEnqueue(r, d) ==
    /\ At(r, "create") /\ requests[r].todo = {d}
    /\ LockFree
    /\ table' = table \cup {d}
    /\ AddTo(d)
    /\ Goto(r, "mark")
    /\ UNCHANGED <<pending, flagVars, roundVars, poolVars, writer>>

\* Mutant of MarkCleanup: the flag is forgotten.
FinishUnmarked(r) ==
    /\ At(r, "mark")
    /\ Finish(r)
    /\ UNCHANGED <<queueVars, flagVars, roundVars, poolVars, writer>>

\* _handleIndication, after the indication was enqueued.
MarkCleanup(r) ==
    /\ At(r, "mark")
    /\ needCleanup' = TRUE
    /\ Finish(r)
    /\ UNCHANGED <<queueVars, reliable, stop, roundVars, poolVars, writer>>

\* _handleIndication, reliable indications disabled: one attempt, then the
\* queues that are left from before are cleaned up.
HandleDirect(r) ==
    /\ At(r, "idle")
    /\ stop # "destructor"
    /\ ~reliable
    /\ requests' = [requests EXCEPT ![r] =
                       [at |-> "direct", op |-> "direct", todo |-> {}]]
    /\ UNCHANGED <<queueVars, flagVars, roundVars, poolVars, writer>>

DirectDelivered(r) ==
    /\ At(r, "direct")
    /\ requests' = [requests EXCEPT ![r] =
                       IF needCleanup
                       THEN [at |-> "lock", op |-> "cleanup", todo |-> {}]
                       ELSE Idle]
    /\ UNCHANGED <<queueVars, flagVars, roundVars, poolVars, writer>>
-----------------------------------------------------------------------------
\* _handleSubscriptionNotActiveRequest and _handleListenerNotActiveRequest.
BeginNotActive(r, d, op) ==
    /\ At(r, "idle")
    /\ stop # "destructor"
    /\ requests' = [requests EXCEPT ![r] =
                       [at |-> "lock", op |-> op, todo |-> {d}]]
    /\ UNCHANGED <<queueVars, flagVars, roundVars, poolVars, writer>>

\* They, and _destinationQueuesCleanup, take the WriteLock and look up.
LockForWrite(r) ==
    /\ At(r, "lock")
    /\ LockFree
    /\ writer' = r
    /\ needCleanup' = (needCleanup /\ requests[r].op # "cleanup")
    /\ requests' = [requests EXCEPT
                       ![r].at = "locked",
                       ![r].todo = IF requests[r].op = "cleanup"
                                   THEN table ELSE @ \cap table]
    /\ UNCHANGED <<queueVars, reliable, stop, roundVars, poolVars>>

\* Mutant of DeliveryOver: the delivery under way is forgotten.
NotWaiting(d) == TRUE

\* _waitForNonPendingDeliveryStatus has returned.
DeliveryOver(d) == d \notin pending

\* deleteMatchedIndications leaves what other subscriptions sent.
DeleteMatched(r, d) ==
    /\ At(r, "locked") /\ requests[r].op = "subscription"
    /\ d \in requests[r].todo
    /\ DeliveryOver(d)
    /\ \E n \in 0..kept[d] :
          /\ kept' = [kept EXCEPT ![d] = n]
          /\ resting' \in {resting, resting \ {d}}
          /\ n = kept[d] => resting' = resting
          /\ n = 0 => d \notin resting'
    /\ requests' = [requests EXCEPT ![r].todo = @ \ {d}]
    /\ UNCHANGED <<table, pending, flagVars, roundVars, poolVars, writer>>

\* cleanup or shutdown drains the queue, which is then deleted.
DeleteQueue(r, d) ==
    /\ At(r, "locked") /\ requests[r].op \in {"listener", "cleanup"}
    /\ d \in requests[r].todo
    /\ DeliveryOver(d)
    /\ kept' = [kept EXCEPT ![d] = 0]
    /\ resting' = resting \ {d}
    /\ table' = table \ {d}
    /\ pending' = pending \ {d}
    /\ requests' = [requests EXCEPT ![r].todo = @ \ {d}]
    /\ UNCHANGED <<flagVars, roundVars, poolVars, writer>>

\* The request is answered.
Unlock(r) ==
    /\ At(r, "locked") /\ requests[r].todo = {}
    /\ writer' = NoRequest
    /\ Finish(r)
    /\ UNCHANGED <<queueVars, flagVars, roundVars, poolVars>>

\* _handlePropertyUpdateRequest changes _maxDeliveryRetry, without a lock.
SetReliable ==
    /\ reliable' = ~reliable
    /\ UNCHANGED <<queueVars, needCleanup, stop, roundVars, poolVars, lockVars>>

\* _stopDispatcher, called when the service stops, waits for the dispatcher.
BeginStop(r) ==
    /\ At(r, "idle")
    /\ stop = "no"
    /\ stop' = "service"
    /\ requests' = [requests EXCEPT ![r] =
                       [at |-> "stopping", op |-> "stop", todo |-> {}]]
    /\ UNCHANGED <<queueVars, reliable, needCleanup, roundVars, poolVars, writer>>

EndStop(r) ==
    /\ At(r, "stopping")
    /\ dispatcher = "stopped"
    /\ Finish(r)
    /\ UNCHANGED <<queueVars, flagVars, roundVars, poolVars, writer>>

\* ~IndicationHandlerService, after the service threads have finished; it is
\* called by another thread, for which r stands.
Destroy(r) ==
    /\ stop = "service"
    /\ dispatcher = "stopped"
    /\ \A q \in Requests : At(q, "idle")
    /\ stop' = "destructor"
    /\ requests' = IF needCleanup
                   THEN [requests EXCEPT ![r] =
                            [at |-> "lock", op |-> "cleanup", todo |-> {}]]
                   ELSE requests
    /\ UNCHANGED <<queueVars, reliable, needCleanup, roundVars, poolVars, writer>>
-----------------------------------------------------------------------------
\* _dispatcherRoutine: time_wait has returned.
Wake ==
    /\ dispatcher = "waiting"
    /\ dispatcher' = IF stop = "no" THEN "locking" ELSE "stopped"
    /\ UNCHANGED <<queueVars, flagVars, todo, poolVars, lockVars>>

BeginRound ==
    /\ dispatcher = "locking"
    /\ Unwritten
    /\ dispatcher' = "round"
    /\ todo' = table
    /\ UNCHANGED <<queueVars, flagVars, poolVars, lockVars>>

\* Mutant of Deliverable: a delivery may be under way.
HasIndication(d, n) == n > 0 /\ d \notin resting

\* The queue has n indications left when the expired ones are dropped, and
\* its front may be delivered.
Deliverable(d, n) ==
    /\ n > 0
    /\ d \notin pending
    /\ d \in resting => n < kept[d]

\* getNextIndicationForDelivery returns no indication.
VisitNone(d) ==
    /\ dispatcher = "round" /\ d \in todo
    /\ \E n \in 0..kept[d] :
          /\ ~Deliverable(d, n)
          /\ d \in pending => n = kept[d]
          /\ kept' = [kept EXCEPT ![d] = n]
          /\ resting' = IF n < kept[d] THEN resting \ {d} ELSE resting
    /\ todo' = todo \ {d}
    /\ UNCHANGED <<table, pending, flagVars, dispatcher, poolVars, lockVars>>

\* Mutant of InsertBack: the newest is delivered first.
InsertFront(d) == <<d>> \o deliveryQueue

InsertBack(d) == Append(deliveryQueue, d)

\* getNextIndicationForDelivery returns one, which is put on _deliveryQueue.
VisitDispatch(d) ==
    /\ dispatcher = "round" /\ d \in todo
    /\ \E n \in 1..kept[d] :
          /\ Deliverable(d, n)
          /\ kept' = [kept EXCEPT ![d] = n - 1]
    /\ resting' = resting \ {d}
    /\ pending' = pending \cup {d}
    /\ deliveryQueue' = InsertBack(d)
    /\ dispatcher' = "assign"
    /\ todo' = todo \ {d}
    /\ UNCHANGED <<table, flagVars, count, threads, lockVars>>

\* As many delivery threads are counted as there may be.
AllCounted == count >= Cardinality(DeliveryThreads)

NoThreadNeeded ==
    /\ dispatcher = "assign"
    /\ AllCounted
    /\ dispatcher' = "round"
    /\ UNCHANGED <<queueVars, flagVars, todo, poolVars, lockVars>>

\* allocate_and_awaken wakes an idle thread of the pool.
StartThread(t) ==
    /\ dispatcher = "assign"
    /\ ~AllCounted
    /\ threads[t].at = "idle"
    /\ threads' = [threads EXCEPT ![t].at = "take"]
    /\ count' = count + 1
    /\ dispatcher' = "round"
    /\ UNCHANGED <<queueVars, flagVars, todo, deliveryQueue, lockVars>>

\* Mutant of Uncounted: the count is not taken back.
StillCounted == count' = count + 1

\* _deliveryThreadsRunningCount++ and, on failure, --.
Uncounted == count' = count

\* allocate_and_awaken fails: every thread of the pool is busy, or the thread
\* cannot be created.  The indication stays on _deliveryQueue.
StartFails ==
    /\ dispatcher = "assign"
    /\ ~AllCounted
    /\ CreationMayFail \/ \A t \in DeliveryThreads : threads[t].at # "idle"
    /\ Uncounted
    /\ dispatcher' = "round"
    /\ UNCHANGED <<queueVars, flagVars, todo, deliveryQueue, threads, lockVars>>

EndRound ==
    /\ dispatcher = "round" /\ todo = {}
    /\ dispatcher' = "waiting"
    /\ UNCHANGED <<queueVars, flagVars, todo, poolVars, lockVars>>
-----------------------------------------------------------------------------
\* _deliveryRoutine: remove_front.
Take(t) ==
    /\ threads[t].at = "take"
    /\ IF deliveryQueue = <<>>
       THEN /\ threads' = [threads EXCEPT ![t].at = "leave"]
            /\ UNCHANGED deliveryQueue
       ELSE /\ threads' = [threads EXCEPT ![t] =
                             [at |-> "deliver", dest |-> Head(deliveryQueue)]]
            /\ deliveryQueue' = Tail(deliveryQueue)
    /\ UNCHANGED <<queueVars, flagVars, roundVars, count, lockVars>>

TakeNext(t) ==
    threads' = [threads EXCEPT ![t] = [at |-> "take", dest |-> NoDestination]]

\* Mutant of NoLongerPending: the status is left PENDING.
StillPending(d) == pending' = pending

NoLongerPending(d) == pending' = pending \ {d}

\* _deliverIndication: the indication was delivered, or it was given up.
DeliveryEnds(t) ==
    /\ threads[t].at = "deliver"
    /\ NoLongerPending(threads[t].dest)
    /\ TakeNext(t)
    /\ UNCHANGED <<table, kept, resting, flagVars, roundVars, deliveryQueue,
                   count, lockVars>>

\* _deliverIndication: it failed, and is at the front of its queue again.
DeliveryFails(t) ==
    LET d == threads[t].dest
    IN  /\ threads[t].at = "deliver"
        /\ kept[d] < MaxKept
        /\ kept' = [kept EXCEPT ![d] = @ + 1]
        /\ resting' = resting \cup {d}
        /\ NoLongerPending(d)
        /\ TakeNext(t)
        /\ UNCHANGED <<table, flagVars, roundVars, deliveryQueue, count, lockVars>>

\* The queue was empty: the thread leaves, and is then idle in the pool again.
Leave(t) ==
    /\ threads[t].at = "leave"
    /\ threads' = [threads EXCEPT ![t].at = "return"]
    /\ count' = count - 1
    /\ UNCHANGED <<queueVars, flagVars, roundVars, deliveryQueue, lockVars>>

Return(t) ==
    /\ threads[t].at = "return"
    /\ threads' = [threads EXCEPT ![t].at = "idle"]
    /\ UNCHANGED <<queueVars, flagVars, roundVars, deliveryQueue, count, lockVars>>

RetryIntervalOver(d) ==
    /\ d \in resting
    /\ resting' = resting \ {d}
    /\ UNCHANGED <<table, kept, pending, flagVars, roundVars, poolVars, lockVars>>
-----------------------------------------------------------------------------
ServiceStep(r) ==
    \/ \E d \in Destinations :
          \/ EnqueueExisting(r, d)
          \/ QueueMissing(r, d)
          \/ CreateAndEnqueue(r, d)
          \/ DeleteMatched(r, d)
          \/ DeleteQueue(r, d)
    \/ MarkCleanup(r)
    \/ DirectDelivered(r)
    \/ LockForWrite(r)
    \/ Unlock(r)
    \/ EndStop(r)

DispatcherStep ==
    \/ Wake
    \/ BeginRound
    \/ \E d \in Destinations : VisitNone(d) \/ VisitDispatch(d)
    \/ NoThreadNeeded
    \/ \E t \in DeliveryThreads : StartThread(t)
    \/ StartFails
    \/ EndRound

DeliveryStep(t) ==
    \/ Take(t)
    \/ DeliveryEnds(t)
    \/ DeliveryFails(t)
    \/ Leave(t)
    \/ Return(t)

\* What arrives from outside, at any time or never.
Arrival(r) ==
    \/ \E d \in Destinations :
          \/ HandleReliable(r, d)
          \/ \E op \in {"subscription", "listener"} : BeginNotActive(r, d, op)
    \/ HandleDirect(r)
    \/ BeginStop(r)
    \/ Destroy(r)

Next ==
    \/ \E r \in Requests : Arrival(r) \/ ServiceStep(r)
    \/ DispatcherStep
    \/ \E t \in DeliveryThreads : DeliveryStep(t)
    \/ \E d \in Destinations : RetryIntervalOver(d)
    \/ SetReliable

Spec == Init /\ [][Next]_vars

\* Every thread that can go on does; a delivery attempt ends (the connection
\* has a timeout); the read-write lock starves nobody who waits for it; and a
\* retry interval ends.
Fairness ==
    /\ \A r \in Requests : WF_vars(ServiceStep(r)) /\ SF_vars(LockForWrite(r))
    /\ \A r \in Requests : \A d \in Destinations : SF_vars(CreateAndEnqueue(r, d))
    /\ WF_vars(DispatcherStep) /\ SF_vars(BeginRound)
    /\ \A t \in DeliveryThreads : WF_vars(DeliveryStep(t))
    /\ \A d \in Destinations : WF_vars(RetryIntervalOver(d))

FairSpec == Spec /\ Fairness
-----------------------------------------------------------------------------
\* The types of the members of IndicationHandlerService and its threads.
TypeOK ==
    /\ table \in SUBSET Destinations
    /\ kept \in [Destinations -> 0..MaxKept]
    /\ resting \in SUBSET Destinations
    /\ pending \in SUBSET Destinations
    /\ reliable \in BOOLEAN
    /\ needCleanup \in BOOLEAN
    /\ writer \in Requests \cup {NoRequest}
    /\ dispatcher \in {"waiting", "locking", "round", "assign", "stopped"}
    /\ todo \in SUBSET Destinations
    /\ deliveryQueue \in Seq(Destinations)
    /\ count \in Nat
    /\ threads \in [DeliveryThreads ->
                        [at: {"idle", "take", "deliver", "leave", "return"},
                         dest: Destinations \cup {NoDestination}]]
    /\ requests \in [Requests ->
                        [at: {"idle", "enqueue", "create", "mark", "direct",
                              "lock", "locked", "stopping"},
                         op: {"none", "enqueue", "direct", "subscription",
                              "listener", "cleanup", "stop"},
                         todo: SUBSET Destinations]]
    /\ stop \in {"no", "service", "destructor"}

Delivering == {t \in DeliveryThreads : threads[t].at = "deliver"}

Queued == {i \in DOMAIN deliveryQueue : TRUE}

\* Destinations with an indication handed out and not reported on yet.
Out == {deliveryQueue[i] : i \in Queued} \cup {threads[t].dest : t \in Delivering}

\* Delivery threads hold an IndicationInfo that points to its queue: no request
\* deletes a queue from under them.
QueueOutlivesDelivery == Out \subseteq table

\* The status is PENDING exactly while an indication of the queue is handed
\* out; a status left PENDING blocks the queue and whoever waits for it.
PendingIsOut == pending = Out

\* At most one indication of a destination is handed out, over all threads.
OneDeliveryPerDestination ==
    Cardinality(Out) = Len(deliveryQueue) + Cardinality(Delivering)

\* _deliveryThreadsRunningCount counts the threads that may still take an
\* indication or have yet to leave: it does not drift after failed starts.
CountExact ==
    count = Cardinality({t \in DeliveryThreads :
                            threads[t].at \in {"take", "deliver", "leave"}})

\* Queues left from the time of reliable indications are always going to be
\* cleaned up: the flag is set, about to be set, or its cleanup is under way.
CleanupIsDue ==
    table # {} =>
        \/ needCleanup
        \/ \E r \in Requests :
              At(r, "mark") \/ (At(r, "locked") /\ requests[r].op = "cleanup")

OnQueue(d) == \E i \in Queued : deliveryQueue[i] = d

NoneRunning == \A t \in DeliveryThreads : threads[t].at = "idle"

\* _deliveryQueue is not empty, and neither a delivery thread nor the dispatcher
\* is about to do something about it.  The code reaches this state: the threads
\* found the queue empty and left (_deliveryRoutine) after the dispatcher had
\* counted them and so started none.
Stranded == deliveryQueue # <<>> /\ NoneRunning /\ dispatcher # "assign"

\* Every request is answered: none waits for a lock or for the dispatcher for
\* ever, and none for a delivery, unless the indication it waits for is stranded.
RequestAnswered ==
    \A r \in Requests : ~At(r, "idle") ~> At(r, "idle") \/ Stranded

\* An indication put on _deliveryQueue is taken by a delivery thread, or is
\* stranded; a stranded one is taken after the next indication, of another
\* destination, is dispatched.
DispatchedIsTried ==
    \A d \in Destinations :
        /\ OnQueue(d) ~> ~OnQueue(d) \/ Stranded
        /\ OnQueue(d) /\ NoneRunning /\ dispatcher = "assign" ~> ~OnQueue(d)
=============================================================================
