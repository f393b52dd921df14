------------------------- MODULE DestinationQueue -------------------------
(***************************************************************************)
(* The queue of indications kept for one listener destination              *)
(* (HandlerService/DestinationQueue.cpp), with its callers: the threads    *)
(* that enqueue indications, the dispatcher that asks for the next one,    *)
(* the delivery thread that reports how a delivery ended, and the requests *)
(* that discard indications.  Every method holds _queueMutex throughout,   *)
(* so a method is one action; a request that waits for a non-PENDING       *)
(* status and works under the service's table WriteLock is two.            *)
(*                                                                         *)
(* Time is a count of abstract ticks.  System::getCurrentTimeUsec is       *)
(* assumed not to run backwards; lastDeliveryRetryTimeUsec = 0 means       *)
(* "never tried", so the clock starts well above 0.                        *)
(***************************************************************************)
EXTENDS Integers, Sequences, FiniteSets

CONSTANTS
    Subscriptions,      \* subscriptions that send to this destination
    RetryAttempts,      \* values given to maxIndicationDeliveryRetryAttempts
    RetryIntervals,     \* values given to minIndicationDeliveryRetryInterval
    DefaultAttempts,    \* _maxDeliveryRetryAttempts at startup (3)
    DefaultInterval,    \* _minDeliveryRetryIntervalUsec at startup (20 s)
    LifetimeFactor,     \* lifetime = attempts * interval * this (10)
    RemovalInterval,    \* _minSubscriptionRemovalTimeIntervalUsec
    MinQueueSize,       \* least computed queue size (200)
    MaxQueueSize,       \* initial and greatest queue size (2400)
    UShort,             \* 2^16: number of values of a Uint16
    StartTime,          \* the clock when the server starts
    MaxTime,            \* bound: the clock stops here
    MaxArrivals         \* bound: indications accepted in one behaviour

ASSUME RetryAssumption ==
    /\ RetryAttempts \subseteq Nat
    /\ RetryIntervals \subseteq Nat
    /\ DefaultAttempts \in Nat
    /\ DefaultInterval \in Nat \ {0}
    /\ LifetimeFactor \in Nat \ {0}
    /\ RemovalInterval \in Nat

ASSUME SizeAssumption ==
    /\ MinQueueSize \in Nat \ {0}
    /\ MaxQueueSize \in Nat
    /\ MinQueueSize <= MaxQueueSize
    /\ UShort \in Nat \ {0}
    /\ MaxArrivals \in Nat

ASSUME TimeAssumption ==
    /\ StartTime \in Nat \ {0}
    /\ MaxTime \in Nat

VARIABLES
    exists,             \* the queue is in _destinationQueueTable
    queue,              \* _queue, front first
    status,             \* _lastDeliveryRetryStatus
    inFlight,           \* infos handed out by getNextIndicationForDelivery
    connection,         \* _connection # 0
    sequenceNumber,     \* _sequenceNumber
    calcMaxQueueSize,   \* _calcMaxQueueSize
    maxQueueSize,       \* _maxIndicationDeliveryQueueSize
    creationTime,       \* _queueCreationTimeUsec
    lastSuccess,        \* _lastSuccessfulDeliveryTimeUsec
    dropped,            \* the four drop counters
    maxAttempts,        \* _maxDeliveryRetryAttempts
    minInterval,        \* _minDeliveryRetryIntervalUsec
    control,            \* request holding the table WriteLock, if any
    listenerTime,       \* creation time of the listener (the context varies with it)
    fatalErrors,        \* subscriptions reported to the indication service
    now,                \* System::getCurrentTimeUsec()
    timeNow,            \* timeNowUsec, read by the dispatcher for its round
    arrivals,           \* history: indications accepted so far
    delivered,          \* history: indications delivered since creation
    lastAttempted       \* history: ordinal of the last one put on the wire

queueVars   == <<queue, status, inFlight, connection>>
sizeVars    == <<sequenceNumber, calcMaxQueueSize, maxQueueSize, creationTime>>
statVars    == <<lastSuccess, dropped, fatalErrors, delivered>>
configVars  == <<maxAttempts, minInterval>>
tableVars   == <<exists, control, listenerTime>>
clockVars   == <<now, timeNow>>
historyVars == <<arrivals, lastAttempted>>

vars == <<queueVars, sizeVars, statVars, configVars, tableVars, clockVars,
          historyVars>>
-----------------------------------------------------------------------------
\* IndicationInfo.  "id" is the arrival ordinal of the indication, which the
\* code does not keep: it names the indication in the properties.
Info == [id: Nat, sub: Subscriptions, context: Nat, number: Nat,
         arrival: Nat, lastRetry: Nat, attempts: Nat]

Statuses == {"PENDING", "FAIL", "SUCCESS"}

Reasons == {"DESTINATIONQUEUE_FULL", "SIL_EXPIRED", "DRA_EXCEEDED",
            "SUBSCRIPTION_NOT_ACTIVE"}

NoDrops == [r \in Reasons |-> 0]

\* What a thread holding the table WriteLock is doing: discarding the
\* indications of a subscription, removing the queue of a deleted listener,
\* or removing all queues because reliable indications were disabled.
NoControl       == [kind |-> "none"]
SubscriptionNotActive(s) == [kind |-> "subscription", sub |-> s]
ListenerNotActive == [kind |-> "listener"]
QueuesCleanup   == [kind |-> "disabled"]

Controls == {NoControl, ListenerNotActive, QueuesCleanup}
              \cup {SubscriptionNotActive(s) : s \in Subscriptions}

Lifetime == maxAttempts * minInterval * LifetimeFactor

\* Mutant of DropBy: one drop counted however many indications are dropped.
DropOnce(r, n) == dropped' = [dropped EXCEPT ![r] = IF n > 0 THEN @ + 1 ELSE @]

DropBy(r, n) == dropped' = [dropped EXCEPT ![r] = @ + n]
-----------------------------------------------------------------------------
Init ==
    /\ exists = FALSE
    /\ queue = <<>>
    /\ status = "FAIL"
    /\ inFlight = {}
    /\ connection = FALSE
    /\ sequenceNumber = 0
    /\ calcMaxQueueSize = TRUE
    /\ maxQueueSize = MaxQueueSize
    /\ creationTime = StartTime
    /\ lastSuccess = StartTime
    /\ dropped = NoDrops
    /\ maxAttempts = DefaultAttempts
    /\ minInterval = DefaultInterval
    /\ control = NoControl
    /\ listenerTime = 0
    /\ fatalErrors = {}
    /\ now = StartTime
    /\ timeNow = StartTime
    /\ arrivals = 0
    /\ delivered = 0
    /\ lastAttempted = 0

\* getSequenceNumber: once the queue is older than the lifetime, its size is
\* fixed by how many indications arrived, within 200 .. 2400.
Clamp(n) == IF n < MinQueueSize THEN MinQueueSize
            ELSE IF n > MaxQueueSize THEN MaxQueueSize ELSE n

\* Mutant of SizeAfter: the bounds are forgotten.
SizeUnbounded(number, calc, size, created) ==
    IF calc /\ now - created >= Lifetime THEN number + 1 ELSE size

SizeAfter(number, calc, size, created) ==
    IF calc /\ now - created >= Lifetime THEN Clamp(number) ELSE size

\* enqueue, on a queue with this next number, size and creation time.
Enqueue(s, number, calc, size, created, drops) ==
    LET bound == SizeAfter(number, calc, size, created)
        info  == [id |-> arrivals + 1, sub |-> s, context |-> listenerTime,
                  number |-> number, arrival |-> now, lastRetry |-> 0,
                  attempts |-> 0]
        full  == Len(queue) + 1 > bound
    IN  /\ queue' = IF full THEN Append(Tail(queue), info)
                            ELSE Append(queue, info)
        /\ dropped' = IF full
                      THEN [drops EXCEPT !["DESTINATIONQUEUE_FULL"] = @ + 1]
                      ELSE drops
        /\ sequenceNumber' = number + 1
        /\ calcMaxQueueSize' = (calc /\ now - created < Lifetime)
        /\ maxQueueSize' = bound
        /\ arrivals' = arrivals + 1

\* _setSequenceIdentifierAndEnqueue when the table has the queue.  Its caller
\* tested _maxDeliveryRetry before, without a lock: it may be 0 by now.
EnqueueExisting(s) ==
    /\ arrivals < MaxArrivals
    /\ control = NoControl
    /\ exists
    /\ Enqueue(s, sequenceNumber, calcMaxQueueSize, maxQueueSize,
               creationTime, dropped)
    /\ UNCHANGED <<exists, status, inFlight, connection, creationTime,
                   lastSuccess, fatalErrors, delivered, configVars, control,
                   listenerTime, clockVars, lastAttempted>>

\* _setSequenceIdentifierAndEnqueue when it must create the queue first.
CreateAndEnqueue(s) ==
    /\ arrivals < MaxArrivals
    /\ control = NoControl
    /\ ~exists
    /\ exists' = TRUE
    /\ status' = "FAIL"
    /\ connection' = FALSE
    /\ creationTime' = now
    /\ lastSuccess' = now
    /\ delivered' = 0
    /\ Enqueue(s, 0, TRUE, MaxQueueSize, now, NoDrops)
    /\ UNCHANGED <<inFlight, fatalErrors, configVars, control, listenerTime,
                   clockVars, lastAttempted>>
-----------------------------------------------------------------------------
\* The dispatcher reads the clock once for a round over all the queues.
ReadClock ==
    /\ timeNow' = now
    /\ timeNow # now
    /\ UNCHANGED <<queueVars, sizeVars, statVars, configVars, tableVars, now,
                   historyVars>>

\* The dispatcher's time when it has reached the k-th indication: it reads
\* the clock again when its own reading is older than the indication.
TimeAt(k) ==
    IF \E j \in 1..k : timeNow < queue[j].arrival \/ timeNow < queue[j].lastRetry
    THEN now ELSE timeNow

Expired(k) == TimeAt(k) - queue[k].arrival >= Lifetime

Due(k) == TimeAt(k) - queue[k].lastRetry >= minInterval

\* The first k indications, and no others, are dropped as expired.
ExpiredPrefix(k) ==
    /\ \A j \in 1..k : Expired(j)
    /\ k < Len(queue) => ~Expired(k + 1)

\* DeliveryRetryAttempts that went by while the indication was waiting.
ElapsedAttempts(info, t) ==
    (t - (IF info.lastRetry # 0 THEN info.lastRetry ELSE info.arrival))
        \div minInterval

\* Mutant of AttemptsAtDispatch: the attempt about to start is counted too.
AttemptsElapsed(info, t) == (info.attempts + ElapsedAttempts(info, t)) % UShort

\* The attempt about to start is not counted: its failure will be.
AttemptsAtDispatch(info, t) ==
    IF ElapsedAttempts(info, t) = 0 THEN info.attempts
    ELSE (info.attempts + ElapsedAttempts(info, t) - 1) % UShort

Deliverable == queue # <<>> /\ status # "PENDING"

Idle == queue = <<>> /\ status # "PENDING"

\* getNextIndicationForDelivery, nothing to look at: an idle connection is
\* closed when the queue is empty.
GetNextNone ==
    /\ control = NoControl
    /\ exists
    /\ ~Deliverable
    /\ connection' = (connection /\ ~Idle)
    /\ UNCHANGED <<queue, status, inFlight, sizeVars, statVars, configVars,
                   tableVars, clockVars, historyVars>>

\* getNextIndicationForDelivery, after dropping k expired indications: the
\* rest is empty or its front must still wait.
GetNextWait(k) ==
    /\ control = NoControl
    /\ exists
    /\ Deliverable
    /\ ExpiredPrefix(k)
    /\ k < Len(queue) => ~Due(k + 1)
    /\ queue' = SubSeq(queue, k + 1, Len(queue))
    /\ DropBy("SIL_EXPIRED", k)
    /\ timeNow' = TimeAt(IF k < Len(queue) THEN k + 1 ELSE k)
    /\ UNCHANGED <<status, inFlight, connection, sizeVars, lastSuccess,
                   fatalErrors, delivered, configVars, tableVars, now,
                   historyVars>>

\* getNextIndicationForDelivery, after dropping k expired indications: the
\* next one is due and is handed out.
GetNextDeliver(k) ==
    /\ control = NoControl
    /\ exists
    /\ Deliverable
    /\ k < Len(queue)
    /\ ExpiredPrefix(k)
    /\ Due(k + 1)
    /\ LET t    == TimeAt(k + 1)
           info == queue[k + 1]
           out  == [info EXCEPT !.attempts = AttemptsAtDispatch(info, t)]
       IN  /\ timeNow' = t
           /\ inFlight' = inFlight \cup {out}
           /\ lastAttempted' = info.id
    /\ status' = "PENDING"
    /\ queue' = SubSeq(queue, k + 2, Len(queue))
    /\ DropBy("SIL_EXPIRED", k)
    /\ UNCHANGED <<connection, sizeVars, lastSuccess, fatalErrors, delivered,
                   configVars, tableVars, now, arrivals>>
-----------------------------------------------------------------------------
\* _deliverIndication succeeded: the handler may keep its connection open.
UpdateDeliveryRetrySuccess(info) ==
    /\ status' = "SUCCESS"
    /\ inFlight' = inFlight \ {info}
    /\ connection' \in {connection, TRUE}
    /\ lastSuccess' = now
    /\ delivered' = delivered + 1
    /\ UNCHANGED <<queue, sizeVars, dropped, fatalErrors, configVars,
                   tableVars, clockVars, historyVars>>

\* Mutant of PutBack: a retried indication queues up again.
PutLast(info) == Append(queue, info)

\* insert_front: a retried indication stays the oldest.
PutBack(info) == <<info>> \o queue

\* Mutant of NoRoom: one indication too many.
NoRoomLeft == Len(queue) > maxQueueSize

NoRoom == Len(queue) >= maxQueueSize

\* A failed indication goes back to the front, unless it used up its attempts
\* or the queue is full.  The handler has closed its connection.
UpdateDeliveryRetryFailure(info) ==
    LET attempts == (info.attempts + 1) % UShort
        exceeded == attempts >= maxAttempts + 1
        again    == [info EXCEPT !.attempts = attempts, !.lastRetry = now]
    IN  /\ status' = "FAIL"
        /\ inFlight' = inFlight \ {info}
        /\ connection' = FALSE
        /\ fatalErrors' = IF now - lastSuccess >= RemovalInterval
                          THEN fatalErrors \cup {info.sub} ELSE fatalErrors
        /\ queue' = IF exceeded \/ NoRoom THEN queue ELSE PutBack(again)
        /\ dropped' = IF exceeded
                      THEN [dropped EXCEPT !["DRA_EXCEEDED"] = @ + 1]
                      ELSE IF NoRoom
                      THEN [dropped EXCEPT !["DESTINATIONQUEUE_FULL"] = @ + 1]
                      ELSE dropped
        /\ UNCHANGED <<sizeVars, lastSuccess, delivered, configVars,
                       tableVars, clockVars, historyVars>>
-----------------------------------------------------------------------------
\* A request takes the table WriteLock; the queue's methods that run under a
\* ReadLock are shut out until it is done.
BeginControl(c) ==
    /\ control = NoControl
    /\ exists
    /\ c.kind = "disabled" => maxAttempts = 0
    /\ control' = c
    /\ UNCHANGED <<exists, listenerTime, queueVars, sizeVars, statVars,
                   configVars, clockVars, historyVars>>

\* Mutant of NotPending: the request does not wait.
NoWait == TRUE

\* _waitForNonPendingDeliveryStatus has returned.
NotPending == status # "PENDING"

\* kept keeps, in order, the positions of q that do not belong to s.
KeepsOthers(kept, q, s) ==
    /\ \A i, j \in DOMAIN kept : i < j => kept[i] < kept[j]
    /\ {kept[i] : i \in DOMAIN kept} = {i \in DOMAIN q : q[i].sub # s}

\* deleteMatchedIndications rotates the queue once, leaving out the matched.
DeleteMatchedIndications(s) ==
    /\ control = SubscriptionNotActive(s)
    /\ NotPending
    /\ \E m \in 0..Len(queue) : \E kept \in [1..m -> 1..Len(queue)] :
          /\ KeepsOthers(kept, queue, s)
          /\ queue' = [i \in 1..m |-> queue[kept[i]]]
          /\ DropBy("SUBSCRIPTION_NOT_ACTIVE", Len(queue) - m)
    /\ control' = NoControl
    /\ UNCHANGED <<exists, status, inFlight, connection, sizeVars, lastSuccess,
                   fatalErrors, delivered, configVars, listenerTime, clockVars,
                   historyVars>>

\* cleanup and shutdown drain the queue, which its caller then deletes.  The
\* next listener of this name has another creation time.
Cleanup ==
    /\ control \in {ListenerNotActive, QueuesCleanup}
    /\ NotPending
    /\ queue' = <<>>
    /\ connection' = FALSE
    /\ exists' = FALSE
    /\ listenerTime' = IF control = ListenerNotActive THEN listenerTime + 1
                       ELSE listenerTime
    /\ control' = NoControl
    /\ UNCHANGED <<status, inFlight, sizeVars, statVars, configVars, clockVars,
                   historyVars>>
-----------------------------------------------------------------------------
\* _handlePropertyUpdateRequest: the value is cut to a Uint16.
SetDeliveryRetryAttempts(v) ==
    /\ maxAttempts' = v % UShort
    /\ maxAttempts' # maxAttempts
    /\ UNCHANGED <<minInterval, queueVars, sizeVars, statVars, tableVars,
                   clockVars, historyVars>>

SetMinDeliveryRetryInterval(v) ==
    /\ minInterval' = v
    /\ minInterval' # minInterval
    /\ UNCHANGED <<maxAttempts, queueVars, sizeVars, statVars, tableVars,
                   clockVars, historyVars>>

Tick ==
    /\ now < MaxTime
    /\ now' = now + 1
    /\ UNCHANGED <<timeNow, queueVars, sizeVars, statVars, configVars,
                   tableVars, historyVars>>

Next ==
    \/ \E s \in Subscriptions : EnqueueExisting(s)
    \/ \E s \in Subscriptions : CreateAndEnqueue(s)
    \/ ReadClock
    \/ GetNextNone
    \/ \E k \in 0..Len(queue) : GetNextWait(k)
    \/ \E k \in 0..Len(queue) : GetNextDeliver(k)
    \/ \E info \in inFlight : UpdateDeliveryRetrySuccess(info)
    \/ \E info \in inFlight : UpdateDeliveryRetryFailure(info)
    \/ \E c \in Controls \ {NoControl} : BeginControl(c)
    \/ \E s \in Subscriptions : DeleteMatchedIndications(s)
    \/ Cleanup
    \/ \E v \in RetryAttempts : SetDeliveryRetryAttempts(v)
    \/ \E v \in RetryIntervals : SetMinDeliveryRetryInterval(v)
    \/ Tick

Spec == Init /\ [][Next]_vars
-----------------------------------------------------------------------------
\* The types of the members of DestinationQueue, its size bounds included.
TypeOK ==
    /\ exists \in BOOLEAN
    /\ queue \in Seq(Info)
    /\ status \in Statuses
    /\ inFlight \in SUBSET Info
    /\ connection \in BOOLEAN
    /\ sequenceNumber \in Nat
    /\ calcMaxQueueSize \in BOOLEAN
    /\ maxQueueSize \in MinQueueSize..MaxQueueSize
    /\ creationTime \in Nat
    /\ lastSuccess \in Nat
    /\ dropped \in [Reasons -> Nat]
    /\ maxAttempts \in Nat
    /\ minInterval \in Nat
    /\ control \in Controls
    /\ listenerTime \in Nat
    /\ fatalErrors \in SUBSET Subscriptions
    /\ now \in Nat
    /\ timeNow \in Nat
    /\ arrivals \in Nat
    /\ delivered \in Nat
    /\ lastAttempted \in Nat

\* A delivery is outstanding exactly while the status is PENDING, and there is
\* only one: what the assertions of the two update methods rely on.
OnePending ==
    /\ status = "PENDING" <=> inFlight # {}
    /\ \A a, b \in inFlight : a = b

\* The queue is in arrival order and the indication out for delivery is older
\* than all of it, whatever was retried, discarded or filtered in between.
InOrder ==
    /\ \A i, j \in DOMAIN queue : i < j => queue[i].id < queue[j].id
    /\ \A a \in inFlight : \A i \in DOMAIN queue : a.id < queue[i].id

\* The queue never holds more than _maxIndicationDeliveryQueueSize, even when
\* that size shrinks while indications are queued.
QueueBounded == Len(queue) <= maxQueueSize

\* Every indication the queue numbered is queued, out, delivered, or counted
\* in one of the drop statistics that PG_ListenerDestinationQueue reports.
Accounted ==
    exists => sequenceNumber = Len(queue) + Cardinality(inFlight) + delivered
                 + dropped["DESTINATIONQUEUE_FULL"] + dropped["SIL_EXPIRED"]
                 + dropped["DRA_EXCEEDED"] + dropped["SUBSCRIPTION_NOT_ACTIVE"]

\* A queue is deleted only when it is drained and no delivery thread still
\* holds an IndicationInfo that points back to it.
DeletedIdle == ~exists => queue = <<>> /\ inFlight = {}

\* When the request that a subscription is no longer active is answered, none
\* of its indications is queued or about to be delivered.
NoneLeftOf(s) ==
    /\ \A i \in DOMAIN queue' : queue'[i].sub # s
    /\ \A a \in inFlight' : a.sub # s

InactiveIsSilent ==
    [][\A s \in Subscriptions :
          control = SubscriptionNotActive(s) /\ control' = NoControl
              => NoneLeftOf(s)]_vars

\* The listener never sees an indication after a newer one.
WireInOrder == [][lastAttempted' >= lastAttempted]_vars

\* While the interval does not grow, an indication that is out for delivery was
\* charged at most one attempt for each interval since it arrived, and a queued
\* one for each up to its last attempt and one more: it is not given up early.
AttemptsEarned ==
    /\ \A a \in inFlight : a.attempts * minInterval <= now - a.arrival
    /\ \A i \in DOMAIN queue :
          LET info == queue[i]
          IN  IF info.lastRetry = 0 THEN info.attempts = 0
              ELSE info.attempts * minInterval
                      <= info.lastRetry - info.arrival + minInterval
-----------------------------------------------------------------------------
\* The queue implements the channel.
KeptIds == {queue[i].id : i \in DOMAIN queue}

OutIds == {a.id : a \in inFlight}

Pending == KeptIds \cup OutIds

Attempting == IF inFlight = {} THEN 0 ELSE (CHOOSE a \in inFlight : TRUE).id

Channel == INSTANCE IndicationChannel WITH
    accepted   <- arrivals,
    pending    <- Pending,
    attempting <- Attempting

\* Deliveries reach the listener one at a time and oldest first.
ImplementsChannel == Channel!ChannelSpec
=============================================================================
