---------------------- MODULE DestinationQueueProofs ----------------------
(***************************************************************************)
(* Proofs about DestinationQueue, for every set of subscriptions, every    *)
(* configuration and every queue size.                                     *)
(***************************************************************************)
EXTENDS DestinationQueue, FiniteSetTheorems, SequenceTheorems, TLAPS

\* The clock only moves forward, so nothing in the queue is from the future.
Ages ==
    /\ \A i \in DOMAIN queue :
          queue[i].arrival <= now /\ queue[i].lastRetry <= now
    /\ \A a \in inFlight : a.arrival <= now /\ a.lastRetry <= now
    /\ timeNow <= now

TypeInv == TypeOK /\ Ages
-----------------------------------------------------------------------------
\* What the type invariant says of one queued indication.
LEMMA QueuedTyped ==
    ASSUME TypeOK, NEW k \in DOMAIN queue
    PROVE  /\ DOMAIN queue = 1..Len(queue)
           /\ k \in Nat \ {0}
           /\ queue[k] \in Info
           /\ queue[k].arrival \in Nat
           /\ queue[k].lastRetry \in Nat
           /\ queue[k].attempts \in Nat
           /\ queue[k].id \in Nat
<1>1. queue \in Seq(Info)
  BY DEF TypeOK
<1>2. DOMAIN queue = 1..Len(queue) /\ k \in Nat \ {0} /\ queue[k] \in Info
  BY <1>1
<1>3. QED
  BY <1>2 DEF Info

\* The time at which the dispatcher looks at an indication is a reading of the
\* clock not older than the indication.
LEMMA TimeAtReached ==
    ASSUME TypeInv, NEW k \in DOMAIN queue
    PROVE  /\ TimeAt(k) \in Nat
           /\ TimeAt(k) <= now
           /\ queue[k].arrival <= TimeAt(k)
           /\ queue[k].lastRetry <= TimeAt(k)
<1>1. k \in 1..k
  BY QueuedTyped DEF TypeInv
<1>2. now \in Nat /\ timeNow \in Nat /\ timeNow <= now
  BY DEF TypeInv, TypeOK, Ages
<1>3. queue[k].arrival <= now /\ queue[k].lastRetry <= now
  BY DEF TypeInv, Ages
<1>4. QED
  BY <1>1, <1>2, <1>3, QueuedTyped DEF TypeInv, TimeAt

\* The elapsed attempts of an indication that has not expired are never
\* computed with a zero interval.
LEMMA IntervalPositive ==
    ASSUME TypeInv, NEW k \in DOMAIN queue, ~Expired(k)
    PROVE  minInterval \in Nat \ {0}
<1>1. TimeAt(k) - queue[k].arrival >= 0
  BY TimeAtReached, QueuedTyped DEF TypeInv
<1>2. Lifetime # 0
  BY <1>1 DEF Expired
<1>3. maxAttempts \in Nat /\ minInterval \in Nat
  BY DEF TypeInv, TypeOK
<1>4. minInterval = 0 => Lifetime = 0
  BY <1>3, RetryAssumption, SMT DEF Lifetime
<1>5. QED
  BY <1>2, <1>3, <1>4

\* A dispatched indication has a well-typed count of attempts.
LEMMA DispatchTyped ==
    ASSUME TypeInv, NEW k \in DOMAIN queue, ~Expired(k)
    PROVE  AttemptsAtDispatch(queue[k], TimeAt(k)) \in Nat
<1> DEFINE info == queue[k]
           since == IF info.lastRetry # 0 THEN info.lastRetry ELSE info.arrival
<1>1. TimeAt(k) - since \in Nat
  BY TimeAtReached, QueuedTyped DEF TypeInv
<1>2. ElapsedAttempts(info, TimeAt(k)) \in Nat
  BY <1>1, IntervalPositive DEF ElapsedAttempts
<1>3. info.attempts \in Nat
  BY QueuedTyped DEF TypeInv
<1>4. UShort \in Nat \ {0}
  BY SizeAssumption
<1>5. QED
  BY <1>2, <1>3, <1>4 DEF AttemptsAtDispatch
-----------------------------------------------------------------------------
\* The initial state is well typed.
LEMMA InitTyped == Init => TypeInv
<1> SUFFICES ASSUME Init PROVE TypeInv
  OBVIOUS
<1>1. TypeOK
  <2>1. control \in Controls /\ dropped \in [Reasons -> Nat]
    BY DEF Init, Controls, NoDrops
  <2>2. maxQueueSize \in MinQueueSize..MaxQueueSize
    BY SizeAssumption DEF Init
  <2>3. /\ StartTime \in Nat
        /\ maxAttempts \in Nat
        /\ minInterval \in Nat
    BY RetryAssumption, TimeAssumption DEF Init
  <2>4. queue \in Seq(Info) /\ inFlight \in SUBSET Info
    BY DEF Init
  <2>6. exists \in BOOLEAN /\ connection \in BOOLEAN /\ calcMaxQueueSize \in BOOLEAN
    BY DEF Init
  <2>7. /\ status \in Statuses
        /\ fatalErrors \in SUBSET Subscriptions
    BY DEF Init, Statuses
  <2>8. /\ sequenceNumber \in Nat /\ creationTime \in Nat /\ lastSuccess \in Nat
        /\ listenerTime \in Nat /\ now \in Nat /\ timeNow \in Nat
        /\ arrivals \in Nat /\ delivered \in Nat /\ lastAttempted \in Nat
    BY <2>3 DEF Init
  <2>9. QED
    BY <2>1, <2>2, <2>3, <2>4, <2>6, <2>7, <2>8 DEF TypeOK
<1>2. Ages
  BY TimeAssumption DEF Init, Ages
<1>3. QED
  BY <1>1, <1>2 DEF TypeInv

\* The queue after an enqueue: the new indication at the back and, if it was
\* full, the front one gone.
LEMMA EnqueueTyped ==
    ASSUME TypeInv, NEW s \in Subscriptions,
           NEW number \in Nat, NEW calc \in BOOLEAN,
           NEW size \in MinQueueSize..MaxQueueSize, NEW created \in Nat,
           NEW drops \in [Reasons -> Nat],
           Enqueue(s, number, calc, size, created, drops)
    PROVE  /\ queue' \in Seq(Info)
           /\ dropped' \in [Reasons -> Nat]
           /\ sequenceNumber' \in Nat
           /\ calcMaxQueueSize' \in BOOLEAN
           /\ maxQueueSize' \in MinQueueSize..MaxQueueSize
           /\ arrivals' \in Nat
           /\ \A i \in DOMAIN queue' :
                 queue'[i].arrival <= now /\ queue'[i].lastRetry <= now
<1> DEFINE bound == SizeAfter(number, calc, size, created)
           info  == [id |-> arrivals + 1, sub |-> s, context |-> listenerTime,
                     number |-> number, arrival |-> now, lastRetry |-> 0,
                     attempts |-> 0]
           full  == Len(queue) + 1 > bound
<1>1. info \in Info /\ info.arrival = now /\ info.lastRetry = 0
  BY DEF TypeInv, TypeOK, Info
<1>2. bound \in MinQueueSize..MaxQueueSize
  BY SizeAssumption DEF SizeAfter, Clamp
<1>3. queue \in Seq(Info) /\ now \in Nat
  BY DEF TypeInv, TypeOK
<1>4. full => queue # <<>>
  BY <1>2, <1>3, SizeAssumption
<1>5. queue' = IF full THEN Append(Tail(queue), info) ELSE Append(queue, info)
  BY DEF Enqueue
<1>6. queue' \in Seq(Info)
  BY <1>1, <1>3, <1>4, <1>5
<1>7. \A i \in DOMAIN queue' :
         queue'[i] = info \/ \E j \in DOMAIN queue : queue'[i] = queue[j]
  <2>1. CASE full
    BY <2>1, <1>1, <1>3, <1>4, <1>5
  <2>2. CASE ~full
    BY <2>2, <1>1, <1>3, <1>5
  <2>3. QED
    BY <2>1, <2>2
<1>8. \A i \in DOMAIN queue' :
         queue'[i].arrival <= now /\ queue'[i].lastRetry <= now
  BY <1>1, <1>3, <1>7 DEF TypeInv, Ages
<1>9. dropped' \in [Reasons -> Nat]
  BY DEF Enqueue, Reasons
<1>10. /\ sequenceNumber' \in Nat
       /\ calcMaxQueueSize' \in BOOLEAN
       /\ arrivals' \in Nat
  BY DEF Enqueue, TypeInv, TypeOK
<1>11. maxQueueSize' \in MinQueueSize..MaxQueueSize
  BY <1>2 DEF Enqueue
<1>12. QED
  BY <1>6, <1>8, <1>9, <1>10, <1>11

\* Dropping the first k elements of a sequence.
LEMMA Suffix ==
    ASSUME NEW S, NEW q \in Seq(S), NEW k \in 0..Len(q)
    PROVE  /\ SubSeq(q, k + 1, Len(q)) \in Seq(S)
           /\ DOMAIN SubSeq(q, k + 1, Len(q)) = 1..(Len(q) - k)
           /\ Len(SubSeq(q, k + 1, Len(q))) = Len(q) - k
           /\ \A i \in 1..(Len(q) - k) :
                 i + k \in DOMAIN q /\ SubSeq(q, k + 1, Len(q))[i] = q[i + k]
OBVIOUS

\* Putting an element in front of a sequence.
LEMMA Front ==
    ASSUME NEW S, NEW q \in Seq(S), NEW e \in S
    PROVE  /\ <<e>> \o q \in Seq(S)
           /\ Len(<<e>> \o q) = Len(q) + 1
           /\ DOMAIN (<<e>> \o q) = 1..(Len(q) + 1)
           /\ (<<e>> \o q)[1] = e
           /\ \A i \in 2..(Len(q) + 1) :
                 i - 1 \in DOMAIN q /\ (<<e>> \o q)[i] = q[i - 1]
OBVIOUS

\* Every step keeps the types and the order of times.
LEMMA StepTyped ==
    ASSUME TypeInv, [Next]_vars
    PROVE  TypeInv'
<1> USE DEF queueVars, sizeVars, statVars, configVars, tableVars, clockVars,
            historyVars
<1>1. ASSUME NEW s \in Subscriptions, EnqueueExisting(s)
      PROVE  TypeInv'
  <2>1. /\ queue' \in Seq(Info)
        /\ dropped' \in [Reasons -> Nat]
        /\ sequenceNumber' \in Nat
        /\ calcMaxQueueSize' \in BOOLEAN
        /\ maxQueueSize' \in MinQueueSize..MaxQueueSize
        /\ arrivals' \in Nat
        /\ \A i \in DOMAIN queue' :
              queue'[i].arrival <= now /\ queue'[i].lastRetry <= now
    BY <1>1, EnqueueTyped DEF EnqueueExisting, TypeInv, TypeOK
  <2>2. TypeOK'
    BY <1>1, <2>1 DEF EnqueueExisting, TypeInv, TypeOK
  <2>3. Ages'
    BY <1>1, <2>1 DEF EnqueueExisting, TypeInv, Ages
  <2>4. QED
    BY <2>2, <2>3 DEF TypeInv
<1>2. ASSUME NEW s \in Subscriptions, CreateAndEnqueue(s)
      PROVE  TypeInv'
  <2>1. NoDrops \in [Reasons -> Nat] /\ MaxQueueSize \in MinQueueSize..MaxQueueSize
    BY SizeAssumption DEF NoDrops
  <2>2. /\ queue' \in Seq(Info)
        /\ dropped' \in [Reasons -> Nat]
        /\ sequenceNumber' \in Nat
        /\ calcMaxQueueSize' \in BOOLEAN
        /\ maxQueueSize' \in MinQueueSize..MaxQueueSize
        /\ arrivals' \in Nat
        /\ \A i \in DOMAIN queue' :
              queue'[i].arrival <= now /\ queue'[i].lastRetry <= now
    BY <1>2, <2>1, EnqueueTyped DEF CreateAndEnqueue, TypeInv, TypeOK
  <2>3. TypeOK'
    BY <1>2, <2>2 DEF CreateAndEnqueue, TypeInv, TypeOK, Statuses
  <2>4. Ages'
    BY <1>2, <2>2 DEF CreateAndEnqueue, TypeInv, Ages
  <2>5. QED
    BY <2>3, <2>4 DEF TypeInv
<1>3. CASE ReadClock
  BY <1>3 DEF ReadClock, TypeInv, TypeOK, Ages
<1>4. CASE GetNextNone
  <2>1. connection' \in BOOLEAN
    BY <1>4 DEF GetNextNone
  <2>2. TypeOK'
    BY <1>4, <2>1 DEF GetNextNone, TypeInv, TypeOK
  <2>3. Ages'
    BY <1>4 DEF GetNextNone, TypeInv, Ages
  <2>4. QED
    BY <2>2, <2>3 DEF TypeInv
<1>5. ASSUME NEW k \in 0..Len(queue), GetNextWait(k)
      PROVE  TypeInv'
  <2>1. queue \in Seq(Info) /\ k \in Nat /\ dropped \in [Reasons -> Nat]
    BY DEF TypeInv, TypeOK
  <2>2. /\ queue' \in Seq(Info)
        /\ \A i \in DOMAIN queue' : \E j \in DOMAIN queue : queue'[i] = queue[j]
    BY <1>5, <2>1, Suffix DEF GetNextWait
  <2>3. (IF k < Len(queue) THEN k + 1 ELSE k) \in DOMAIN queue
    BY <1>5, <2>1 DEF GetNextWait, Deliverable
  <2>4. timeNow' \in Nat /\ timeNow' <= now
    BY <1>5, <2>3, TimeAtReached DEF GetNextWait
  <2>5. dropped' \in [Reasons -> Nat]
    BY <1>5, <2>1 DEF GetNextWait, DropBy, Reasons
  <2>6. TypeOK'
    BY <1>5, <2>2, <2>4, <2>5 DEF GetNextWait, TypeInv, TypeOK
  <2>7. Ages'
    BY <1>5, <2>2, <2>4 DEF GetNextWait, TypeInv, Ages
  <2>8. QED
    BY <2>6, <2>7 DEF TypeInv
<1>6. ASSUME NEW k \in 0..Len(queue), GetNextDeliver(k)
      PROVE  TypeInv'
  <2> DEFINE info == queue[k + 1]
             t    == TimeAt(k + 1)
             out  == [info EXCEPT !.attempts = AttemptsAtDispatch(info, t)]
  <2>1. queue \in Seq(Info) /\ k \in Nat /\ dropped \in [Reasons -> Nat]
    BY DEF TypeInv, TypeOK
  <2>2. k + 1 \in DOMAIN queue /\ ~Expired(k + 1)
    BY <1>6, <2>1 DEF GetNextDeliver, ExpiredPrefix
  <2>3. /\ queue' \in Seq(Info)
        /\ \A i \in DOMAIN queue' : \E j \in DOMAIN queue : queue'[i] = queue[j]
    <3>1. k < Len(queue) /\ queue' = SubSeq(queue, k + 2, Len(queue))
      BY <1>6 DEF GetNextDeliver
    <3>2. (k + 1) + 1 = k + 2 /\ k + 1 \in 0..Len(queue)
      BY <2>1, <3>1
    <3>3. queue' = SubSeq(queue, (k + 1) + 1, Len(queue))
      BY <3>1, <3>2
    <3> DEFINE rest == SubSeq(queue, (k + 1) + 1, Len(queue))
    <3>4. /\ rest \in Seq(Info)
          /\ DOMAIN rest = 1..(Len(queue) - (k + 1))
          /\ \A i \in 1..(Len(queue) - (k + 1)) :
                i + (k + 1) \in DOMAIN queue /\ rest[i] = queue[i + (k + 1)]
      BY <2>1, <3>2, Suffix
    <3>5. queue' = rest
      BY <3>3
    <3>6. QED
      <4> HIDE DEF rest
      <4> QED BY <3>4, <3>5
  <2>4. t \in Nat /\ t <= now
    BY <2>2, TimeAtReached
  <2>5. dropped' \in [Reasons -> Nat]
    BY <1>6, <2>1 DEF GetNextDeliver, DropBy, Reasons
  <2>6. info \in Info /\ AttemptsAtDispatch(info, t) \in Nat
    BY <2>2, DispatchTyped, QueuedTyped DEF TypeInv
  <2>7. out \in Info /\ out.arrival = info.arrival /\ out.lastRetry = info.lastRetry
    BY <2>6 DEF Info
  <2>8. info.arrival <= now /\ info.lastRetry <= now
    BY <2>2 DEF TypeInv, Ages
  <2>9. inFlight' = inFlight \cup {out} /\ lastAttempted' = info.id /\ timeNow' = t
    BY <1>6 DEF GetNextDeliver
  <2>10. inFlight' \in SUBSET Info /\ lastAttempted' \in Nat
    BY <2>6, <2>7, <2>9 DEF TypeInv, TypeOK, Info
  <2>11. TypeOK'
    BY <1>6, <2>3, <2>4, <2>5, <2>9, <2>10
    DEF GetNextDeliver, TypeInv, TypeOK, Statuses
  <2>12. Ages'
    BY <1>6, <2>3, <2>4, <2>7, <2>8, <2>9 DEF GetNextDeliver, TypeInv, Ages
  <2>13. QED
    BY <2>11, <2>12 DEF TypeInv
<1>7. ASSUME NEW info \in inFlight, UpdateDeliveryRetrySuccess(info)
      PROVE  TypeInv'
  <2>1. connection' \in BOOLEAN
    BY <1>7 DEF UpdateDeliveryRetrySuccess, TypeInv, TypeOK
  <2>2. TypeOK'
    BY <1>7, <2>1 DEF UpdateDeliveryRetrySuccess, TypeInv, TypeOK, Statuses
  <2>3. Ages'
    BY <1>7 DEF UpdateDeliveryRetrySuccess, TypeInv, Ages
  <2>4. QED
    BY <2>2, <2>3 DEF TypeInv
<1>8. ASSUME NEW info \in inFlight, UpdateDeliveryRetryFailure(info)
      PROVE  TypeInv'
  <2> DEFINE attempts == (info.attempts + 1) % UShort
             again == [info EXCEPT !.attempts = attempts, !.lastRetry = now]
  <2>1. info \in Info /\ now \in Nat /\ queue \in Seq(Info)
    BY DEF TypeInv, TypeOK
  <2>2. attempts \in Nat
    BY <2>1, SizeAssumption DEF Info
  <2>3. again \in Info /\ again.arrival = info.arrival /\ again.lastRetry = now
    BY <2>1, <2>2 DEF Info
  <2>4. queue' = queue \/ queue' = <<again>> \o queue
    BY <1>8 DEF UpdateDeliveryRetryFailure, PutBack, NoRoom
  <2>5. /\ queue' \in Seq(Info)
        /\ \A i \in DOMAIN queue' :
              queue'[i] = again \/ \E j \in DOMAIN queue : queue'[i] = queue[j]
    <3>1. CASE queue' = queue
      BY <2>1, <3>1
    <3>2. CASE queue' = <<again>> \o queue
      <4>1. /\ queue' \in Seq(Info)
            /\ DOMAIN queue' = 1..(Len(queue) + 1)
            /\ queue'[1] = again
            /\ \A i \in 2..(Len(queue) + 1) :
                  i - 1 \in DOMAIN queue /\ queue'[i] = queue[i - 1]
        BY <2>1, <2>3, <3>2, Front
      <4>2. \A i \in 1..(Len(queue) + 1) : i = 1 \/ i \in 2..(Len(queue) + 1)
        BY <2>1
      <4>3. QED
        BY <4>1, <4>2
    <3>3. QED
      BY <2>4, <3>1, <3>2
  <2>6. dropped' \in [Reasons -> Nat]
    <3>1. dropped \in [Reasons -> Nat]
      BY DEF TypeInv, TypeOK
    <3>2. \/ dropped' = [dropped EXCEPT !["DRA_EXCEEDED"] = @ + 1]
          \/ dropped' = [dropped EXCEPT !["DESTINATIONQUEUE_FULL"] = @ + 1]
          \/ dropped' = dropped
      BY <1>8 DEF UpdateDeliveryRetryFailure
    <3>3. QED
      BY <3>1, <3>2 DEF Reasons
  <2>7. fatalErrors' \in SUBSET Subscriptions
    BY <1>8, <2>1 DEF UpdateDeliveryRetryFailure, TypeInv, TypeOK, Info
  <2>8. TypeOK'
    BY <1>8, <2>5, <2>6, <2>7
    DEF UpdateDeliveryRetryFailure, TypeInv, TypeOK, Statuses
  <2>9. now' = now /\ timeNow' = timeNow /\ inFlight' \subseteq inFlight
    BY <1>8 DEF UpdateDeliveryRetryFailure, PutBack, NoRoom
  <2>10. again.arrival <= now /\ again.lastRetry <= now
    BY <2>1, <2>3 DEF TypeInv, Ages
  <2>11. Ages'
    BY <2>5, <2>9, <2>10 DEF TypeInv, Ages
  <2>12. QED
    BY <2>8, <2>11 DEF TypeInv
<1>9. ASSUME NEW c \in Controls \ {NoControl}, BeginControl(c)
      PROVE  TypeInv'
  BY <1>9 DEF BeginControl, TypeInv, TypeOK, Ages
<1>10. ASSUME NEW s \in Subscriptions, DeleteMatchedIndications(s)
       PROVE  TypeInv'
  <2>1. PICK m \in 0..Len(queue) : \E kept \in [1..m -> 1..Len(queue)] :
           /\ queue' = [i \in 1..m |-> queue[kept[i]]]
           /\ DropBy("SUBSCRIPTION_NOT_ACTIVE", Len(queue) - m)
    BY <1>10 DEF DeleteMatchedIndications
  <2>2. queue \in Seq(Info) /\ m \in Nat /\ Len(queue) - m \in Nat
    BY DEF TypeInv, TypeOK
  <2>3. /\ queue' \in Seq(Info)
        /\ \A i \in DOMAIN queue' : \E j \in DOMAIN queue : queue'[i] = queue[j]
    BY <2>1, <2>2
  <2>4. dropped' \in [Reasons -> Nat]
    BY <2>1, <2>2 DEF DropBy, TypeInv, TypeOK, Reasons
  <2>5. TypeOK'
    BY <1>10, <2>3, <2>4 DEF DeleteMatchedIndications, TypeInv, TypeOK, Controls
  <2>6. Ages'
    BY <1>10, <2>3 DEF DeleteMatchedIndications, TypeInv, Ages
  <2>7. QED
    BY <2>5, <2>6 DEF TypeInv
<1>11. CASE Cleanup
  <2>1. listenerTime' \in Nat
    BY <1>11 DEF Cleanup, TypeInv, TypeOK
  <2>2. queue' \in Seq(Info) /\ DOMAIN queue' = {}
    BY <1>11 DEF Cleanup
  <2>3. TypeOK'
    BY <1>11, <2>1, <2>2 DEF Cleanup, TypeInv, TypeOK, Controls
  <2>4. Ages'
    BY <1>11, <2>2 DEF Cleanup, TypeInv, Ages
  <2>5. QED
    BY <2>3, <2>4 DEF TypeInv
<1>12. ASSUME NEW v \in RetryAttempts, SetDeliveryRetryAttempts(v)
       PROVE  TypeInv'
  <2>1. maxAttempts' \in Nat
    BY <1>12, RetryAssumption, SizeAssumption DEF SetDeliveryRetryAttempts
  <2>2. QED
    BY <1>12, <2>1 DEF SetDeliveryRetryAttempts, TypeInv, TypeOK, Ages
<1>13. ASSUME NEW v \in RetryIntervals, SetMinDeliveryRetryInterval(v)
       PROVE  TypeInv'
  BY <1>13, RetryAssumption
  DEF SetMinDeliveryRetryInterval, TypeInv, TypeOK, Ages
<1>14. CASE Tick
  <2>1. TypeOK'
    BY <1>14 DEF Tick, TypeInv, TypeOK
  <2>2. Ages'
    <3>1. now \in Nat /\ now' = now + 1 /\ timeNow \in Nat
      BY <1>14 DEF Tick, TypeInv, TypeOK
    <3>2. UNCHANGED <<queue, inFlight, timeNow>>
      BY <1>14 DEF Tick
    <3>3. \A a \in inFlight : a.arrival \in Nat /\ a.lastRetry \in Nat
      BY DEF TypeInv, TypeOK, Info
    <3>4. QED
      BY <3>1, <3>2, <3>3, QueuedTyped DEF TypeInv, Ages
  <2>3. QED
    BY <2>1, <2>2 DEF TypeInv
<1>15. CASE UNCHANGED vars
  BY <1>15 DEF vars, TypeInv, TypeOK, Ages
<1>16. QED
  BY <1>1, <1>2, <1>3, <1>4, <1>5, <1>6, <1>7, <1>8, <1>9, <1>10, <1>11,
     <1>12, <1>13, <1>14, <1>15 DEF Next

\* Type correctness, with the order of times it needs.
THEOREM TypeCorrect == Spec => []TypeOK
<1>1. TypeInv => TypeOK
  BY DEF TypeInv
<1>2. QED
  BY <1>1, InitTyped, StepTyped, PTL DEF Spec
-----------------------------------------------------------------------------
\* Indications are named by their arrival: none kept is older than the last
\* one attempted, which is the one that is out.
IdsKnown ==
    /\ lastAttempted <= arrivals
    /\ \A i \in DOMAIN queue :
          /\ lastAttempted <= queue[i].id
          /\ queue[i].id <= arrivals
          /\ queue[i].id > 0
    /\ \A a \in inFlight : a.id = lastAttempted /\ a.id > 0

OrderInv == OnePending /\ InOrder /\ DeletedIdle /\ IdsKnown

\* The new indication is the newest of all.
LEMMA EnqueueInOrder ==
    ASSUME TypeInv, OrderInv, NEW s \in Subscriptions,
           NEW number \in Nat, NEW calc \in BOOLEAN,
           NEW size \in MinQueueSize..MaxQueueSize, NEW created \in Nat,
           NEW drops \in [Reasons -> Nat],
           Enqueue(s, number, calc, size, created, drops),
           inFlight' = inFlight, lastAttempted' = lastAttempted
    PROVE  /\ InOrder' /\ IdsKnown'
           /\ arrivals' = arrivals + 1
           /\ arrivals + 1 \in KeptIds'
           /\ KeptIds' \subseteq KeptIds \cup {arrivals + 1}
<1> DEFINE bound == SizeAfter(number, calc, size, created)
           info  == [id |-> arrivals + 1, sub |-> s, context |-> listenerTime,
                     number |-> number, arrival |-> now, lastRetry |-> 0,
                     attempts |-> 0]
           full  == Len(queue) + 1 > bound
<1>1. info.id = arrivals + 1 /\ arrivals' = arrivals + 1 /\ arrivals \in Nat
  BY DEF Enqueue, TypeInv, TypeOK
<1>2. bound \in MinQueueSize..MaxQueueSize
  BY SizeAssumption DEF SizeAfter, Clamp
<1>3. queue \in Seq(Info) /\ lastAttempted \in Nat
  BY DEF TypeInv, TypeOK
<1>4. full => queue # <<>>
  BY <1>2, <1>3, SizeAssumption
<1>5. \A i \in DOMAIN queue : queue[i].id \in Nat
  BY QueuedTyped DEF TypeInv
<1>6. queue' = IF full THEN Append(Tail(queue), info) ELSE Append(queue, info)
  BY DEF Enqueue
<1>7. PICK k \in {0, 1} :
         /\ k <= Len(queue)
         /\ DOMAIN queue' = 1..(Len(queue) - k + 1)
         /\ queue'[Len(queue) - k + 1] = info
         /\ \A i \in 1..(Len(queue) - k) :
               i + k \in DOMAIN queue /\ queue'[i] = queue[i + k]
  <2>1. CASE full
    <3>1. Len(queue) \in Nat \ {0} /\ 1 <= Len(queue)
      BY <2>1, <1>3, <1>4
    <3>2. /\ DOMAIN queue' = 1..(Len(queue) - 1 + 1)
          /\ queue'[Len(queue) - 1 + 1] = info
          /\ \A i \in 1..(Len(queue) - 1) :
                i + 1 \in DOMAIN queue /\ queue'[i] = queue[i + 1]
      BY <2>1, <3>1, <1>3, <1>4, <1>6
    <3>3. QED
      BY <3>1, <3>2
  <2>2. CASE ~full
    <3>1. /\ DOMAIN queue' = 1..(Len(queue) - 0 + 1)
          /\ queue'[Len(queue) - 0 + 1] = info
          /\ \A i \in 1..(Len(queue) - 0) :
                i + 0 \in DOMAIN queue /\ queue'[i] = queue[i + 0]
      BY <2>2, <1>3, <1>6
    <3>2. 0 <= Len(queue)
      BY <1>3
    <3>3. QED
      BY <3>1, <3>2
  <2>3. QED
    BY <2>1, <2>2
<1>8. \A i \in DOMAIN queue' :
         i = Len(queue) - k + 1 \/ i \in 1..(Len(queue) - k)
  <2>1. k \in Nat /\ Len(queue) \in Nat /\ k <= Len(queue)
    BY <1>3, <1>7
  <2>2. DOMAIN queue' = 1..(Len(queue) - k + 1)
    BY <1>7
  <2>3. QED
    BY <2>1, <2>2
<1>9. \A i, j \in DOMAIN queue' : i < j => queue'[i].id < queue'[j].id
  <2> SUFFICES ASSUME NEW i \in DOMAIN queue', NEW j \in DOMAIN queue', i < j
               PROVE  queue'[i].id < queue'[j].id
    OBVIOUS
  <2>1. i \in 1..(Len(queue) - k)
    BY <1>3, <1>7
  <2>2. queue'[i] = queue[i + k] /\ i + k \in DOMAIN queue
    BY <2>1, <1>7
  <2>3. CASE j = Len(queue) - k + 1
    <3>1. queue[i + k].id <= arrivals /\ queue[i + k].id \in Nat
      BY <2>2, <1>5 DEF OrderInv, IdsKnown
    <3>2. queue'[j].id = arrivals + 1
      BY <2>3, <1>1, <1>7
    <3>3. QED
      BY <2>2, <3>1, <3>2, <1>1
  <2>4. CASE j \in 1..(Len(queue) - k)
    <3>1. queue'[j] = queue[j + k] /\ j + k \in DOMAIN queue
      BY <2>4, <1>7
    <3>2. k \in Nat /\ i \in Int /\ j \in Int
      BY <2>1, <2>4, <1>7
    <3>3. i + k < j + k
      BY <3>2
    <3>4. QED
      BY <2>2, <3>1, <3>3 DEF OrderInv, InOrder
  <2>5. QED
    BY <2>3, <2>4, <1>8
<1>10. ASSUME NEW i \in DOMAIN queue'
       PROVE  queue'[i].id = arrivals + 1
              \/ \E j \in DOMAIN queue : queue'[i].id = queue[j].id
  BY <1>1, <1>7, <1>8
<1>11. \A a \in inFlight' : \A i \in DOMAIN queue' : a.id < queue'[i].id
  BY <1>1, <1>3, <1>10 DEF OrderInv, InOrder, IdsKnown
<1>12. IdsKnown'
  BY <1>1, <1>3, <1>5, <1>10 DEF OrderInv, IdsKnown
<1>13. arrivals + 1 \in KeptIds'
  <2>1. Len(queue) - k + 1 \in DOMAIN queue'
    BY <1>3, <1>7
  <2>2. QED
    BY <2>1, <1>1, <1>7 DEF KeptIds
<1>14. KeptIds' \subseteq KeptIds \cup {arrivals + 1}
  BY <1>10 DEF KeptIds
<1>15. QED
  BY <1>1, <1>9, <1>11, <1>12, <1>13, <1>14 DEF InOrder

\* An empty queue is in order, and nothing is out for delivery.
LEMMA InitOrdered == Init => OrderInv
BY TimeAssumption
DEF Init, OrderInv, OnePending, InOrder, DeletedIdle, IdsKnown

\* The queue after a suffix of it was kept.
LEMMA SuffixInOrder ==
    ASSUME TypeInv, OrderInv, NEW k \in 0..Len(queue),
           queue' = SubSeq(queue, k + 1, Len(queue))
    PROVE  /\ \A i, j \in DOMAIN queue' : i < j => queue'[i].id < queue'[j].id
           /\ \A i \in DOMAIN queue' :
                 \E j \in DOMAIN queue : k < j /\ queue'[i] = queue[j]
<1>1. queue \in Seq(Info) /\ k \in Nat /\ Len(queue) \in Nat
  BY DEF TypeInv, TypeOK
<1>2. /\ DOMAIN queue' = 1..(Len(queue) - k)
      /\ \A i \in 1..(Len(queue) - k) :
            i + k \in DOMAIN queue /\ queue'[i] = queue[i + k]
  BY <1>1, Suffix
<1>3. ASSUME NEW i \in DOMAIN queue', NEW j \in DOMAIN queue', i < j
      PROVE  queue'[i].id < queue'[j].id
  <2>1. i + k < j + k
    BY <1>1, <1>2, <1>3
  <2>2. QED
    BY <1>2, <2>1 DEF OrderInv, InOrder
<1>4. ASSUME NEW i \in DOMAIN queue'
      PROVE  \E j \in DOMAIN queue : k < j /\ queue'[i] = queue[j]
  <2>1. k < i + k
    BY <1>1, <1>2
  <2>2. QED
    BY <1>2, <2>1
<1>5. QED
  BY <1>3, <1>4

\* Every step of the queue and its callers keeps the order invariant.
LEMMA StepOrdered ==
    ASSUME TypeInv, OrderInv, [Next]_vars
    PROVE  OrderInv'
<1> USE DEF queueVars, sizeVars, statVars, configVars, tableVars, clockVars,
            historyVars
<1>0. queue \in Seq(Info)
  BY DEF TypeInv, TypeOK
<1>1. ASSUME NEW s \in Subscriptions, EnqueueExisting(s)
      PROVE  OrderInv'
  <2>1. InOrder' /\ IdsKnown'
    BY <1>1, EnqueueInOrder DEF EnqueueExisting, TypeInv, TypeOK
  <2>2. OnePending' /\ DeletedIdle'
    BY <1>1 DEF EnqueueExisting, OrderInv, OnePending, DeletedIdle
  <2>3. QED
    BY <2>1, <2>2 DEF OrderInv
<1>2. ASSUME NEW s \in Subscriptions, CreateAndEnqueue(s)
      PROVE  OrderInv'
  <2>1. NoDrops \in [Reasons -> Nat] /\ MaxQueueSize \in MinQueueSize..MaxQueueSize
    BY SizeAssumption DEF NoDrops
  <2>2. now \in Nat /\ Enqueue(s, 0, TRUE, MaxQueueSize, now, NoDrops)
    BY <1>2 DEF CreateAndEnqueue, TypeInv, TypeOK
  <2>3. inFlight' = inFlight /\ lastAttempted' = lastAttempted
    BY <1>2 DEF CreateAndEnqueue
  <2>4. InOrder' /\ IdsKnown'
    BY <2>1, <2>2, <2>3, EnqueueInOrder
  <2>5. OnePending' /\ DeletedIdle'
    BY <1>2 DEF CreateAndEnqueue, OrderInv, OnePending, DeletedIdle
  <2>6. QED
    BY <2>4, <2>5 DEF OrderInv
<1>3. CASE ReadClock
  BY <1>3 DEF ReadClock, OrderInv, OnePending, InOrder, DeletedIdle, IdsKnown
<1>4. CASE GetNextNone
  BY <1>4 DEF GetNextNone, OrderInv, OnePending, InOrder, DeletedIdle, IdsKnown
<1>5. ASSUME NEW k \in 0..Len(queue), GetNextWait(k)
      PROVE  OrderInv'
  <2>1. queue' = SubSeq(queue, k + 1, Len(queue)) /\ exists /\ exists' = exists
    BY <1>5 DEF GetNextWait
  <2>2. inFlight' = inFlight /\ status' = status
    BY <1>5 DEF GetNextWait
  <2>3. lastAttempted' = lastAttempted /\ arrivals' = arrivals
    BY <1>5 DEF GetNextWait
  <2>4. /\ \A i, j \in DOMAIN queue' : i < j => queue'[i].id < queue'[j].id
        /\ \A i \in DOMAIN queue' : \E j \in DOMAIN queue : queue'[i] = queue[j]
    BY <2>1, SuffixInOrder
  <2>5. InOrder' /\ IdsKnown'
    BY <2>2, <2>3, <2>4 DEF OrderInv, InOrder, IdsKnown
  <2>6. OnePending' /\ DeletedIdle'
    BY <2>1, <2>2 DEF OrderInv, OnePending, DeletedIdle
  <2>7. QED
    BY <2>5, <2>6 DEF OrderInv
<1>6. ASSUME NEW k \in 0..Len(queue), GetNextDeliver(k)
      PROVE  OrderInv'
  <2> DEFINE info == queue[k + 1]
             out  == [info EXCEPT !.attempts =
                         AttemptsAtDispatch(info, TimeAt(k + 1))]
  <2>1. k \in Nat /\ k + 1 \in DOMAIN queue /\ k + 1 \in 0..Len(queue)
    BY <1>0, <1>6 DEF GetNextDeliver
  <2>2. info \in Info
    BY <2>1, QueuedTyped DEF TypeInv
  <2>3. out.id = info.id
    BY <2>2 DEF Info
  <2>4. inFlight = {}
    BY <1>6 DEF GetNextDeliver, Deliverable, OrderInv, OnePending
  <2>5. /\ inFlight' = {out}
        /\ lastAttempted' = info.id
        /\ arrivals' = arrivals
        /\ status' = "PENDING"
        /\ exists' = exists /\ exists
    BY <1>6, <2>4 DEF GetNextDeliver
  <2>6. queue' = SubSeq(queue, (k + 1) + 1, Len(queue))
    BY <1>6, <2>1 DEF GetNextDeliver
  <2>7. /\ \A i, j \in DOMAIN queue' : i < j => queue'[i].id < queue'[j].id
        /\ \A i \in DOMAIN queue' :
              \E j \in DOMAIN queue : k + 1 < j /\ queue'[i] = queue[j]
    BY <2>1, <2>6, SuffixInOrder
  <2>8. \A i \in DOMAIN queue' : info.id < queue'[i].id
    BY <2>1, <2>7 DEF OrderInv, InOrder
  <2>9. InOrder'
    BY <2>3, <2>5, <2>7, <2>8 DEF InOrder
  <2>10. info.id \in Nat /\ \A i \in DOMAIN queue : queue[i].id \in Nat
    BY <2>1, QueuedTyped DEF TypeInv
  <2>11. \A i \in DOMAIN queue' : info.id <= queue'[i].id
    BY <2>7, <2>8, <2>10
  <2>12. \A i \in DOMAIN queue' : queue'[i].id <= arrivals /\ queue'[i].id > 0
    BY <2>7 DEF OrderInv, IdsKnown
  <2>13. info.id <= arrivals /\ info.id > 0
    BY <2>1 DEF OrderInv, IdsKnown
  <2>14. IdsKnown'
    BY <2>3, <2>5, <2>11, <2>12, <2>13 DEF IdsKnown
  <2>15. OnePending' /\ DeletedIdle'
    BY <2>5 DEF OnePending, DeletedIdle
  <2>16. QED
    BY <2>9, <2>14, <2>15 DEF OrderInv
<1>7. ASSUME NEW info \in inFlight, UpdateDeliveryRetrySuccess(info)
      PROVE  OrderInv'
  <2>1. inFlight' = {} /\ status' = "SUCCESS" /\ exists' = exists
    BY <1>7 DEF UpdateDeliveryRetrySuccess, OrderInv, OnePending
  <2>2. UNCHANGED <<queue, arrivals, lastAttempted>>
    BY <1>7 DEF UpdateDeliveryRetrySuccess
  <2>3. QED
    BY <2>1, <2>2 DEF OrderInv, OnePending, InOrder, DeletedIdle, IdsKnown
<1>8. ASSUME NEW info \in inFlight, UpdateDeliveryRetryFailure(info)
      PROVE  OrderInv'
  <2> DEFINE again == [info EXCEPT !.attempts = (info.attempts + 1) % UShort,
                                   !.lastRetry = now]
  <2>1. inFlight' = {} /\ status' = "FAIL" /\ exists' = exists
    BY <1>8 DEF UpdateDeliveryRetryFailure, OrderInv, OnePending
  <2>2. arrivals' = arrivals /\ lastAttempted' = lastAttempted
    BY <1>8 DEF UpdateDeliveryRetryFailure, PutBack, NoRoom
  <2>3. queue' = queue \/ queue' = <<again>> \o queue
    BY <1>8 DEF UpdateDeliveryRetryFailure, PutBack, NoRoom
  <2>4. exists
    BY DEF OrderInv, DeletedIdle
  <2>5. info \in Info /\ now \in Nat
    BY DEF TypeInv, TypeOK
  <2>6. again \in Info /\ again.id = info.id
    <3>1. info.attempts \in Nat
      BY <2>5 DEF Info
    <3>2. (info.attempts + 1) % UShort \in Nat
      BY <3>1, SizeAssumption
    <3>3. QED
      BY <2>5, <3>2 DEF Info
  <2>7. InOrder' /\ IdsKnown'
    <3>1. CASE queue' = queue
      BY <2>1, <2>2, <3>1 DEF OrderInv, InOrder, IdsKnown
    <3>2. CASE queue' = <<again>> \o queue
      <4>1. /\ DOMAIN queue' = 1..(Len(queue) + 1)
            /\ queue'[1] = again
            /\ \A i \in 2..(Len(queue) + 1) :
                  i - 1 \in DOMAIN queue /\ queue'[i] = queue[i - 1]
        BY <1>0, <2>6, <3>2, Front
      <4>2. \A i \in DOMAIN queue' : i = 1 \/ i \in 2..(Len(queue) + 1)
        BY <1>0, <4>1
      <4>3. \A i \in DOMAIN queue : info.id < queue[i].id
        BY DEF OrderInv, InOrder
      <4>4. ASSUME NEW i \in DOMAIN queue', NEW j \in DOMAIN queue', i < j
            PROVE  queue'[i].id < queue'[j].id
        <5>1. j \in 2..(Len(queue) + 1)
          BY <1>0, <4>1, <4>4
        <5>2. CASE i = 1
          BY <2>6, <4>1, <4>3, <5>1, <5>2
        <5>3. CASE i \in 2..(Len(queue) + 1)
          <6>1. i - 1 < j - 1
            BY <1>0, <4>4, <5>1, <5>3
          <6>2. QED
            BY <4>1, <5>1, <5>3, <6>1 DEF OrderInv, InOrder
        <5>4. QED
          BY <4>2, <5>2, <5>3
      <4>5. InOrder'
        BY <2>1, <4>4 DEF InOrder
      <4>6. info.id = lastAttempted /\ info.id > 0 /\ lastAttempted <= arrivals
        BY DEF OrderInv, IdsKnown
      <4>7. lastAttempted \in Nat /\ arrivals \in Nat
        BY DEF TypeInv, TypeOK
      <4>8. ASSUME NEW i \in DOMAIN queue'
            PROVE  /\ lastAttempted <= queue'[i].id
                   /\ queue'[i].id <= arrivals
                   /\ queue'[i].id > 0
        <5>1. CASE i = 1
          <6>1. queue'[i].id = lastAttempted
            BY <2>6, <4>1, <4>6, <5>1
          <6>2. QED
            BY <4>6, <4>7, <6>1
        <5>2. CASE i \in 2..(Len(queue) + 1)
          BY <4>1, <5>2 DEF OrderInv, IdsKnown
        <5>3. QED
          BY <4>2, <5>1, <5>2
      <4>9. IdsKnown'
        BY <2>1, <2>2, <4>6, <4>8 DEF IdsKnown
      <4>10. QED
        BY <4>5, <4>9
    <3>3. QED
      BY <2>3, <3>1, <3>2
  <2>8. OnePending' /\ DeletedIdle'
    BY <2>1, <2>4 DEF OnePending, DeletedIdle
  <2>9. QED
    BY <2>7, <2>8 DEF OrderInv
<1>9. ASSUME NEW c \in Controls \ {NoControl}, BeginControl(c)
      PROVE  OrderInv'
  BY <1>9 DEF BeginControl, OrderInv, OnePending, InOrder, DeletedIdle, IdsKnown
<1>10. ASSUME NEW s \in Subscriptions, DeleteMatchedIndications(s)
       PROVE  OrderInv'
  <2>1. PICK m \in 0..Len(queue) : \E kept \in [1..m -> 1..Len(queue)] :
           /\ KeepsOthers(kept, queue, s)
           /\ queue' = [i \in 1..m |-> queue[kept[i]]]
    BY <1>10 DEF DeleteMatchedIndications
  <2>0. DOMAIN queue = 1..Len(queue)
    BY <1>0
  <2>2. PICK kept \in [1..m -> DOMAIN queue] :
           /\ KeepsOthers(kept, queue, s)
           /\ queue' = [i \in 1..m |-> queue[kept[i]]]
    BY <2>0, <2>1
  <2>3. \A i, j \in 1..m : i < j => kept[i] < kept[j]
    BY <2>2 DEF KeepsOthers
  <2>4. UNCHANGED <<inFlight, status, lastAttempted, arrivals, exists>>
    BY <1>10 DEF DeleteMatchedIndications
  <2>5. /\ DOMAIN queue' = 1..m
        /\ \A i \in 1..m : kept[i] \in DOMAIN queue /\ queue'[i] = queue[kept[i]]
    BY <2>2
  <2>6. InOrder'
    BY <2>3, <2>4, <2>5 DEF OrderInv, InOrder
  <2>7. IdsKnown'
    BY <2>4, <2>5 DEF OrderInv, IdsKnown
  <2>8. ~exists => m = 0
    BY <1>0 DEF OrderInv, DeletedIdle
  <2>9. OnePending'
    BY <2>4 DEF OrderInv, OnePending
  <2>10. DeletedIdle'
    BY <2>2, <2>4, <2>8 DEF OrderInv, DeletedIdle
  <2>11. QED
    BY <2>6, <2>7, <2>9, <2>10 DEF OrderInv
<1>11. CASE Cleanup
  BY <1>11
  DEF Cleanup, NotPending, OrderInv, OnePending, InOrder, DeletedIdle, IdsKnown
<1>12. ASSUME NEW v \in RetryAttempts, SetDeliveryRetryAttempts(v)
       PROVE  OrderInv'
  BY <1>12 DEF SetDeliveryRetryAttempts, OrderInv, OnePending, InOrder,
               DeletedIdle, IdsKnown
<1>13. ASSUME NEW v \in RetryIntervals, SetMinDeliveryRetryInterval(v)
       PROVE  OrderInv'
  BY <1>13 DEF SetMinDeliveryRetryInterval, OrderInv, OnePending, InOrder,
               DeletedIdle, IdsKnown
<1>14. CASE Tick
  BY <1>14 DEF Tick, OrderInv, OnePending, InOrder, DeletedIdle, IdsKnown
<1>15. CASE UNCHANGED vars
  BY <1>15 DEF vars, OrderInv, OnePending, InOrder, DeletedIdle, IdsKnown
<1>16. QED
  BY <1>1, <1>2, <1>3, <1>4, <1>5, <1>6, <1>7, <1>8, <1>9, <1>10, <1>11,
     <1>12, <1>13, <1>14, <1>15 DEF Next

\* The type and order invariants hold throughout.
LEMMA Ordered == Spec => [](TypeInv /\ OrderInv)
<1>1. Init => TypeInv /\ OrderInv
  BY InitTyped, InitOrdered
<1>2. TypeInv /\ OrderInv /\ [Next]_vars => TypeInv' /\ OrderInv'
  BY StepTyped, StepOrdered
<1>3. QED
  BY <1>1, <1>2, PTL DEF Spec

\* Retries, discards and expiry never disturb the arrival order of the queue.
THEOREM QueueInOrder == Spec => []InOrder
<1>1. OrderInv => InOrder
  BY DEF OrderInv
<1>2. QED
  BY <1>1, Ordered, PTL

\* At most one delivery is outstanding, and exactly while PENDING.
THEOREM OnlyOnePending == Spec => []OnePending
<1>1. OrderInv => OnePending
  BY DEF OrderInv
<1>2. QED
  BY <1>1, Ordered, PTL

\* No delivery thread holds an indication of a queue that was deleted.
THEOREM DeletedQueueIdle == Spec => []DeletedIdle
<1>1. OrderInv => DeletedIdle
  BY DEF OrderInv
<1>2. QED
  BY <1>1, Ordered, PTL

\* Only getNextIndicationForDelivery puts an indication on the wire, and the
\* last one put there is not newer than any that is queued.
LEMMA StepWireInOrder ==
    ASSUME TypeInv, OrderInv, [Next]_vars
    PROVE  lastAttempted' >= lastAttempted
<1>1. lastAttempted \in Nat
  BY DEF TypeInv, TypeOK
<1>2. CASE UNCHANGED lastAttempted
  BY <1>1, <1>2
<1>3. ASSUME NEW k \in 0..Len(queue), GetNextDeliver(k)
      PROVE  lastAttempted' >= lastAttempted
  <2>1. queue \in Seq(Info)
    BY DEF TypeInv, TypeOK
  <2>2. k + 1 \in DOMAIN queue
    BY <1>3, <2>1 DEF GetNextDeliver
  <2>3. lastAttempted' = queue[k + 1].id
    BY <1>3 DEF GetNextDeliver
  <2>4. queue[k + 1].id \in Nat
    BY <2>2, QueuedTyped DEF TypeInv
  <2>5. QED
    BY <1>1, <2>2, <2>3, <2>4 DEF OrderInv, IdsKnown
<1>4. (\E k \in 0..Len(queue) : GetNextDeliver(k)) \/ UNCHANGED lastAttempted
  BY DEF Next, vars, historyVars, EnqueueExisting, CreateAndEnqueue, ReadClock,
         GetNextNone, GetNextWait, UpdateDeliveryRetrySuccess,
         UpdateDeliveryRetryFailure, BeginControl, DeleteMatchedIndications,
         Cleanup, SetDeliveryRetryAttempts, SetMinDeliveryRetryInterval, Tick
<1>5. QED
  BY <1>2, <1>3, <1>4

\* The listener never sees an indication after a newer one.
THEOREM WireOrdered == Spec => WireInOrder
<1>1. TypeInv /\ OrderInv /\ [Next]_vars => [lastAttempted' >= lastAttempted]_vars
  BY StepWireInOrder
<1>2. QED
  BY <1>1, Ordered, PTL DEF Spec, WireInOrder
-----------------------------------------------------------------------------
\* The refinement of the channel.  What the channel sees of the queue:
LEMMA AttemptingIs ==
    ASSUME TypeInv, OrderInv
    PROVE  /\ inFlight = {} => Attempting = 0
           /\ \A a \in inFlight : Attempting = a.id /\ Attempting # 0
           /\ \A a \in inFlight : inFlight = {a} /\ OutIds = {Attempting}
           /\ inFlight = {} => Pending = KeptIds
<1>1. ASSUME NEW a \in inFlight
      PROVE  /\ Attempting = a.id /\ Attempting # 0
             /\ inFlight = {a} /\ OutIds = {Attempting}
  <2>1. inFlight = {a}
    BY DEF OrderInv, OnePending
  <2>2. (CHOOSE b \in inFlight : TRUE) = a
    BY <2>1
  <2>3. Attempting = a.id
    BY <2>1, <2>2 DEF Attempting
  <2>4. a.id > 0
    BY DEF OrderInv, IdsKnown
  <2>5. a.id # 0
    BY <2>4
  <2>6. QED
    BY <2>1, <2>3, <2>5 DEF OutIds
<1>2. QED
  BY <1>1 DEF Attempting, Pending, OutIds

\* The indication that is out is not in the queue.
LEMMA AttemptingNotKept ==
    ASSUME TypeInv, OrderInv, NEW a \in inFlight
    PROVE  a.id \notin KeptIds
<1>1. \A i \in DOMAIN queue : a.id < queue[i].id
  BY DEF OrderInv, InOrder
<1>2. a.id \in Nat /\ \A i \in DOMAIN queue : queue[i].id \in Nat
  BY QueuedTyped DEF TypeInv, TypeOK, Info
<1>3. QED
  BY <1>1, <1>2 DEF KeptIds

\* The queue starts as an empty channel.
LEMMA InitRefines == Init => Channel!ChannelInit
BY DEF Init, Channel!ChannelInit, Pending, KeptIds, OutIds, Attempting

\* An enqueued indication is accepted, at the price of the oldest if full.
LEMMA AcceptRefines ==
    ASSUME TypeInv, OrderInv, inFlight' = inFlight,
           arrivals' = arrivals + 1,
           arrivals + 1 \in KeptIds',
           KeptIds' \subseteq KeptIds \cup {arrivals + 1}
    PROVE  Channel!ChannelNext
<1> DEFINE D == Pending \ Pending'
<1>1. OutIds' = OutIds /\ Attempting' = Attempting
  BY DEF OutIds, Attempting
<1>2. Attempting \notin D
  <2>1. CASE inFlight = {}
    <3>1. Attempting = 0
      BY <2>1, AttemptingIs
    <3>2. \A i \in DOMAIN queue : queue[i].id # 0
      <4> SUFFICES ASSUME NEW i \in DOMAIN queue PROVE queue[i].id # 0
        OBVIOUS
      <4>1. queue[i].id > 0
        BY DEF OrderInv, IdsKnown
      <4>2. QED
        BY <4>1
    <3>3. 0 \notin Pending
      BY <2>1, <3>2 DEF Pending, KeptIds, OutIds
    <3>4. QED
      BY <3>1, <3>3
  <2>2. CASE inFlight # {}
    <3>1. Attempting \in OutIds'
      BY <1>1, <2>2, AttemptingIs
    <3>2. QED
      BY <3>1 DEF Pending
  <2>3. QED
    BY <2>1, <2>2
<1>3. Pending' = (Pending \ D) \cup {arrivals + 1}
  BY <1>1 DEF Pending
<1>4. D \in SUBSET (Pending \ {Attempting})
  BY <1>2
<1>5. Channel!Accept
  BY <1>1, <1>3, <1>4 DEF Channel!Accept
<1>6. QED
  BY <1>5 DEF Channel!ChannelNext

\* Any step that drops queued indications and does nothing else.
LEMMA DiscardRefines ==
    ASSUME inFlight' = inFlight, arrivals' = arrivals,
           KeptIds' \subseteq KeptIds, inFlight = {} \/ KeptIds' = KeptIds,
           TypeInv, OrderInv
    PROVE  Channel!ChannelNext
<1>1. Attempting' = Attempting /\ OutIds' = OutIds
  BY DEF Attempting, OutIds
<1>2. Pending' \subseteq Pending
  BY <1>1 DEF Pending
<1>3. Attempting # 0 => Attempting \in Pending'
  BY <1>1, AttemptingIs DEF Pending
<1>4. Channel!Discard
  BY <1>1, <1>2, <1>3 DEF Channel!Discard
<1>5. QED
  BY <1>4 DEF Channel!ChannelNext

\* Handing out an indication, expired ones dropped, attempts the oldest left.
LEMMA DeliverRefines ==
    ASSUME TypeInv, OrderInv, OrderInv', TypeInv',
           NEW k \in 0..Len(queue), GetNextDeliver(k)
    PROVE  Channel!ChannelNext
<1> DEFINE info == queue[k + 1]
           out  == [info EXCEPT !.attempts =
                       AttemptsAtDispatch(info, TimeAt(k + 1))]
<1>0. queue \in Seq(Info)
  BY DEF TypeInv, TypeOK
<1>1. k \in Nat /\ k + 1 \in DOMAIN queue /\ k + 1 \in 0..Len(queue)
  BY <1>0 DEF GetNextDeliver
<1>2. info \in Info /\ info.id \in Nat
  BY <1>1, QueuedTyped DEF TypeInv
<1>3. out.id = info.id
  BY <1>2 DEF Info
<1>4. inFlight = {}
  BY DEF GetNextDeliver, Deliverable, OrderInv, OnePending
<1>5. out \in inFlight' /\ arrivals' = arrivals
  BY DEF GetNextDeliver
<1>6. inFlight' = {out}
  BY <1>4 DEF GetNextDeliver
<1>7. Attempting = 0
  BY <1>4, AttemptingIs
<1>8. Attempting' = info.id /\ OutIds' = {info.id}
  BY <1>3, <1>6 DEF Attempting, OutIds
<1>9. queue' = SubSeq(queue, (k + 1) + 1, Len(queue))
  BY <1>1 DEF GetNextDeliver
<1>10. \A i \in DOMAIN queue' :
          \E j \in DOMAIN queue : k + 1 < j /\ queue'[i] = queue[j]
  BY <1>1, <1>9, SuffixInOrder
<1>11. KeptIds' \subseteq KeptIds /\ info.id \in KeptIds
  BY <1>1, <1>10 DEF KeptIds
<1>12. Pending' \subseteq Pending
  BY <1>8, <1>11 DEF Pending
<1>13. \A i \in DOMAIN queue' : info.id < queue'[i].id
  BY <1>1, <1>10 DEF OrderInv, InOrder
<1>14. \A i \in DOMAIN queue' : queue'[i].id \in Nat
  BY <1>1, <1>10, QueuedTyped DEF TypeInv
<1>15. \A j \in Pending' : Attempting' <= j
  BY <1>2, <1>8, <1>13, <1>14 DEF Pending, KeptIds
<1>16. Attempting' \in Pending'
  BY <1>8 DEF Pending
<1>17. Channel!Attempt
  BY <1>5, <1>7, <1>12, <1>15, <1>16 DEF Channel!Attempt
<1>18. QED
  BY <1>17 DEF Channel!ChannelNext

\* The end of an attempt: the indication is gone, or at the front again.
LEMMA FinishRefines ==
    ASSUME TypeInv, OrderInv, NEW info \in inFlight,
           inFlight' = {}, arrivals' = arrivals,
           KeptIds' \in {KeptIds, KeptIds \cup {info.id}}
    PROVE  Channel!ChannelNext
<1>1. Attempting = info.id /\ Attempting # 0 /\ OutIds = {info.id}
  BY AttemptingIs
<1>2. Attempting' = 0 /\ OutIds' = {}
  BY DEF Attempting, OutIds
<1>3. info.id \notin KeptIds
  BY AttemptingNotKept
<1>4. Pending' \in {Pending, Pending \ {Attempting}}
  BY <1>1, <1>2, <1>3 DEF Pending
<1>5. Channel!Finish
  BY <1>1, <1>2, <1>4 DEF Channel!Finish
<1>6. QED
  BY <1>5 DEF Channel!ChannelNext

\* A failed attempt ends with the indication at the front again or dropped.
LEMMA FailureRefines ==
    ASSUME TypeInv, OrderInv, NEW info \in inFlight,
           UpdateDeliveryRetryFailure(info)
    PROVE  Channel!ChannelNext
<1> DEFINE again == [info EXCEPT !.attempts = (info.attempts + 1) % UShort,
                                 !.lastRetry = now]
<1>1. inFlight' = {} /\ arrivals' = arrivals
  BY DEF UpdateDeliveryRetryFailure, OrderInv, OnePending, historyVars
<1>2. queue' = queue \/ queue' = <<again>> \o queue
  BY DEF UpdateDeliveryRetryFailure, PutBack, NoRoom
<1>3. queue \in Seq(Info) /\ info \in Info /\ now \in Nat
  BY DEF TypeInv, TypeOK
<1>4. again \in Info /\ again.id = info.id
  <2>1. info.attempts \in Nat
    BY <1>3 DEF Info
  <2>2. (info.attempts + 1) % UShort \in Nat
    BY <2>1, SizeAssumption
  <2>3. QED
    BY <1>3, <2>2 DEF Info
<1>5. KeptIds' \in {KeptIds, KeptIds \cup {info.id}}
  <2>1. CASE queue' = queue
    BY <2>1 DEF KeptIds
  <2>2. CASE queue' = <<again>> \o queue
    <3>1. /\ DOMAIN queue' = 1..(Len(queue) + 1)
          /\ queue'[1] = again
          /\ \A i \in 2..(Len(queue) + 1) :
                i - 1 \in DOMAIN queue /\ queue'[i] = queue[i - 1]
      BY <1>3, <1>4, <2>2, Front
    <3>2. \A i \in DOMAIN queue' : i = 1 \/ i \in 2..(Len(queue) + 1)
      BY <1>3, <3>1
    <3>3. KeptIds' \subseteq KeptIds \cup {info.id}
      <4> SUFFICES ASSUME NEW i \in DOMAIN queue'
                   PROVE  queue'[i].id \in KeptIds \cup {info.id}
        BY DEF KeptIds
      <4>1. CASE i = 1
        BY <1>4, <3>1, <4>1
      <4>2. CASE i \in 2..(Len(queue) + 1)
        BY <3>1, <4>2 DEF KeptIds
      <4>3. QED
        BY <3>2, <4>1, <4>2
    <3>4. 1 \in DOMAIN queue'
      BY <1>3, <3>1
    <3>5. info.id \in KeptIds'
      BY <1>4, <3>1, <3>4 DEF KeptIds
    <3>6. ASSUME NEW j \in DOMAIN queue
          PROVE  queue[j].id \in KeptIds'
      <4>1. j + 1 \in 2..(Len(queue) + 1) /\ (j + 1) - 1 = j
        BY <1>3
      <4>2. queue'[j + 1] = queue[j] /\ j + 1 \in DOMAIN queue'
        BY <1>3, <3>1, <4>1
      <4>3. QED
        BY <4>2 DEF KeptIds
    <3>7. KeptIds \subseteq KeptIds'
      BY <3>6 DEF KeptIds
    <3>8. QED
      BY <3>3, <3>5, <3>7
  <2>3. QED
    BY <1>2, <2>1, <2>2
<1>6. QED
  BY <1>1, <1>5, FinishRefines

\* Every step of the queue is a step of the channel or none.
LEMMA StepRefines ==
    ASSUME TypeInv, OrderInv, TypeInv', OrderInv', [Next]_vars
    PROVE  [Channel!ChannelNext]_(Channel!channelVars)
<1> USE DEF queueVars, sizeVars, statVars, configVars, tableVars, clockVars,
            historyVars
<1>0. queue \in Seq(Info)
  BY DEF TypeInv, TypeOK
<1>1. ASSUME NEW s \in Subscriptions, EnqueueExisting(s)
      PROVE  Channel!ChannelNext
  <2>1. inFlight' = inFlight /\ lastAttempted' = lastAttempted
    BY <1>1 DEF EnqueueExisting
  <2>2. /\ arrivals' = arrivals + 1
        /\ arrivals + 1 \in KeptIds'
        /\ KeptIds' \subseteq KeptIds \cup {arrivals + 1}
    BY <1>1, <2>1, EnqueueInOrder DEF EnqueueExisting, TypeInv, TypeOK
  <2>3. QED
    BY <2>1, <2>2, AcceptRefines
<1>2. ASSUME NEW s \in Subscriptions, CreateAndEnqueue(s)
      PROVE  Channel!ChannelNext
  <2>1. inFlight' = inFlight /\ lastAttempted' = lastAttempted
    BY <1>2 DEF CreateAndEnqueue
  <2>2. NoDrops \in [Reasons -> Nat] /\ MaxQueueSize \in MinQueueSize..MaxQueueSize
    BY SizeAssumption DEF NoDrops
  <2>3. now \in Nat /\ Enqueue(s, 0, TRUE, MaxQueueSize, now, NoDrops)
    BY <1>2 DEF CreateAndEnqueue, TypeInv, TypeOK
  <2>4. /\ arrivals' = arrivals + 1
        /\ arrivals + 1 \in KeptIds'
        /\ KeptIds' \subseteq KeptIds \cup {arrivals + 1}
    BY <2>1, <2>2, <2>3, EnqueueInOrder
  <2>5. QED
    BY <2>1, <2>4, AcceptRefines
<1>3. ASSUME NEW k \in 0..Len(queue), GetNextWait(k)
      PROVE  Channel!ChannelNext
  <2>1. /\ queue' = SubSeq(queue, k + 1, Len(queue))
        /\ inFlight' = inFlight /\ arrivals' = arrivals
    BY <1>3 DEF GetNextWait
  <2>2. inFlight = {}
    BY <1>3 DEF GetNextWait, Deliverable, OrderInv, OnePending
  <2>3. KeptIds' \subseteq KeptIds
    BY <2>1, SuffixInOrder DEF KeptIds
  <2>4. QED
    BY <2>1, <2>2, <2>3, DiscardRefines
<1>4. ASSUME NEW k \in 0..Len(queue), GetNextDeliver(k)
      PROVE  Channel!ChannelNext
  BY <1>4, DeliverRefines
<1>5. ASSUME NEW info \in inFlight, UpdateDeliveryRetrySuccess(info)
      PROVE  Channel!ChannelNext
  <2>1. inFlight' = {} /\ arrivals' = arrivals /\ queue' = queue
    BY <1>5 DEF UpdateDeliveryRetrySuccess, OrderInv, OnePending
  <2>2. KeptIds' = KeptIds
    BY <2>1 DEF KeptIds
  <2>3. QED
    BY <2>1, <2>2, FinishRefines
<1>6. ASSUME NEW info \in inFlight, UpdateDeliveryRetryFailure(info)
      PROVE  Channel!ChannelNext
  BY <1>6, FailureRefines
<1>7. ASSUME NEW s \in Subscriptions, DeleteMatchedIndications(s)
      PROVE  Channel!ChannelNext
  <2>1. inFlight' = inFlight /\ arrivals' = arrivals
    BY <1>7 DEF DeleteMatchedIndications
  <2>2. inFlight = {}
    BY <1>7 DEF DeleteMatchedIndications, NotPending, OrderInv, OnePending
  <2>3. PICK m \in 0..Len(queue) : \E kept \in [1..m -> 1..Len(queue)] :
           queue' = [i \in 1..m |-> queue[kept[i]]]
    BY <1>7 DEF DeleteMatchedIndications
  <2>4. DOMAIN queue = 1..Len(queue)
    BY <1>0
  <2>5. PICK kept \in [1..m -> DOMAIN queue] :
           queue' = [i \in 1..m |-> queue[kept[i]]]
    BY <2>3, <2>4
  <2>6. KeptIds' \subseteq KeptIds
    BY <2>5 DEF KeptIds
  <2>7. QED
    BY <2>1, <2>2, <2>6, DiscardRefines
<1>8. CASE Cleanup
  <2>1. inFlight' = inFlight /\ arrivals' = arrivals /\ queue' = <<>>
    BY <1>8 DEF Cleanup
  <2>2. inFlight = {}
    BY <1>8 DEF Cleanup, NotPending, OrderInv, OnePending
  <2>3. KeptIds' \subseteq KeptIds
    BY <2>1 DEF KeptIds
  <2>4. QED
    BY <2>1, <2>2, <2>3, DiscardRefines
<1>9. CASE UNCHANGED <<queue, inFlight, arrivals>>
  <2>1. KeptIds' = KeptIds /\ OutIds' = OutIds /\ Attempting' = Attempting
    BY <1>9 DEF KeptIds, OutIds, Attempting
  <2>2. UNCHANGED Channel!channelVars
    BY <1>9, <2>1 DEF Channel!channelVars, Pending
  <2>3. QED
    BY <2>2
<1>10. \/ \E s \in Subscriptions : EnqueueExisting(s)
       \/ \E s \in Subscriptions : CreateAndEnqueue(s)
       \/ \E k \in 0..Len(queue) : GetNextWait(k)
       \/ \E k \in 0..Len(queue) : GetNextDeliver(k)
       \/ \E info \in inFlight : UpdateDeliveryRetrySuccess(info)
       \/ \E info \in inFlight : UpdateDeliveryRetryFailure(info)
       \/ \E s \in Subscriptions : DeleteMatchedIndications(s)
       \/ Cleanup
       \/ UNCHANGED <<queue, inFlight, arrivals>>
  BY DEF Next, vars, ReadClock, GetNextNone, BeginControl,
         SetDeliveryRetryAttempts, SetMinDeliveryRetryInterval, Tick
<1>11. QED
  BY <1>1, <1>2, <1>3, <1>4, <1>5, <1>6, <1>7, <1>8, <1>9, <1>10

\* The queue implements the channel: oldest first, one delivery at a time.
THEOREM QueueImplementsChannel == Spec => ImplementsChannel
<1>1. /\ TypeInv /\ OrderInv /\ [Next]_vars /\ TypeInv' /\ OrderInv'
         => [Channel!ChannelNext]_(Channel!channelVars)
  BY StepRefines
<1>2. QED
  BY <1>1, InitRefines, Ordered, PTL DEF Spec, ImplementsChannel, Channel!ChannelSpec
-----------------------------------------------------------------------------
\* The computed size may be smaller than the initial one, but never smaller
\* than the queue: the queue has numbered everything that is in it.
Numbered ==
    exists => Len(queue) + (IF inFlight = {} THEN 0 ELSE 1) <= sequenceNumber

SizeInv == QueueBounded /\ Numbered

\* Enqueue keeps the queue within the size it has just computed.
LEMMA EnqueueBounded ==
    ASSUME TypeInv, NEW s \in Subscriptions,
           NEW number \in Nat, NEW calc \in BOOLEAN,
           NEW size \in MinQueueSize..MaxQueueSize, NEW created \in Nat,
           NEW drops \in [Reasons -> Nat],
           Enqueue(s, number, calc, size, created, drops),
           Len(queue) <= size, Len(queue) <= number
    PROVE  /\ Len(queue') <= maxQueueSize'
           /\ Len(queue') <= Len(queue) + 1
           /\ sequenceNumber' = number + 1
<1> DEFINE bound == SizeAfter(number, calc, size, created)
           info  == [id |-> arrivals + 1, sub |-> s, context |-> listenerTime,
                     number |-> number, arrival |-> now, lastRetry |-> 0,
                     attempts |-> 0]
           full  == Len(queue) + 1 > bound
<1>1. queue \in Seq(Info) /\ Len(queue) \in Nat
  BY DEF TypeInv, TypeOK
<1>2. bound \in Nat /\ Len(queue) <= bound /\ 1 <= bound
  <2>1. CASE bound = size
    BY <1>1, <2>1, SizeAssumption
  <2>2. CASE bound = Clamp(number)
    <3>1. Clamp(number) \in MinQueueSize..MaxQueueSize
      BY SizeAssumption DEF Clamp
    <3>2. Len(queue) <= Clamp(number)
      BY <1>1, SizeAssumption DEF Clamp
    <3>3. QED
      BY <1>1, <2>2, <3>1, <3>2, SizeAssumption
  <2>3. QED
    BY <2>1, <2>2 DEF SizeAfter
<1>3. queue' = IF full THEN Append(Tail(queue), info) ELSE Append(queue, info)
  BY DEF Enqueue
<1>4. maxQueueSize' = bound /\ sequenceNumber' = number + 1
  BY DEF Enqueue
<1>5. Len(queue') <= bound /\ Len(queue') <= Len(queue) + 1
  <2>1. CASE full
    <3>1. Len(queue) \in Nat \ {0} /\ queue # <<>>
      BY <1>1, <1>2, <2>1
    <3>2. Tail(queue) \in Seq(Info) /\ Len(Tail(queue)) = Len(queue) - 1
      BY <1>1, <3>1
    <3>3. Len(queue') = Len(queue)
      BY <1>3, <2>1, <3>1, <3>2
    <3>4. QED
      BY <1>1, <1>2, <3>3
  <2>2. CASE ~full
    <3>1. Len(queue') = Len(queue) + 1
      BY <1>1, <1>3, <2>2
    <3>2. QED
      BY <1>1, <1>2, <2>2, <3>1
  <2>3. QED
    BY <2>1, <2>2
<1>6. QED
  BY <1>4, <1>5

\* The empty queue is within its size.
LEMMA InitBounded == Init => SizeInv
BY SizeAssumption DEF Init, SizeInv, QueueBounded, Numbered

\* Every step keeps the queue within its size.
LEMMA StepBounded ==
    ASSUME TypeInv, OrderInv, SizeInv, [Next]_vars
    PROVE  SizeInv'
<1> USE DEF queueVars, sizeVars, statVars, configVars, tableVars, clockVars,
            historyVars
<1>0. /\ queue \in Seq(Info) /\ Len(queue) \in Nat
      /\ maxQueueSize \in Nat /\ sequenceNumber \in Nat
  BY SizeAssumption DEF TypeInv, TypeOK
<1>1. ASSUME NEW s \in Subscriptions, EnqueueExisting(s)
      PROVE  SizeInv'
  <2>1. exists /\ inFlight' = inFlight
    BY <1>1 DEF EnqueueExisting
  <2>2. Len(queue) <= sequenceNumber
    BY <1>0, <2>1 DEF SizeInv, Numbered
  <2>3. /\ Len(queue') <= maxQueueSize' /\ Len(queue') <= Len(queue) + 1
        /\ sequenceNumber' = sequenceNumber + 1
    BY <1>1, <2>2, EnqueueBounded
    DEF EnqueueExisting, TypeInv, TypeOK, SizeInv, QueueBounded
  <2>4. Len(queue') \in Nat
    BY <1>1, StepTyped DEF Next, TypeInv, TypeOK
  <2>5. Numbered'
    BY <1>0, <2>1, <2>3, <2>4 DEF SizeInv, Numbered
  <2>6. QED
    BY <2>3, <2>5 DEF SizeInv, QueueBounded
<1>2. ASSUME NEW s \in Subscriptions, CreateAndEnqueue(s)
      PROVE  SizeInv'
  <2>1. inFlight' = inFlight /\ inFlight = {} /\ queue = <<>>
    BY <1>2 DEF CreateAndEnqueue, OrderInv, DeletedIdle
  <2>2. NoDrops \in [Reasons -> Nat] /\ MaxQueueSize \in MinQueueSize..MaxQueueSize
    BY SizeAssumption DEF NoDrops
  <2>3. now \in Nat /\ Enqueue(s, 0, TRUE, MaxQueueSize, now, NoDrops)
    BY <1>2 DEF CreateAndEnqueue, TypeInv, TypeOK
  <2>4. Len(queue) = 0 /\ Len(queue) <= 0 /\ Len(queue) <= MaxQueueSize
    BY <2>1, SizeAssumption
  <2>5. /\ Len(queue') <= maxQueueSize' /\ Len(queue') <= Len(queue) + 1
        /\ sequenceNumber' = 0 + 1
    <3>1. 0 \in Nat /\ TRUE \in BOOLEAN
      OBVIOUS
    <3>2. QED
      BY ONLY TypeInv, <2>2, <2>3, <2>4, <3>1, EnqueueBounded, s \in Subscriptions
  <2>6. Numbered'
    BY <2>1, <2>4, <2>5 DEF Numbered
  <2>7. QED
    BY <2>5, <2>6 DEF SizeInv, QueueBounded
<1>3. ASSUME NEW k \in 0..Len(queue), GetNextWait(k)
      PROVE  SizeInv'
  <2>1. queue' = SubSeq(queue, k + 1, Len(queue))
    BY <1>3 DEF GetNextWait
  <2>2. UNCHANGED <<exists, inFlight, sequenceNumber, maxQueueSize>>
    BY <1>3 DEF GetNextWait
  <2>3. Len(queue') = Len(queue) - k
    BY <1>0, <2>1, Suffix
  <2>4. QED
    BY <1>0, <2>2, <2>3 DEF SizeInv, QueueBounded, Numbered
<1>4. ASSUME NEW k \in 0..Len(queue), GetNextDeliver(k)
      PROVE  SizeInv'
  <2>1. k + 1 \in 0..Len(queue)
    BY <1>0, <1>4 DEF GetNextDeliver
  <2>2. queue' = SubSeq(queue, (k + 1) + 1, Len(queue))
    BY <1>4 DEF GetNextDeliver
  <2>3. UNCHANGED <<exists, sequenceNumber, maxQueueSize>> /\ inFlight = {}
    BY <1>4 DEF GetNextDeliver, Deliverable, OrderInv, OnePending
  <2>4. Len(queue') = Len(queue) - (k + 1)
    BY <1>0, <2>1, <2>2, Suffix
  <2>5. QED
    BY <1>0, <2>1, <2>3, <2>4 DEF SizeInv, QueueBounded, Numbered
<1>5. ASSUME NEW info \in inFlight, UpdateDeliveryRetrySuccess(info)
      PROVE  SizeInv'
  <2>1. inFlight' = {} /\ inFlight # {}
    BY <1>5 DEF UpdateDeliveryRetrySuccess, OrderInv, OnePending
  <2>2. UNCHANGED <<queue, exists, sequenceNumber, maxQueueSize>>
    BY <1>5 DEF UpdateDeliveryRetrySuccess
  <2>3. QED
    BY <1>0, <2>1, <2>2 DEF SizeInv, QueueBounded, Numbered
<1>6. ASSUME NEW info \in inFlight, UpdateDeliveryRetryFailure(info)
      PROVE  SizeInv'
  <2> DEFINE again == [info EXCEPT !.attempts = (info.attempts + 1) % UShort,
                                   !.lastRetry = now]
  <2>1. inFlight' = {} /\ inFlight # {}
    BY <1>6 DEF UpdateDeliveryRetryFailure, OrderInv, OnePending
  <2>2. UNCHANGED <<exists, sequenceNumber, maxQueueSize>>
    BY <1>6 DEF UpdateDeliveryRetryFailure, PutBack, NoRoom
  <2>3. queue' = queue \/ (queue' = <<again>> \o queue /\ Len(queue) < maxQueueSize)
    BY <1>0, <1>6 DEF UpdateDeliveryRetryFailure, PutBack, NoRoom
  <2>4. CASE queue' = queue
    BY <1>0, <2>1, <2>2, <2>4 DEF SizeInv, QueueBounded, Numbered
  <2>5. CASE queue' = <<again>> \o queue /\ Len(queue) < maxQueueSize
    <3>1. Len(queue') = Len(queue) + 1
      BY <1>0, <2>5
    <3>2. QED
      BY <1>0, <2>1, <2>2, <2>5, <3>1 DEF SizeInv, QueueBounded, Numbered
  <2>6. QED
    BY <2>3, <2>4, <2>5
<1>7. ASSUME NEW s \in Subscriptions, DeleteMatchedIndications(s)
      PROVE  SizeInv'
  <2>1. PICK m \in 0..Len(queue) : \E kept \in [1..m -> 1..Len(queue)] :
           queue' = [i \in 1..m |-> queue[kept[i]]]
    BY <1>7 DEF DeleteMatchedIndications
  <2>2. Len(queue') = m /\ m \in Nat /\ m <= Len(queue)
    BY <1>0, <2>1
  <2>3. UNCHANGED <<exists, inFlight, sequenceNumber, maxQueueSize>>
    BY <1>7 DEF DeleteMatchedIndications
  <2>4. QED
    BY <1>0, <2>2, <2>3 DEF SizeInv, QueueBounded, Numbered
<1>8. CASE Cleanup
  <2>1. queue' = <<>> /\ ~exists' /\ maxQueueSize' = maxQueueSize
    BY <1>8 DEF Cleanup
  <2>2. Len(queue') = 0
    BY <2>1
  <2>3. QED
    BY <1>0, <2>1, <2>2 DEF SizeInv, QueueBounded, Numbered
<1>9. CASE UNCHANGED <<exists, queue, inFlight, sequenceNumber, maxQueueSize>>
  BY <1>9 DEF SizeInv, QueueBounded, Numbered
<1>10. \/ \E s \in Subscriptions : EnqueueExisting(s)
       \/ \E s \in Subscriptions : CreateAndEnqueue(s)
       \/ \E k \in 0..Len(queue) : GetNextWait(k)
       \/ \E k \in 0..Len(queue) : GetNextDeliver(k)
       \/ \E info \in inFlight : UpdateDeliveryRetrySuccess(info)
       \/ \E info \in inFlight : UpdateDeliveryRetryFailure(info)
       \/ \E s \in Subscriptions : DeleteMatchedIndications(s)
       \/ Cleanup
       \/ UNCHANGED <<exists, queue, inFlight, sequenceNumber, maxQueueSize>>
  BY DEF Next, vars, ReadClock, GetNextNone, BeginControl,
         SetDeliveryRetryAttempts, SetMinDeliveryRetryInterval, Tick
<1>11. QED
  BY <1>1, <1>2, <1>3, <1>4, <1>5, <1>6, <1>7, <1>8, <1>9, <1>10

\* The queue never exceeds its size, though the size is computed anew, and
\* may shrink, while indications are queued.
THEOREM BoundedQueue == Spec => []QueueBounded
<1>1. SizeInv => QueueBounded
  BY DEF SizeInv
<1>2. Init => SizeInv
  BY InitBounded
<1>3. TypeInv /\ OrderInv /\ SizeInv /\ [Next]_vars => SizeInv'
  BY StepBounded
<1>4. QED
  BY <1>1, <1>2, <1>3, Ordered, PTL DEF Spec
-----------------------------------------------------------------------------
\* The drop statistics as one number, and the indications that are out.
Drops ==
    dropped["DESTINATIONQUEUE_FULL"] + dropped["SIL_EXPIRED"]
        + dropped["DRA_EXCEEDED"] + dropped["SUBSCRIPTION_NOT_ACTIVE"]

Outstanding == IF inFlight = {} THEN 0 ELSE 1

Balanced == exists => sequenceNumber = Len(queue) + Outstanding + delivered + Drops

\* Indications that are dropped are counted once each.
LEMMA DropsGrow ==
    ASSUME TypeInv, NEW r \in Reasons, NEW n \in Nat,
           dropped' = [dropped EXCEPT ![r] = @ + n]
    PROVE  Drops \in Nat /\ Drops' = Drops + n
BY DEF TypeInv, TypeOK, Reasons, Drops

\* An indication that is enqueued is numbered, and is queued or displaces another one,
\* which is counted.
LEMMA EnqueueBalanced ==
    ASSUME TypeInv, NEW s \in Subscriptions,
           NEW number \in Nat, NEW calc \in BOOLEAN,
           NEW size \in MinQueueSize..MaxQueueSize, NEW created \in Nat,
           NEW drops \in [Reasons -> Nat],
           Enqueue(s, number, calc, size, created, drops)
    PROVE  /\ sequenceNumber' = number + 1
           /\ \/ Len(queue') = Len(queue) + 1 /\ dropped' = drops
              \/ /\ Len(queue') = Len(queue)
                 /\ dropped' = [drops EXCEPT !["DESTINATIONQUEUE_FULL"] = @ + 1]
<1> DEFINE bound == SizeAfter(number, calc, size, created)
           info  == [id |-> arrivals + 1, sub |-> s, context |-> listenerTime,
                     number |-> number, arrival |-> now, lastRetry |-> 0,
                     attempts |-> 0]
           full  == Len(queue) + 1 > bound
<1>1. queue \in Seq(Info) /\ Len(queue) \in Nat
  BY DEF TypeInv, TypeOK
<1>2. bound \in Nat /\ 1 <= bound
  BY SizeAssumption DEF SizeAfter, Clamp
<1>3. queue' = IF full THEN Append(Tail(queue), info) ELSE Append(queue, info)
  BY DEF Enqueue
<1>4. /\ sequenceNumber' = number + 1
      /\ dropped' = IF full THEN [drops EXCEPT !["DESTINATIONQUEUE_FULL"] = @ + 1] ELSE drops
  BY DEF Enqueue
<1>5. CASE full
  <2>1. Len(queue) \in Nat \ {0} /\ queue # <<>>
    BY <1>1, <1>2, <1>5
  <2>2. Tail(queue) \in Seq(Info) /\ Len(Tail(queue)) = Len(queue) - 1
    BY <1>1, <2>1
  <2>3. Len(queue') = Len(queue)
    BY <1>3, <1>5, <2>1, <2>2
  <2>4. QED
    BY <1>4, <1>5, <2>3
<1>6. CASE ~full
  <2>1. Len(queue') = Len(queue) + 1
    BY <1>1, <1>3, <1>6
  <2>2. QED
    BY <1>4, <1>6, <2>1
<1>7. QED
  BY <1>5, <1>6

\* Every step keeps the balance.
LEMMA StepBalanced ==
    ASSUME TypeInv, TypeInv', OrderInv, Balanced, [Next]_vars
    PROVE  Balanced'
<1> USE DEF queueVars, sizeVars, statVars, configVars, tableVars, clockVars,
            historyVars
<1>1. /\ queue \in Seq(Info) /\ Len(queue) \in Nat /\ sequenceNumber \in Nat
      /\ delivered \in Nat /\ Len(queue') \in Nat /\ Outstanding \in {0, 1}
      /\ dropped \in [Reasons -> Nat] /\ Drops \in Nat
  <2>1. /\ queue \in Seq(Info) /\ sequenceNumber \in Nat
        /\ delivered \in Nat /\ dropped \in [Reasons -> Nat] /\ queue' \in Seq(Info)
    BY DEF TypeInv, TypeOK
  <2>2. Len(queue) \in Nat /\ Len(queue') \in Nat
    BY <2>1
  <2>3. Drops \in Nat
    BY <2>1 DEF Drops, Reasons
  <2>4. Outstanding \in {0, 1}
    BY DEF Outstanding
  <2>5. QED
    BY <2>1, <2>2, <2>3, <2>4
<1>2. ASSUME NEW s \in Subscriptions, EnqueueExisting(s)
      PROVE  Balanced'
  <2>1. exists /\ inFlight' = inFlight /\ delivered' = delivered
    BY <1>2 DEF EnqueueExisting
  <2>2. /\ sequenceNumber' = sequenceNumber + 1
        /\ \/ Len(queue') = Len(queue) + 1 /\ dropped' = dropped
           \/ /\ Len(queue') = Len(queue)
              /\ dropped' = [dropped EXCEPT !["DESTINATIONQUEUE_FULL"] = @ + 1]
    BY <1>2, EnqueueBalanced DEF EnqueueExisting, TypeInv, TypeOK
  <2>3. Drops' = Drops + (Len(queue) + 1 - Len(queue'))
    <3>1. CASE Len(queue') = Len(queue) + 1 /\ dropped' = dropped
      BY <1>1, <3>1 DEF Drops
    <3>2. CASE /\ Len(queue') = Len(queue)
               /\ dropped' = [dropped EXCEPT !["DESTINATIONQUEUE_FULL"] = @ + 1]
      <4>1. "DESTINATIONQUEUE_FULL" \in Reasons
        BY DEF Reasons
      <4>2. Drops' = Drops + 1
        BY <3>2, <4>1, DropsGrow
      <4>3. QED
        BY <1>1, <3>2, <4>2
    <3>3. QED
      BY <2>2, <3>1, <3>2
  <2>4. sequenceNumber = Len(queue) + Outstanding + delivered + Drops
    BY <2>1 DEF Balanced
  <2>5. Outstanding' = Outstanding
    BY <2>1 DEF Outstanding
  <2>6. QED
    BY <1>1, <2>1, <2>2, <2>3, <2>4, <2>5 DEF Balanced
<1>3. ASSUME NEW s \in Subscriptions, CreateAndEnqueue(s)
      PROVE  Balanced'
  <2>1. inFlight' = {} /\ queue = <<>> /\ delivered' = 0
    BY <1>3 DEF CreateAndEnqueue, OrderInv, DeletedIdle
  <2>2. NoDrops \in [Reasons -> Nat] /\ MaxQueueSize \in MinQueueSize..MaxQueueSize
    BY SizeAssumption DEF NoDrops
  <2>3. now \in Nat /\ Enqueue(s, 0, TRUE, MaxQueueSize, now, NoDrops)
    BY <1>3 DEF CreateAndEnqueue, TypeInv, TypeOK
  <2>4. /\ sequenceNumber' = 0 + 1
        /\ \/ Len(queue') = Len(queue) + 1 /\ dropped' = NoDrops
           \/ /\ Len(queue') = Len(queue)
              /\ dropped' = [NoDrops EXCEPT !["DESTINATIONQUEUE_FULL"] = @ + 1]
    <3>1. 0 \in Nat /\ TRUE \in BOOLEAN
      OBVIOUS
    <3>2. QED
      BY ONLY TypeInv, <2>2, <2>3, <3>1, EnqueueBalanced, s \in Subscriptions
  <2>5. Len(queue) = 0
    BY <2>1
  <2>6. Drops' = 1 - Len(queue')
    <3>1. CASE Len(queue') = Len(queue) + 1 /\ dropped' = NoDrops
      BY <2>5, <3>1 DEF Drops, NoDrops, Reasons
    <3>2. CASE /\ Len(queue') = Len(queue)
               /\ dropped' = [NoDrops EXCEPT !["DESTINATIONQUEUE_FULL"] = @ + 1]
      BY <2>5, <3>2 DEF Drops, NoDrops, Reasons
    <3>3. QED
      BY <2>4, <3>1, <3>2
  <2>7. QED
    BY <1>1, <2>1, <2>4, <2>6 DEF Balanced, Outstanding
<1>4. ASSUME NEW k \in 0..Len(queue), GetNextWait(k)
      PROVE  Balanced'
  <2>1. Len(queue') = Len(queue) - k
    BY <1>1, <1>4, Suffix DEF GetNextWait
  <2>2. Drops' = Drops + k
    <3>1. "SIL_EXPIRED" \in Reasons /\ k \in Nat
      BY <1>1 DEF Reasons
    <3>2. dropped' = [dropped EXCEPT !["SIL_EXPIRED"] = @ + k]
      BY <1>4 DEF GetNextWait, DropBy
    <3>3. QED
      BY <3>1, <3>2, DropsGrow
  <2>3. UNCHANGED <<exists, inFlight, sequenceNumber, delivered>>
    BY <1>4 DEF GetNextWait
  <2>4. Outstanding' = Outstanding /\ k \in Nat /\ k <= Len(queue)
    BY <1>1, <2>3 DEF Outstanding
  <2>5. QED
    BY <1>1, <2>1, <2>2, <2>3, <2>4 DEF Balanced
<1>5. ASSUME NEW k \in 0..Len(queue), GetNextDeliver(k)
      PROVE  Balanced'
  <2>1. k + 1 \in 0..Len(queue) /\ queue' = SubSeq(queue, (k + 1) + 1, Len(queue))
    <3>1. k + 1 \in 0..Len(queue) /\ (k + 1) + 1 = k + 2
      BY <1>1, <1>5 DEF GetNextDeliver
    <3>2. queue' = SubSeq(queue, k + 2, Len(queue))
      BY <1>5 DEF GetNextDeliver
    <3>3. QED
      BY <3>1, <3>2
  <2>2. Len(queue') = Len(queue) - (k + 1)
    BY <1>1, <2>1, Suffix
  <2>3. Drops' = Drops + k
    <3>1. "SIL_EXPIRED" \in Reasons /\ k \in Nat
      BY <1>1 DEF Reasons
    <3>2. dropped' = [dropped EXCEPT !["SIL_EXPIRED"] = @ + k]
      BY <1>5 DEF GetNextDeliver, DropBy
    <3>3. QED
      BY <3>1, <3>2, DropsGrow
  <2>4. UNCHANGED <<exists, sequenceNumber, delivered>> /\ inFlight = {} /\ inFlight' # {}
    BY <1>5 DEF GetNextDeliver, Deliverable, OrderInv, OnePending
  <2>5. Outstanding = 0 /\ Outstanding' = 1 /\ k \in Nat
    BY <1>1, <2>4 DEF Outstanding
  <2>6. QED
    BY <1>1, <2>2, <2>3, <2>4, <2>5 DEF Balanced
<1>6. ASSUME NEW info \in inFlight, UpdateDeliveryRetrySuccess(info)
      PROVE  Balanced'
  <2>1. inFlight' = {} /\ inFlight # {}
    BY <1>6 DEF UpdateDeliveryRetrySuccess, OrderInv, OnePending
  <2>2. UNCHANGED <<queue, exists, sequenceNumber, dropped>> /\ delivered' = delivered + 1
    BY <1>6 DEF UpdateDeliveryRetrySuccess
  <2>3. QED
    BY <1>1, <2>1, <2>2 DEF Balanced, Outstanding, Drops
<1>7. ASSUME NEW info \in inFlight, UpdateDeliveryRetryFailure(info)
      PROVE  Balanced'
  <2> DEFINE again == [info EXCEPT !.attempts = (info.attempts + 1) % UShort,
                                   !.lastRetry = now]
  <2>1. inFlight' = {} /\ inFlight # {}
    BY <1>7 DEF UpdateDeliveryRetryFailure, OrderInv, OnePending
  <2>2. UNCHANGED <<exists, sequenceNumber, delivered>>
    BY <1>7 DEF UpdateDeliveryRetryFailure, PutBack, NoRoom
  <2>3. \/ queue' = <<again>> \o queue /\ dropped' = dropped
        \/ queue' = queue /\ dropped' = [dropped EXCEPT !["DRA_EXCEEDED"] = @ + 1]
        \/ queue' = queue /\ dropped' = [dropped EXCEPT !["DESTINATIONQUEUE_FULL"] = @ + 1]
    BY <1>7 DEF UpdateDeliveryRetryFailure, PutBack, NoRoom
  <2>4. CASE queue' = <<again>> \o queue /\ dropped' = dropped
    <3>1. Len(queue') = Len(queue) + 1 /\ Drops' = Drops
      BY <1>1, <2>4 DEF Drops
    <3>2. QED
      BY <1>1, <2>1, <2>2, <3>1 DEF Balanced, Outstanding
  <2>5. CASE queue' = queue /\ dropped' # dropped
    <3>1. Drops' = Drops + 1
      BY <1>1, <2>3, <2>5, DropsGrow DEF Reasons
    <3>2. QED
      BY <1>1, <2>1, <2>2, <2>5, <3>1 DEF Balanced, Outstanding
  <2>6. QED
    <3>1. dropped["DRA_EXCEEDED"] + 1 # dropped["DRA_EXCEEDED"]
          /\ dropped["DESTINATIONQUEUE_FULL"] + 1 # dropped["DESTINATIONQUEUE_FULL"]
      BY <1>1 DEF Reasons
    <3>2. QED
      BY <1>1, <2>3, <2>4, <2>5, <3>1 DEF Reasons
<1>8. ASSUME NEW s \in Subscriptions, DeleteMatchedIndications(s)
      PROVE  Balanced'
  <2>1. PICK m \in 0..Len(queue) :
           /\ \E kept \in [1..m -> 1..Len(queue)] : queue' = [i \in 1..m |-> queue[kept[i]]]
           /\ DropBy("SUBSCRIPTION_NOT_ACTIVE", Len(queue) - m)
    BY <1>8 DEF DeleteMatchedIndications
  <2>2. Len(queue') = m /\ m \in Nat /\ Len(queue) - m \in Nat
    BY <1>1, <2>1
  <2>3. Drops' = Drops + (Len(queue) - m)
    BY <2>1, <2>2, DropsGrow DEF DropBy, Reasons
  <2>4. UNCHANGED <<exists, inFlight, sequenceNumber, delivered>>
    BY <1>8 DEF DeleteMatchedIndications
  <2>5. QED
    BY <1>1, <2>2, <2>3, <2>4 DEF Balanced, Outstanding
<1>9. CASE Cleanup
  BY <1>9 DEF Cleanup, Balanced
<1>10. CASE UNCHANGED <<exists, queue, inFlight, sequenceNumber, delivered, dropped>>
  BY <1>10 DEF Balanced, Outstanding, Drops
<1>11. \/ \E s \in Subscriptions : EnqueueExisting(s)
       \/ \E s \in Subscriptions : CreateAndEnqueue(s)
       \/ \E k \in 0..Len(queue) : GetNextWait(k)
       \/ \E k \in 0..Len(queue) : GetNextDeliver(k)
       \/ \E info \in inFlight : UpdateDeliveryRetrySuccess(info)
       \/ \E info \in inFlight : UpdateDeliveryRetryFailure(info)
       \/ \E s \in Subscriptions : DeleteMatchedIndications(s)
       \/ Cleanup
       \/ UNCHANGED <<exists, queue, inFlight, sequenceNumber, delivered, dropped>>
  BY DEF Next, vars, ReadClock, GetNextNone, BeginControl,
         SetDeliveryRetryAttempts, SetMinDeliveryRetryInterval, Tick
<1>12. QED
  BY <1>2, <1>3, <1>4, <1>5, <1>6, <1>7, <1>8, <1>9, <1>10, <1>11

\* Whatever the queue numbered is queued, out, delivered, or in one of the drop
\* statistics, in any order of arrivals, expiries, failures, discards and cleanups.
THEOREM AllAccounted == Spec => []Accounted
<1>1. TypeInv /\ OrderInv /\ Balanced => Accounted
  <2> SUFFICES ASSUME TypeInv, OrderInv, Balanced, exists
               PROVE  sequenceNumber = Len(queue) + Cardinality(inFlight) + delivered
                          + dropped["DESTINATIONQUEUE_FULL"] + dropped["SIL_EXPIRED"]
                          + dropped["DRA_EXCEEDED"] + dropped["SUBSCRIPTION_NOT_ACTIVE"]
    BY DEF Accounted
  <2>1. inFlight = {} \/ \E a : inFlight = {a}
    <3>1. ASSUME NEW a \in inFlight
          PROVE  inFlight = {a}
      BY DEF OrderInv, OnePending
    <3>2. QED
      BY <3>1
  <2>2. Cardinality(inFlight) = Outstanding
    BY <2>1, FS_EmptySet, FS_Singleton DEF Outstanding
  <2>3. /\ Len(queue) \in Nat /\ delivered \in Nat /\ Outstanding \in Nat
        /\ \A r \in Reasons : dropped[r] \in Nat
    BY DEF TypeInv, TypeOK, Outstanding
  <2>4. QED
    BY <2>2, <2>3 DEF Balanced, Drops, Reasons
<1>2. Init => Balanced
  BY DEF Init, Balanced
<1>3. TypeInv /\ TypeInv' /\ OrderInv /\ Balanced /\ [Next]_vars => Balanced'
  BY StepBalanced
<1>4. QED
  BY <1>1, <1>2, <1>3, Ordered, PTL DEF Spec

-----------------------------------------------------------------------------
\* Arithmetic that the charging of attempts needs.
LEMMA Multiples ==
    ASSUME NEW a \in Nat, NEW b \in Nat, a <= b, NEW n \in Nat
    PROVE  a * n \in Nat /\ a * n <= b * n
OBVIOUS

\* A multiple of a sum.
LEMMA Distributes ==
    ASSUME NEW a \in Int, NEW b \in Int, NEW n \in Nat
    PROVE  (a + b) * n = a * n + b * n
OBVIOUS

\* The quotient counts whole intervals.
LEMMA Quotient ==
    ASSUME NEW x \in Nat, NEW d \in Nat \ {0}
    PROVE  x \div d \in Nat /\ (x \div d) * d <= x
OBVIOUS

\* A Uint16 is never more than what was assigned to it.
LEMMA Remainder ==
    ASSUME NEW x \in Nat, NEW d \in Nat \ {0}
    PROVE  x % d \in Nat /\ x % d <= x
OBVIOUS

\* What a queued indication was charged, and one that is out.
Charged(info, interval) ==
    IF info.lastRetry = 0 THEN info.attempts = 0
    ELSE /\ info.attempts * interval <= info.lastRetry - info.arrival + interval
         /\ info.arrival <= info.lastRetry

Earned(info, interval, time) == info.attempts * interval <= time - info.arrival

EarnedInv ==
    /\ now > 0
    /\ \A i \in DOMAIN queue : Charged(queue[i], minInterval)
    /\ \A a \in inFlight : Earned(a, minInterval, now)

\* A shorter interval makes the charges smaller.
LEMMA ShorterInterval ==
    ASSUME NEW info \in Info, NEW m \in Nat, NEW n \in Nat, n <= m,
           NEW time \in Nat, NEW later \in Nat, time <= later
    PROVE  /\ Charged(info, m) => Charged(info, n)
           /\ Earned(info, m, time) => Earned(info, n, later)
<1>1. info.attempts \in Nat /\ info.arrival \in Nat /\ info.lastRetry \in Nat
  BY DEF Info
<1>2. /\ info.attempts * n \in Nat /\ info.attempts * m \in Nat
      /\ info.attempts * n <= info.attempts * m
  BY <1>1
<1>3. Earned(info, m, time) => Earned(info, n, later)
  BY <1>1, <1>2 DEF Earned
<1>4. CASE info.lastRetry = 0 \/ ~Charged(info, m)
  BY <1>3, <1>4 DEF Charged
<1>5. CASE info.lastRetry # 0 /\ Charged(info, m) /\ info.attempts = 0
  <2>1. info.attempts * n = 0
    BY <1>5
  <2>2. info.arrival <= info.lastRetry
    BY <1>5 DEF Charged
  <2>3. QED
    BY <1>1, <1>3, <1>5, <2>1, <2>2 DEF Charged
<1>6. CASE info.lastRetry # 0 /\ Charged(info, m) /\ info.attempts # 0
  <2> DEFINE before == info.attempts - 1
  <2>1. before \in Nat /\ info.attempts = before + 1
    BY <1>1, <1>6
  <2>2. info.attempts * m = before * m + m /\ info.attempts * n = before * n + n
    <3>1. 1 * m = m /\ 1 * n = n
      OBVIOUS
    <3>2. (before + 1) * m = before * m + 1 * m /\ (before + 1) * n = before * n + 1 * n
      BY <2>1, Distributes
    <3>3. QED
      BY <2>1, <3>1, <3>2
  <2>3. before * n <= before * m /\ before * n \in Nat /\ before * m \in Nat
    BY <2>1
  <2> HIDE DEF before
  <2>4. QED
    BY <1>1, <1>3, <1>6, <2>2, <2>3 DEF Charged
<1>7. QED
  BY <1>4, <1>5, <1>6

\* At a dispatch an indication is charged for the whole intervals it has waited, less
\* the one of the attempt that begins.
LEMMA DispatchEarned ==
    ASSUME TypeInv, EarnedInv, NEW k \in DOMAIN queue, ~Expired(k), Due(k)
    PROVE  Earned([queue[k] EXCEPT !.attempts = AttemptsAtDispatch(queue[k], TimeAt(k))],
                  minInterval, now)
<1> DEFINE info == queue[k]
           t == TimeAt(k)
           since == IF info.lastRetry # 0 THEN info.lastRetry ELSE info.arrival
           elapsed == (t - since) \div minInterval
           charged == AttemptsAtDispatch(info, t)
<1>1. /\ info \in Info /\ info.arrival \in Nat /\ info.lastRetry \in Nat
      /\ info.attempts \in Nat
      /\ t \in Nat /\ t <= now /\ now \in Nat
      /\ info.arrival <= t /\ info.lastRetry <= t
  BY QueuedTyped, TimeAtReached DEF TypeInv, TypeOK
<1>2. minInterval \in Nat \ {0} /\ UShort \in Nat \ {0}
  BY IntervalPositive, SizeAssumption
<1>3. t - since \in Nat /\ since \in Nat
  BY <1>1
<1>4. elapsed \in Nat /\ elapsed * minInterval <= t - since
  BY <1>2, <1>3, Quotient
<1>5. ElapsedAttempts(info, t) = elapsed
  BY DEF ElapsedAttempts
<1>6. Charged(info, minInterval)
  BY DEF EarnedInv
<1>7. t - info.lastRetry >= minInterval
  BY DEF Due
<1> HIDE DEF t, info
<1>8. charged \in Nat /\ charged * minInterval <= t - info.arrival
  <2>1. CASE elapsed = 0
    <3>1. charged = info.attempts
      BY <1>5, <2>1 DEF AttemptsAtDispatch
    <3>2. CASE info.lastRetry = 0
      <4>1. charged = 0
        BY <1>6, <3>1, <3>2 DEF Charged
      <4>2. charged * minInterval = 0
        BY <1>2, <4>1
      <4>3. QED
        BY <1>1, <4>1, <4>2
    <3>3. CASE info.lastRetry # 0
      <4>1. info.attempts * minInterval <= info.lastRetry - info.arrival + minInterval
        BY <1>6, <3>3 DEF Charged
      <4>2. info.attempts * minInterval \in Nat
        BY <1>1, <1>2
      <4>3. QED
        BY <1>1, <1>2, <1>7, <3>1, <4>1, <4>2
    <3>4. QED
      BY <3>2, <3>3
  <2>2. CASE elapsed # 0
    <3> DEFINE whole == info.attempts + elapsed - 1
    <3>1. elapsed - 1 \in Nat /\ whole \in Nat /\ whole = info.attempts + (elapsed - 1)
      BY <1>1, <1>4, <2>2
    <3>2. charged = whole % UShort
      BY <1>5, <2>2 DEF AttemptsAtDispatch
    <3>3. charged \in Nat /\ charged <= whole
      BY <1>2, <3>1, <3>2, Remainder
    <3>4. /\ whole * minInterval = info.attempts * minInterval + (elapsed - 1) * minInterval
          /\ elapsed * minInterval = (elapsed - 1) * minInterval + minInterval
      <4>1. whole * minInterval = info.attempts * minInterval + (elapsed - 1) * minInterval
        BY <1>1, <1>2, <3>1, Distributes
      <4>2. ((elapsed - 1) + 1) * minInterval = (elapsed - 1) * minInterval + 1 * minInterval
        BY <1>2, <3>1, Distributes
      <4>3. (elapsed - 1) + 1 = elapsed /\ 1 * minInterval = minInterval
        BY <1>2, <1>4
      <4>4. QED
        BY <4>1, <4>2, <4>3
    <3>5. /\ charged * minInterval \in Nat /\ charged * minInterval <= whole * minInterval
          /\ info.attempts * minInterval \in Nat /\ (elapsed - 1) * minInterval \in Nat
      BY <1>1, <1>2, <3>1, <3>3, Multiples
    <3>6. info.attempts * minInterval <= since - info.arrival + minInterval
      <4>1. CASE info.lastRetry = 0
        <5>1. info.attempts * minInterval = 0 /\ since = info.arrival
          BY <1>2, <1>6, <4>1 DEF Charged
        <5>2. QED
          BY <1>1, <1>2, <5>1
      <4>2. CASE info.lastRetry # 0
        BY <1>6, <4>2 DEF Charged
      <4>3. QED
        BY <4>1, <4>2
    <3>7. elapsed * minInterval \in Nat
      BY <1>2, <1>4
    <3> HIDE DEF whole
    <3> HIDE DEF charged, elapsed, since
    <3>8. QED
      BY <1>1, <1>2, <1>3, <1>4, <3>3, <3>4, <3>5, <3>6, <3>7
  <2>3. QED
    BY <2>1, <2>2
<1> HIDE DEF charged
<1>9. charged * minInterval \in Nat
  BY <1>2, <1>8
<1>10. charged * minInterval <= now - info.arrival
  BY <1>1, <1>8, <1>9
<1> DEFINE out == [info EXCEPT !.attempts = charged]
<1>11. out.attempts = charged /\ out.arrival = info.arrival
  BY <1>1, <1>8 DEF Info
<1>12. Earned(out, minInterval, now)
  BY <1>10, <1>11 DEF Earned
<1>13. QED
  BY <1>12 DEF charged, info, t


\* Every step keeps the charges honest, if the interval does not grow.
LEMMA StepEarned ==
    ASSUME TypeInv, TypeInv', EarnedInv, [Next]_vars, minInterval' <= minInterval
    PROVE  EarnedInv'
<1> USE DEF queueVars, sizeVars, statVars, configVars, tableVars, clockVars,
            historyVars
<1>1. /\ queue \in Seq(Info) /\ queue' \in Seq(Info) /\ inFlight \subseteq Info
      /\ minInterval \in Nat /\ minInterval' \in Nat /\ now \in Nat /\ now' \in Nat
  BY DEF TypeInv, TypeOK
<1>2. now' = now \/ now' = now + 1
  BY DEF Next, vars, EnqueueExisting, CreateAndEnqueue, Enqueue, ReadClock, GetNextNone,
         GetNextWait, GetNextDeliver, UpdateDeliveryRetrySuccess, UpdateDeliveryRetryFailure,
         BeginControl, DeleteMatchedIndications, Cleanup, SetDeliveryRetryAttempts,
         SetMinDeliveryRetryInterval, Tick
<1>3. now <= now' /\ now' > 0
  BY <1>1, <1>2 DEF EarnedInv
<1> DEFINE Old(info) == \E j \in DOMAIN queue : info = queue[j]
           New(info) == info.lastRetry = 0 /\ info.attempts = 0
<1>4. ASSUME \A i \in DOMAIN queue' : Old(queue'[i]) \/ New(queue'[i])
                                          \/ Charged(queue'[i], minInterval'),
             \A a \in inFlight' : a \in inFlight \/ Earned(a, minInterval', now')
      PROVE  EarnedInv'
  <2>1. \A i \in DOMAIN queue : queue[i] \in Info /\ Charged(queue[i], minInterval)
    BY <1>1 DEF EarnedInv
  <2>2. \A i \in DOMAIN queue : Charged(queue[i], minInterval')
    BY <1>1, <2>1, ShorterInterval
  <2>3. \A i \in DOMAIN queue' : Charged(queue'[i], minInterval')
    BY <1>4, <2>2 DEF Charged
  <2>4. \A a \in inFlight : Earned(a, minInterval', now')
    BY <1>1, <1>3, ShorterInterval DEF EarnedInv
  <2>5. QED
    BY <1>3, <1>4, <2>3, <2>4 DEF EarnedInv
<1>5. ASSUME NEW s, NEW number, NEW calc, NEW size, NEW created, NEW drops,
             Enqueue(s, number, calc, size, created, drops), inFlight' = inFlight
      PROVE  EarnedInv'
  <2> DEFINE info == [id |-> arrivals + 1, sub |-> s, context |-> listenerTime,
                      number |-> number, arrival |-> now, lastRetry |-> 0, attempts |-> 0]
  <2>1. queue' \in {Append(Tail(queue), info), Append(queue, info)}
    BY <1>5 DEF Enqueue
  <2>2. \A i \in DOMAIN queue' : Old(queue'[i]) \/ queue'[i] = info
    <3> HIDE DEF info
    <3>1. CASE queue' = Append(queue, info)
      BY <1>1, <3>1
    <3>2. CASE queue' = Append(Tail(queue), info) /\ queue # <<>>
      <4>1. /\ Tail(queue) \in Seq(Info)
            /\ \A i \in DOMAIN Tail(queue) :
                  i + 1 \in DOMAIN queue /\ Tail(queue)[i] = queue[i + 1]
        BY <1>1, <3>2
      <4>2. \A i \in DOMAIN queue' : i \in DOMAIN Tail(queue) \/ queue'[i] = info
        BY <3>2, <4>1
      <4>3. \A i \in DOMAIN Tail(queue) : queue'[i] = Tail(queue)[i]
        BY <3>2, <4>1
      <4>4. QED
        BY <4>1, <4>2, <4>3
    <3>3. CASE queue' = Append(Tail(queue), info) /\ queue = <<>>
      BY <1>1, <3>3
    <3>4. QED
      BY <2>1, <3>1, <3>2, <3>3
  <2>3. New(info)
    OBVIOUS
  <2> HIDE DEF info
  <2>4. QED
    BY <1>4, <1>5, <2>2, <2>3
<1>6. ASSUME NEW k \in 0..Len(queue), GetNextWait(k)
      PROVE  EarnedInv'
  <2>1. queue' = SubSeq(queue, k + 1, Len(queue)) /\ inFlight' = inFlight
    BY <1>6 DEF GetNextWait
  <2>2. \A i \in DOMAIN queue' : Old(queue'[i])
    BY <1>1, <2>1, Suffix
  <2>3. QED
    BY <1>4, <2>1, <2>2
<1>7. ASSUME NEW k \in 0..Len(queue), GetNextDeliver(k)
      PROVE  EarnedInv'
  <2> DEFINE out == [queue[k + 1] EXCEPT
                        !.attempts = AttemptsAtDispatch(queue[k + 1], TimeAt(k + 1))]
  <2>1. /\ k + 1 \in DOMAIN queue /\ k + 1 \in 0..Len(queue) /\ ~Expired(k + 1) /\ Due(k + 1)
        /\ inFlight' = inFlight \cup {out} /\ now' = now /\ minInterval' = minInterval
    <3>1. k \in Nat /\ k < Len(queue) /\ ExpiredPrefix(k) /\ Due(k + 1)
      BY <1>1, <1>7 DEF GetNextDeliver
    <3>2. k + 1 \in DOMAIN queue /\ k + 1 \in 0..Len(queue) /\ ~Expired(k + 1)
      BY <1>1, <3>1 DEF ExpiredPrefix
    <3>3. inFlight' = inFlight \cup {out} /\ now' = now /\ minInterval' = minInterval
      BY <1>7 DEF GetNextDeliver
    <3>4. QED
      BY <3>1, <3>2, <3>3
  <2>2. \A i \in DOMAIN queue' : Old(queue'[i])
    <3> DEFINE rest == SubSeq(queue, (k + 1) + 1, Len(queue))
    <3>1. queue' = SubSeq(queue, k + 2, Len(queue)) /\ (k + 1) + 1 = k + 2
      BY <1>1, <1>7 DEF GetNextDeliver
    <3>2. queue' = rest
      BY <3>1
    <3>3. /\ DOMAIN rest = 1..(Len(queue) - (k + 1))
          /\ \A i \in 1..(Len(queue) - (k + 1)) :
                i + (k + 1) \in DOMAIN queue /\ rest[i] = queue[i + (k + 1)]
      BY <1>1, <2>1, Suffix
    <3> HIDE DEF rest
    <3>4. QED
      BY <3>2, <3>3
  <2>3. Earned(out, minInterval', now')
    BY <2>1, DispatchEarned
  <2> HIDE DEF out
  <2>4. QED
    BY <1>4, <2>1, <2>2, <2>3
<1>8. ASSUME NEW info \in inFlight, UpdateDeliveryRetryFailure(info)
      PROVE  EarnedInv'
  <2> DEFINE again == [info EXCEPT !.attempts = (info.attempts + 1) % UShort,
                                   !.lastRetry = now]
  <2>1. /\ queue' \in {queue, <<again>> \o queue} /\ inFlight' \subseteq inFlight
        /\ now' = now /\ minInterval' = minInterval
    BY <1>8 DEF UpdateDeliveryRetryFailure, PutBack, NoRoom
  <2>2. /\ info \in Info /\ info.attempts \in Nat /\ info.arrival \in Nat
        /\ info.arrival <= now /\ UShort \in Nat \ {0} /\ now # 0
    BY <1>1, SizeAssumption DEF Info, TypeInv, Ages, EarnedInv
  <2>3. /\ (info.attempts + 1) % UShort \in Nat
        /\ (info.attempts + 1) % UShort <= info.attempts + 1
    BY <2>2, Remainder
  <2>4. /\ again \in Info /\ again.attempts = (info.attempts + 1) % UShort
        /\ again.lastRetry = now /\ again.arrival = info.arrival
    BY <1>1, <2>2, <2>3 DEF Info
  <2>5. again.attempts * minInterval <= (info.attempts + 1) * minInterval
        /\ again.attempts * minInterval \in Nat
    BY <1>1, <2>2, <2>3, <2>4, Multiples
  <2>6. (info.attempts + 1) * minInterval = info.attempts * minInterval + minInterval
        /\ info.attempts * minInterval \in Nat
    <3>1. (info.attempts + 1) * minInterval = info.attempts * minInterval + 1 * minInterval
      BY <1>1, <2>2, Distributes
    <3>2. 1 * minInterval = minInterval /\ info.attempts * minInterval \in Nat
      BY <1>1, <2>2
    <3>3. QED
      BY <3>1, <3>2
  <2>7. info.attempts * minInterval <= now - info.arrival
    BY DEF EarnedInv, Earned
  <2> HIDE DEF again
  <2>8. Charged(again, minInterval)
    <3>1. again.attempts * minInterval <= now - info.arrival + minInterval
      <4> DEFINE before == info.attempts * minInterval
                 after == again.attempts * minInterval
      <4>1. after <= before + minInterval /\ before <= now - info.arrival
        BY <2>5, <2>6, <2>7
      <4>2. after \in Nat /\ before \in Nat
        BY <2>5, <2>6
      <4> HIDE DEF before, after
      <4>3. after <= now - info.arrival + minInterval
        BY <1>1, <2>2, <4>1, <4>2
      <4>4. QED
        BY <4>3 DEF after
    <3>2. QED
      BY <2>2, <2>4, <3>1 DEF Charged
  <2>9. \A i \in DOMAIN queue' : Old(queue'[i]) \/ queue'[i] = again
    <3>1. CASE queue' = queue
      BY <3>1
    <3>2. CASE queue' = <<again>> \o queue
      BY <1>1, <2>4, <3>2, Front
    <3>3. QED
      BY <2>1, <3>1, <3>2
  <2>10. QED
    BY <1>4, <2>1, <2>8, <2>9
<1>9. ASSUME NEW s \in Subscriptions, DeleteMatchedIndications(s)
      PROVE  EarnedInv'
  <2>1. PICK m \in 0..Len(queue) : \E kept \in [1..m -> 1..Len(queue)] :
           queue' = [i \in 1..m |-> queue[kept[i]]]
    BY <1>9 DEF DeleteMatchedIndications
  <2>2. \A i \in DOMAIN queue' : Old(queue'[i])
    BY <1>1, <2>1
  <2>3. inFlight' = inFlight
    BY <1>9 DEF DeleteMatchedIndications
  <2>4. QED
    BY <1>4, <2>2, <2>3
<1>10. CASE queue' \in {queue, <<>>} /\ inFlight' \subseteq inFlight
  <2>1. \A i \in DOMAIN queue' : Old(queue'[i])
    BY <1>10
  <2>2. QED
    BY <1>4, <1>10, <2>1
<1>11. \/ \E s \in Subscriptions : EnqueueExisting(s)
       \/ \E s \in Subscriptions : CreateAndEnqueue(s)
       \/ \E k \in 0..Len(queue) : GetNextWait(k)
       \/ \E k \in 0..Len(queue) : GetNextDeliver(k)
       \/ \E info \in inFlight : UpdateDeliveryRetryFailure(info)
       \/ \E s \in Subscriptions : DeleteMatchedIndications(s)
       \/ queue' \in {queue, <<>>} /\ inFlight' \subseteq inFlight
  BY DEF Next, vars, ReadClock, GetNextNone, UpdateDeliveryRetrySuccess, BeginControl, Cleanup,
         SetDeliveryRetryAttempts, SetMinDeliveryRetryInterval, Tick
<1>12. (\E s \in Subscriptions : EnqueueExisting(s) \/ CreateAndEnqueue(s)) => EarnedInv'
  BY <1>5 DEF EnqueueExisting, CreateAndEnqueue
<1>13. QED
  BY <1>6, <1>7, <1>8, <1>9, <1>10, <1>11, <1>12

\* An indication is charged at most one attempt for each interval since it arrived, so
\* that it is not given up early, however late the dispatcher comes and however the count
\* wraps, as long as nobody makes the interval longer.
THEOREM AttemptsHonest ==
    Spec /\ [][minInterval' <= minInterval]_vars => []AttemptsEarned
<1>1. TypeInv /\ EarnedInv => AttemptsEarned
  BY DEF EarnedInv, Charged, Earned, AttemptsEarned
<1>2. Init => EarnedInv
  BY TimeAssumption DEF Init, EarnedInv
<1>3. /\ TypeInv /\ TypeInv' /\ EarnedInv /\ [Next]_vars
      /\ [minInterval' <= minInterval]_vars
      => EarnedInv'
  <2> SUFFICES ASSUME TypeInv, TypeInv', EarnedInv, [Next]_vars,
                      [minInterval' <= minInterval]_vars
               PROVE  EarnedInv'
    OBVIOUS
  <2>1. minInterval' <= minInterval
    BY DEF vars, configVars, TypeInv, TypeOK
  <2>2. QED
    BY <2>1, StepEarned
<1>4. QED
  BY <1>1, <1>2, <1>3, Ordered, PTL DEF Spec

\* When a subscription is no longer active, none of its indications is queued or about
\* to be delivered: the request waited for the delivery, and nothing new is accepted.
THEOREM SilentWhenInactive == Spec => InactiveIsSilent
<1>1. TypeInv /\ OrderInv /\ [Next]_vars =>
          [\A s \in Subscriptions :
              control = SubscriptionNotActive(s) /\ control' = NoControl => NoneLeftOf(s)]_vars
  <2> SUFFICES ASSUME TypeInv, OrderInv, Next, NEW s \in Subscriptions,
                      control = SubscriptionNotActive(s), control' = NoControl
               PROVE  NoneLeftOf(s)
    OBVIOUS
  <2> USE DEF queueVars, sizeVars, statVars, configVars, tableVars, clockVars,
              historyVars
  <2>1. /\ control # NoControl
        /\ control \notin {ListenerNotActive, QueuesCleanup}
        /\ \A r \in Subscriptions : control = SubscriptionNotActive(r) => r = s
    BY DEF NoControl, SubscriptionNotActive, ListenerNotActive, QueuesCleanup
  <2>2. DeleteMatchedIndications(s)
    BY <2>1 DEF Next, EnqueueExisting, CreateAndEnqueue, ReadClock, GetNextNone, GetNextWait,
           GetNextDeliver, UpdateDeliveryRetrySuccess, UpdateDeliveryRetryFailure,
           BeginControl, DeleteMatchedIndications, Cleanup, SetDeliveryRetryAttempts,
           SetMinDeliveryRetryInterval, Tick
  <2>3. inFlight' = {}
    BY <2>2 DEF DeleteMatchedIndications, NotPending, OrderInv, OnePending
  <2>4. PICK m \in 0..Len(queue) : \E kept \in [1..m -> 1..Len(queue)] :
           KeepsOthers(kept, queue, s) /\ queue' = [i \in 1..m |-> queue[kept[i]]]
    BY <2>2 DEF DeleteMatchedIndications
  <2>5. PICK kept \in [1..m -> 1..Len(queue)] :
           KeepsOthers(kept, queue, s) /\ queue' = [i \in 1..m |-> queue[kept[i]]]
    BY <2>4
  <2>6. \A i \in 1..m : queue[kept[i]].sub # s
    BY <2>5 DEF KeepsOthers
  <2>7. QED
    BY <2>3, <2>5, <2>6 DEF NoneLeftOf
<1>2. QED
  BY <1>1, Ordered, PTL DEF Spec, InactiveIsSilent
=============================================================================
