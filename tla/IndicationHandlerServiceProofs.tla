------------------- MODULE IndicationHandlerServiceProofs -------------------
(***************************************************************************)
(* Proofs about IndicationHandlerService, for any sets of destinations and *)
(* service threads, any pool size and whether or not the pool may fail to  *)
(* create a thread.                                                        *)
(***************************************************************************)
EXTENDS IndicationHandlerService, FiniteSetTheorems, TLAPS

\* The threads that _deliveryThreadsRunningCount counts.
Counted == {t \in DeliveryThreads : threads[t].at \in {"take", "deliver", "leave"}}

\* A delivery thread that has an indication knows its destination.
HasDestination ==
    \A t \in DeliveryThreads :
        threads[t].at = "deliver" => threads[t].dest \in Destinations

TypeInv == TypeOK /\ HasDestination /\ CountExact

\* The parts of TypeOK: the queues, the service threads, the delivery threads
\* and what is left.
Request == [at: {"idle", "enqueue", "create", "mark", "direct", "lock", "locked",
                 "stopping"},
            op: {"none", "enqueue", "direct", "subscription", "listener",
                 "cleanup", "stop"},
            todo: SUBSET Destinations]

Thread == [at: {"idle", "take", "deliver", "leave", "return"},
           dest: Destinations \cup {NoDestination}]

QueuesTyped ==
    /\ table \in SUBSET Destinations
    /\ kept \in [Destinations -> 0..MaxKept]
    /\ resting \in SUBSET Destinations
    /\ pending \in SUBSET Destinations

RequestsTyped ==
    /\ writer \in Requests \cup {NoRequest}
    /\ requests \in [Requests -> Request]

PoolTyped ==
    /\ deliveryQueue \in Seq(Destinations)
    /\ count \in Nat
    /\ threads \in [DeliveryThreads -> Thread]

RestTyped ==
    /\ reliable \in BOOLEAN
    /\ needCleanup \in BOOLEAN
    /\ stop \in {"no", "service", "destructor"}
    /\ dispatcher \in {"waiting", "locking", "round", "assign", "stopped"}
    /\ todo \in SUBSET Destinations
-----------------------------------------------------------------------------
\* Starting or leaving adds or removes one counted thread.
LEMMA CountedFinite ==
    IsFiniteSet(Counted) /\ Cardinality(Counted) \in Nat
<1>1. IsFiniteSet(DeliveryThreads) /\ Counted \in SUBSET DeliveryThreads
  BY ThreadAssumption DEF Counted
<1>2. IsFiniteSet(Counted)
  BY <1>1, FS_Subset
<1>3. QED
  BY <1>2, FS_CardinalityType

\* Steps that move no delivery thread into or out of the count keep it exact.
LEMMA SameCount ==
    ASSUME CountExact, Counted' = Counted, count' = count
    PROVE  CountExact'
BY DEF CountExact, Counted

LEMMA OneMore ==
    ASSUME CountExact, NEW t \in DeliveryThreads, t \notin Counted,
           Counted' = Counted \cup {t}, count' = count + 1
    PROVE  CountExact'
<1>1. Cardinality(Counted \cup {t}) = Cardinality(Counted) + 1
  BY CountedFinite, FS_AddElement
<1>2. QED
  BY <1>1 DEF CountExact, Counted

LEMMA OneLess ==
    ASSUME CountExact, NEW t \in DeliveryThreads, t \in Counted,
           Counted' = Counted \ {t}, count' = count - 1
    PROVE  CountExact' /\ count' \in Nat
<1>1. Cardinality(Counted \ {t}) = Cardinality(Counted) - 1
  BY CountedFinite, FS_RemoveElement
<1>2. Cardinality(Counted \ {t}) \in Nat
  BY CountedFinite, FS_RemoveElement, FS_CardinalityType
<1>3. QED
  BY <1>1, <1>2 DEF CountExact, Counted

\* TypeOK is the conjunction of its parts.
LEMMA TypeParts ==
    TypeOK <=> QueuesTyped /\ RequestsTyped /\ PoolTyped /\ RestTyped
BY DEF TypeOK, QueuesTyped, RequestsTyped, PoolTyped, RestTyped, Request, Thread

\* The state after a step has the same parts.
LEMMA TypePartsNext ==
    ASSUME QueuesTyped', RequestsTyped', PoolTyped', RestTyped'
    PROVE  TypeOK'
BY DEF TypeOK, QueuesTyped, RequestsTyped, PoolTyped, RestTyped, Request, Thread

\* A service thread that goes to another step is still well typed.
LEMMA RequestMoves ==
    ASSUME RequestsTyped, NEW r \in Requests, NEW x \in Request,
           requests' = [requests EXCEPT ![r] = x],
           writer' \in {writer, r, NoRequest}
    PROVE  RequestsTyped'
BY DEF RequestsTyped

\* Initially no thread runs.
LEMMA InitTyped == Init => TypeInv
<1> SUFFICES ASSUME Init PROVE TypeInv
  OBVIOUS
<1>1. QueuesTyped
  BY ThreadAssumption DEF Init, QueuesTyped
<1>2. RequestsTyped
  BY DEF Init, RequestsTyped, Idle, Request
<1>3. PoolTyped
  BY DEF Init, PoolTyped, Thread
<1>4. RestTyped
  BY DEF Init, RestTyped
<1>5. HasDestination
  BY DEF Init, HasDestination
<1>6. Counted = {} /\ count = 0
  BY DEF Init, Counted
<1>7. CountExact
  BY <1>6, FS_EmptySet DEF CountExact, Counted
<1>8. QED
  BY <1>1, <1>2, <1>3, <1>4, <1>5, <1>7, TypeParts DEF TypeInv

\* A step that leaves the delivery threads and their count alone.
LEMMA PoolStays ==
    ASSUME TypeInv, UNCHANGED <<count, threads>>
    PROVE  HasDestination' /\ CountExact'
<1>1. Counted' = Counted
  BY DEF Counted
<1>2. CountExact'
  BY <1>1, SameCount DEF TypeInv
<1>3. HasDestination'
  BY DEF TypeInv, HasDestination
<1>4. QED
  BY <1>2, <1>3

\* A service thread is idle, or has a set of queues left to handle.
LEMMA RequestTyped ==
    ASSUME RequestsTyped, NEW r \in Requests
    PROVE  Idle \in Request /\ requests[r].todo \in SUBSET Destinations
<1>1. Idle \in Request
  BY DEF Idle, Request
<1>2. requests[r].todo \in SUBSET Destinations
  BY DEF RequestsTyped, Request
<1>3. QED
  BY <1>1, <1>2

\* Steps of the service threads keep the types.
LEMMA ServiceTyped ==
    ASSUME TypeInv, NEW r \in Requests, Arrival(r) \/ ServiceStep(r)
    PROVE  TypeInv'
<1> USE DEF queueVars, flagVars, roundVars, poolVars
<1> QueuesTyped /\ RequestsTyped /\ PoolTyped /\ RestTyped
  BY TypeParts DEF TypeInv
<1>1. UNCHANGED poolVars
  BY DEF Arrival, ServiceStep, HandleReliable, BeginNotActive, HandleDirect,
         BeginStop, Destroy, EnqueueExisting, QueueMissing, CreateAndEnqueue,
         DeleteMatched, DeleteQueue, MarkCleanup, DirectDelivered, LockForWrite,
         Unlock, EndStop
<1>2. PoolTyped'
  BY <1>1 DEF PoolTyped
<1>3. RestTyped'
  <2>1. UNCHANGED roundVars /\ reliable' = reliable
    BY DEF Arrival, ServiceStep, HandleReliable, BeginNotActive,
           HandleDirect, BeginStop, Destroy, EnqueueExisting, QueueMissing,
           CreateAndEnqueue, DeleteMatched, DeleteQueue, MarkCleanup,
           DirectDelivered, LockForWrite, Unlock, EndStop
  <2>2. stop' \in {stop, "service", "destructor"}
    BY DEF Arrival, ServiceStep, HandleReliable, BeginNotActive,
           HandleDirect, BeginStop, Destroy, EnqueueExisting, QueueMissing,
           CreateAndEnqueue, DeleteMatched, DeleteQueue, MarkCleanup,
           DirectDelivered, LockForWrite, Unlock, EndStop
  <2>3. CASE LockForWrite(r)
    <3>1. needCleanup' \in BOOLEAN
      BY <2>3, Zenon DEF LockForWrite
    <3>2. QED
      BY <2>1, <2>2, <3>1 DEF RestTyped
  <2>4. CASE MarkCleanup(r)
    BY <2>1, <2>2, <2>4 DEF MarkCleanup, RestTyped
  <2>5. CASE ~LockForWrite(r) /\ ~MarkCleanup(r)
    <3>1. needCleanup' = needCleanup
      BY <2>5 DEF Arrival, ServiceStep, HandleReliable, BeginNotActive,
                  HandleDirect, BeginStop, Destroy, EnqueueExisting, QueueMissing,
                  CreateAndEnqueue, DeleteMatched, DeleteQueue, DirectDelivered,
                  Unlock, EndStop
    <3>2. QED
      BY <2>1, <2>2, <3>1 DEF RestTyped
  <2>6. QED
    BY <2>3, <2>4, <2>5
<1>4. ASSUME Arrival(r) PROVE QueuesTyped' /\ RequestsTyped'
  <2>1. QueuesTyped'
    BY <1>4 DEF Arrival, HandleReliable, BeginNotActive, HandleDirect, BeginStop,
                Destroy, QueuesTyped
  <2>2. writer' = writer
    BY <1>4 DEF Arrival, HandleReliable, BeginNotActive, HandleDirect, BeginStop,
                Destroy
  <2>3. ASSUME requests' = requests
        PROVE  RequestsTyped'
    BY <2>2, <2>3 DEF RequestsTyped
  <2>4. \/ requests' = requests
        \/ \E x \in Request : requests' = [requests EXCEPT ![r] = x]
    BY <1>4 DEF Arrival, HandleReliable, BeginNotActive, HandleDirect, BeginStop,
                Destroy, Request
  <2>5. QED
    BY <2>1, <2>2, <2>3, <2>4, RequestMoves
<1>5. ASSUME NEW d \in Destinations,
             EnqueueExisting(r, d) \/ QueueMissing(r, d) \/ CreateAndEnqueue(r, d)
      PROVE  QueuesTyped' /\ RequestsTyped'
  <2>1. ASSUME AddTo(d)
        PROVE  /\ kept' \in [Destinations -> 0..MaxKept]
               /\ resting' \in SUBSET Destinations
    BY <2>1, ThreadAssumption DEF AddTo, QueuesTyped
  <2>2. QueuesTyped'
    BY <1>5, <2>1 DEF EnqueueExisting, QueueMissing, CreateAndEnqueue, QueuesTyped
  <2>3. /\ writer' = writer
        /\ \E at \in {"create", "mark"} : requests' = [requests EXCEPT ![r].at = at]
    BY <1>5 DEF EnqueueExisting, QueueMissing, CreateAndEnqueue, Goto
  <2>4. requests' \in [Requests -> Request]
    BY <2>3 DEF RequestsTyped, Request
  <2>5. QED
    BY <2>2, <2>3, <2>4 DEF RequestsTyped
<1>6. ASSUME NEW d \in Destinations, DeleteMatched(r, d) \/ DeleteQueue(r, d)
      PROVE  QueuesTyped' /\ RequestsTyped'
  <2>1. \E n \in 0..MaxKept : kept' = [kept EXCEPT ![d] = n]
    <3>1. kept[d] \in 0..MaxKept
      BY DEF QueuesTyped
    <3>2. CASE DeleteMatched(r, d)
      <4>1. PICK n \in 0..kept[d] : kept' = [kept EXCEPT ![d] = n]
        BY <3>2 DEF DeleteMatched
      <4>2. n \in 0..MaxKept
        BY <3>1, ThreadAssumption
      <4>3. QED
        BY <4>1, <4>2
    <3>3. CASE DeleteQueue(r, d)
      <4>1. kept' = [kept EXCEPT ![d] = 0]
        BY <3>3 DEF DeleteQueue
      <4>2. 0 \in 0..MaxKept
        BY ThreadAssumption
      <4>3. QED
        BY <4>1, <4>2
    <3>4. QED
      BY <1>6, <3>2, <3>3
  <2>2. kept' \in [Destinations -> 0..MaxKept]
    BY <2>1 DEF QueuesTyped
  <2>3. QueuesTyped'
    BY <1>6, <2>2 DEF DeleteMatched, DeleteQueue, QueuesTyped
  <2>4. /\ writer' = writer
        /\ requests' = [requests EXCEPT ![r].todo = requests[r].todo \ {d}]
    BY <1>6 DEF DeleteMatched, DeleteQueue
  <2>5. requests[r].todo \ {d} \in SUBSET Destinations
    BY RequestTyped
  <2>6. requests' \in [Requests -> Request]
    BY <2>4, <2>5 DEF RequestsTyped, Request
  <2>7. QED
    BY <2>3, <2>4, <2>6 DEF RequestsTyped
<1>7. ASSUME MarkCleanup(r) \/ DirectDelivered(r) \/ Unlock(r) \/ EndStop(r)
      PROVE  QueuesTyped' /\ RequestsTyped'
  <2>1. QueuesTyped' /\ writer' \in {writer, NoRequest}
    BY <1>7 DEF MarkCleanup, DirectDelivered, Unlock, EndStop, QueuesTyped
  <2>2. [at |-> "lock", op |-> "cleanup", todo |-> {}] \in Request
    BY DEF Request
  <2>3. \E x \in Request : requests' = [requests EXCEPT ![r] = x]
    BY <1>7, <2>2, RequestTyped DEF MarkCleanup, DirectDelivered, Unlock, EndStop,
                                      Finish
  <2>4. QED
    BY <2>1, <2>3, RequestMoves
<1>8. ASSUME LockForWrite(r)
      PROVE  QueuesTyped' /\ RequestsTyped'
  <2>1. QueuesTyped' /\ writer' = r
    BY <1>8 DEF LockForWrite, QueuesTyped
  <2>2. \E left \in SUBSET Destinations :
           requests' = [requests EXCEPT ![r].at = "locked", ![r].todo = left]
    <3> DEFINE left == IF requests[r].op = "cleanup"
                       THEN table ELSE requests[r].todo \cap table
    <3>1. left \in SUBSET Destinations
      BY DEF QueuesTyped
    <3>2. requests' = [requests EXCEPT ![r].at = "locked", ![r].todo = left]
      BY <1>8 DEF LockForWrite
    <3>3. QED
      BY <3>1, <3>2
  <2>3. requests' \in [Requests -> Request]
    <3>1. PICK left \in SUBSET Destinations :
             requests' = [requests EXCEPT ![r].at = "locked", ![r].todo = left]
      BY <2>2
    <3>2. QED
      BY <3>1 DEF RequestsTyped, Request
  <2>4. QED
    BY <2>1, <2>3 DEF RequestsTyped
<1>9. QueuesTyped' /\ RequestsTyped'
  BY <1>4, <1>5, <1>6, <1>7, <1>8 DEF ServiceStep
<1>10. QED
  BY <1>1, <1>2, <1>3, <1>9, PoolStays, TypePartsNext DEF TypeInv

\* Steps of the dispatcher keep the types; the thread it starts is counted.
LEMMA DispatcherTyped ==
    ASSUME TypeInv, DispatcherStep
    PROVE  TypeInv'
<1> USE DEF queueVars, flagVars, roundVars, poolVars, lockVars
<1> QueuesTyped /\ RequestsTyped /\ PoolTyped /\ RestTyped
  BY TypeParts DEF TypeInv
<1>1. RequestsTyped'
  BY DEF DispatcherStep, Wake, BeginRound, VisitNone, VisitDispatch,
         NoThreadNeeded, StartThread, StartFails, EndRound, RequestsTyped
<1>2. RestTyped'
  BY DEF DispatcherStep, Wake, BeginRound, VisitNone, VisitDispatch,
         NoThreadNeeded, StartThread, StartFails, EndRound, RestTyped, QueuesTyped
<1>3. QueuesTyped'
  <2>1. ASSUME NEW d \in Destinations, VisitNone(d) \/ VisitDispatch(d)
        PROVE  QueuesTyped'
    <3>1. kept[d] \in 0..MaxKept
      BY DEF QueuesTyped
    <3>2. PICK n \in 0..kept[d] : kept' = [kept EXCEPT ![d] = n]
      <4>1. ASSUME VisitDispatch(d)
            PROVE  \E n \in 0..kept[d] : kept' = [kept EXCEPT ![d] = n]
        <5>1. PICK n \in 1..kept[d] : kept' = [kept EXCEPT ![d] = n - 1]
          BY <4>1 DEF VisitDispatch
        <5>2. n - 1 \in 0..kept[d]
          BY <3>1, ThreadAssumption
        <5>3. QED
          BY <5>1, <5>2
      <4>2. ASSUME VisitNone(d)
            PROVE  \E n \in 0..kept[d] : kept' = [kept EXCEPT ![d] = n]
        BY <4>2 DEF VisitNone
      <4>3. QED
        BY <2>1, <4>1, <4>2
    <3>3. n \in 0..MaxKept
      BY <3>1, ThreadAssumption
    <3>4. kept' \in [Destinations -> 0..MaxKept]
      BY <3>2, <3>3 DEF QueuesTyped
    <3>5. /\ table' = table
          /\ resting' \in {resting, resting \ {d}}
          /\ pending' \in {pending, pending \cup {d}}
      BY <2>1 DEF VisitNone, VisitDispatch
    <3>6. QED
      BY <3>4, <3>5 DEF QueuesTyped
  <2>2. ASSUME UNCHANGED queueVars
        PROVE  QueuesTyped'
    BY <2>2 DEF QueuesTyped
  <2>3. QED
    BY <2>1, <2>2 DEF DispatcherStep, Wake, BeginRound, NoThreadNeeded,
                      StartThread, StartFails, EndRound
<1>4. ASSUME NEW t \in DeliveryThreads, StartThread(t)
      PROVE  PoolTyped' /\ HasDestination' /\ CountExact'
  <2>1. threads' = [threads EXCEPT ![t].at = "take"] /\ count' = count + 1
    BY <1>4 DEF StartThread
  <2>2. threads[t].at = "idle"
    BY <1>4 DEF StartThread
  <2>3. PoolTyped'
    BY <1>4, <2>1 DEF PoolTyped, Thread, StartThread
  <2>4. t \notin Counted /\ Counted' = Counted \cup {t}
    BY <2>1, <2>2 DEF Counted, PoolTyped, Thread
  <2>5. CountExact'
    BY <2>1, <2>4, OneMore DEF TypeInv
  <2>6. HasDestination'
    BY <2>1 DEF TypeInv, HasDestination, PoolTyped, Thread
  <2>7. QED
    BY <2>3, <2>5, <2>6
<1>5. ASSUME UNCHANGED <<count, threads>>
      PROVE  PoolTyped' /\ HasDestination' /\ CountExact'
  <2>1. deliveryQueue' \in Seq(Destinations)
    <3>1. deliveryQueue' = deliveryQueue
             \/ \E d \in Destinations : deliveryQueue' = Append(deliveryQueue, d)
      BY <1>5 DEF DispatcherStep, Wake, BeginRound, VisitNone, VisitDispatch,
             NoThreadNeeded, StartThread, StartFails, EndRound, InsertBack
    <3>2. QED
      BY <3>1 DEF PoolTyped
  <2>2. QED
    BY <1>5, <2>1, PoolStays DEF PoolTyped
<1>6. PoolTyped' /\ HasDestination' /\ CountExact'
  BY <1>4, <1>5 DEF DispatcherStep, Wake, BeginRound, VisitNone, VisitDispatch,
         NoThreadNeeded, StartFails, EndRound, Uncounted
<1>7. QED
  BY <1>1, <1>2, <1>3, <1>6, TypePartsNext DEF TypeInv

\* Steps of a delivery thread keep the types; it is counted until it leaves.
LEMMA DeliveryTyped ==
    ASSUME TypeInv, NEW t \in DeliveryThreads, DeliveryStep(t)
    PROVE  TypeInv'
<1> USE DEF queueVars, flagVars, roundVars, lockVars
<1> QueuesTyped /\ RequestsTyped /\ PoolTyped /\ RestTyped
  BY TypeParts DEF TypeInv
<1>1. RequestsTyped' /\ RestTyped'
  BY DEF DeliveryStep, Take, DeliveryEnds, DeliveryFails, Leave, Return,
         RequestsTyped, RestTyped
<1>2. CASE Take(t)
  <2>1. QueuesTyped'
    BY <1>2 DEF Take, QueuesTyped
  <2>2. /\ threads[t].at = "take"
        /\ count' = count
        /\ \/ /\ threads' = [threads EXCEPT ![t].at = "leave"]
              /\ deliveryQueue' = deliveryQueue
           \/ /\ deliveryQueue # <<>>
              /\ threads' = [threads EXCEPT ![t] =
                               [at |-> "deliver", dest |-> Head(deliveryQueue)]]
              /\ deliveryQueue' = Tail(deliveryQueue)
    BY <1>2 DEF Take
  <2>3. deliveryQueue # <<>> =>
           /\ Head(deliveryQueue) \in Destinations
           /\ Tail(deliveryQueue) \in Seq(Destinations)
    BY DEF PoolTyped
  <2>4. PoolTyped' /\ HasDestination'
    <3>1. CASE threads' = [threads EXCEPT ![t].at = "leave"]
               /\ deliveryQueue' = deliveryQueue
      BY <2>2, <3>1 DEF PoolTyped, Thread, TypeInv, HasDestination
    <3>2. ASSUME NEW d \in Destinations,
                 threads' = [threads EXCEPT ![t] = [at |-> "deliver", dest |-> d]],
                 deliveryQueue' \in Seq(Destinations)
          PROVE  PoolTyped' /\ HasDestination'
      BY <2>2, <3>2 DEF PoolTyped, Thread, TypeInv, HasDestination
    <3>3. CASE /\ deliveryQueue # <<>>
               /\ threads' = [threads EXCEPT ![t] =
                                [at |-> "deliver", dest |-> Head(deliveryQueue)]]
               /\ deliveryQueue' = Tail(deliveryQueue)
      <4> DEFINE d == Head(deliveryQueue)
      <4>1. /\ d \in Destinations
            /\ threads' = [threads EXCEPT ![t] = [at |-> "deliver", dest |-> d]]
            /\ deliveryQueue' \in Seq(Destinations)
        BY <2>3, <3>3
      <4> HIDE DEF d
      <4>2. QED
        BY <3>2, <4>1
    <3>4. QED
      BY <2>2, <3>1, <3>3
  <2>5. Counted' = Counted
    <3>1. threads'[t].at \in {"leave", "deliver"}
      BY <2>2 DEF PoolTyped, Thread
    <3>2. \A u \in DeliveryThreads \ {t} : threads'[u] = threads[u]
      BY <2>2 DEF PoolTyped
    <3>3. QED
      BY <2>2, <3>1, <3>2 DEF Counted
  <2>6. CountExact'
    BY <2>2, <2>5, SameCount DEF TypeInv
  <2>7. QED
    BY <1>1, <2>1, <2>4, <2>6, TypePartsNext DEF TypeInv
<1>3. CASE DeliveryEnds(t) \/ DeliveryFails(t)
  <2>1. /\ threads[t].at = "deliver"
        /\ threads' = [threads EXCEPT ![t] =
                          [at |-> "take", dest |-> NoDestination]]
        /\ count' = count
        /\ deliveryQueue' = deliveryQueue
    BY <1>3 DEF DeliveryEnds, DeliveryFails, TakeNext
  <2>2. threads[t].dest \in Destinations
    BY <2>1 DEF TypeInv, HasDestination
  <2>3. QueuesTyped'
    <3>1. CASE DeliveryEnds(t)
      BY <3>1 DEF DeliveryEnds, NoLongerPending, QueuesTyped
    <3>2. CASE DeliveryFails(t)
      <4> DEFINE d == threads[t].dest
      <4>1. kept' = [kept EXCEPT ![d] = kept[d] + 1] /\ kept[d] + 1 \in 0..MaxKept
        BY <2>2, <3>2, ThreadAssumption DEF DeliveryFails, QueuesTyped
      <4>2. kept' \in [Destinations -> 0..MaxKept]
        BY <4>1 DEF QueuesTyped
      <4>3. QED
        BY <2>2, <3>2, <4>2 DEF DeliveryFails, NoLongerPending, QueuesTyped
    <3>3. QED
      BY <1>3, <3>1, <3>2
  <2>4. PoolTyped'
    BY <2>1 DEF PoolTyped, Thread
  <2>5. HasDestination'
    BY <2>1 DEF TypeInv, HasDestination, PoolTyped, Thread
  <2>6. Counted' = Counted
    BY <2>1 DEF Counted, PoolTyped, Thread
  <2>7. CountExact'
    BY <2>1, <2>6, SameCount DEF TypeInv
  <2>8. QED
    BY <1>1, <2>3, <2>4, <2>5, <2>7, TypePartsNext DEF TypeInv
<1>4. CASE Leave(t)
  <2>1. QueuesTyped'
    BY <1>4 DEF Leave, QueuesTyped
  <2>2. /\ threads[t].at = "leave"
        /\ threads' = [threads EXCEPT ![t].at = "return"]
        /\ count' = count - 1
        /\ deliveryQueue' = deliveryQueue
    BY <1>4 DEF Leave
  <2>3. t \in Counted /\ Counted' = Counted \ {t}
    BY <2>2 DEF Counted, PoolTyped, Thread
  <2>4. CountExact' /\ count' \in Nat
    BY <2>2, <2>3, OneLess DEF TypeInv
  <2>5. PoolTyped'
    BY <2>2, <2>4 DEF PoolTyped, Thread
  <2>6. HasDestination'
    BY <2>2 DEF TypeInv, HasDestination, PoolTyped, Thread
  <2>7. QED
    BY <1>1, <2>1, <2>4, <2>5, <2>6, TypePartsNext DEF TypeInv
<1>5. CASE Return(t)
  <2>1. QueuesTyped'
    BY <1>5 DEF Return, QueuesTyped
  <2>2. /\ threads[t].at = "return"
        /\ threads' = [threads EXCEPT ![t].at = "idle"]
        /\ count' = count
        /\ deliveryQueue' = deliveryQueue
    BY <1>5 DEF Return
  <2>3. Counted' = Counted
    BY <2>2 DEF Counted, PoolTyped, Thread
  <2>4. CountExact'
    BY <2>2, <2>3, SameCount DEF TypeInv
  <2>5. PoolTyped'
    BY <2>2 DEF PoolTyped, Thread
  <2>6. HasDestination'
    BY <2>2 DEF TypeInv, HasDestination, PoolTyped, Thread
  <2>7. QED
    BY <1>1, <2>1, <2>4, <2>5, <2>6, TypePartsNext DEF TypeInv
<1>6. QED
  BY <1>2, <1>3, <1>4, <1>5 DEF DeliveryStep

\* Every step keeps the types and the count.
LEMMA StepTyped ==
    ASSUME TypeInv, [Next]_vars
    PROVE  TypeInv'
<1>1. ASSUME NEW r \in Requests, Arrival(r) \/ ServiceStep(r)
      PROVE  TypeInv'
  BY <1>1, ServiceTyped
<1>2. ASSUME DispatcherStep
      PROVE  TypeInv'
  BY <1>2, DispatcherTyped
<1>3. ASSUME NEW t \in DeliveryThreads, DeliveryStep(t)
      PROVE  TypeInv'
  BY <1>3, DeliveryTyped
<1>4. ASSUME RequestsTyped, PoolTyped, RestTyped, QueuesTyped,
             \/ \E d \in Destinations : RetryIntervalOver(d)
             \/ SetReliable
             \/ UNCHANGED vars
      PROVE  TypeInv'
  <2>1. UNCHANGED <<table, kept, pending, needCleanup, stop, roundVars, poolVars,
                    lockVars>>
    BY <1>4 DEF RetryIntervalOver, SetReliable, vars, queueVars, flagVars,
                roundVars, poolVars, lockVars
  <2>2. /\ resting' \in SUBSET Destinations
        /\ reliable' \in BOOLEAN
    BY <1>4 DEF RetryIntervalOver, SetReliable, vars, queueVars, flagVars,
                QueuesTyped, RestTyped
  <2>3. QueuesTyped' /\ RequestsTyped' /\ PoolTyped' /\ RestTyped'
    BY <1>4, <2>1, <2>2 DEF QueuesTyped, RequestsTyped, PoolTyped, RestTyped,
                            roundVars, poolVars, lockVars
  <2>4. HasDestination' /\ CountExact'
    BY <2>1, PoolStays DEF poolVars
  <2>5. QED
    BY <2>3, <2>4, TypePartsNext DEF TypeInv
<1>5. QED
  BY <1>1, <1>2, <1>3, <1>4, TypeParts DEF Next, TypeInv

\* The types and the count of running delivery threads, in every state.
LEMMA TypeInvHolds == Spec => []TypeInv
<1>1. QED
  BY InitTyped, StepTyped, PTL DEF Spec

\* TypeOK, the types of the service's members and threads.
THEOREM TypeCorrect == Spec => []TypeOK
<1>1. TypeInv => TypeOK
  BY DEF TypeInv
<1>2. QED
  BY <1>1, TypeInvHolds, PTL

\* CountExact: _deliveryThreadsRunningCount never drifts from the number of
\* threads that may still take an indication, whichever starts fail.
THEOREM CountCorrect == Spec => []CountExact
<1>1. TypeInv => CountExact
  BY DEF TypeInv
<1>2. QED
  BY <1>1, TypeInvHolds, PTL
-----------------------------------------------------------------------------
\* No destination has two indications handed out.
Distinct ==
    /\ \A i, j \in DOMAIN deliveryQueue :
          deliveryQueue[i] = deliveryQueue[j] => i = j
    /\ \A t, u \in Delivering : threads[t].dest = threads[u].dest => t = u
    /\ \A i \in DOMAIN deliveryQueue : \A t \in Delivering :
          deliveryQueue[i] # threads[t].dest

\* Who holds the table's WriteLock, and what a round of the dispatcher visits.
Locks ==
    /\ \A r \in Requests : At(r, "locked") <=> writer = r
    /\ dispatcher \in {"round", "assign"} =>
          writer = NoRequest /\ todo \subseteq table

HandedInv == PendingIsOut /\ QueueOutlivesDelivery /\ Distinct

SafeInv == TypeInv /\ HandedInv /\ Locks

\* Steps that neither hand out nor take back an indication.
LEMMA NothingHanded ==
    ASSUME UNCHANGED <<deliveryQueue, threads>>
    PROVE  Out' = Out /\ (Distinct => Distinct')
BY DEF Out, Queued, Delivering, Distinct

\* Threads that start, leave or return to the pool hold no indication.
LEMMA ThreadMovesOn ==
    ASSUME PoolTyped, NEW t \in DeliveryThreads,
           NEW at \in {"take", "leave", "return", "idle"},
           threads[t].at # "deliver",
           threads' = [threads EXCEPT ![t].at = at],
           deliveryQueue' = deliveryQueue
    PROVE  Out' = Out /\ (Distinct => Distinct')
<1>1. /\ Delivering' = Delivering
      /\ \A u \in Delivering : threads'[u] = threads[u]
  BY DEF PoolTyped, Thread, Delivering
<1>2. Out' = Out
  BY <1>1 DEF Out, Queued
<1>3. Distinct => Distinct'
  BY <1>1 DEF Distinct
<1>4. QED
  BY <1>2, <1>3

\* The dispatcher hands out for a destination that has nothing out.
LEMMA HandOut ==
    ASSUME PoolTyped, Distinct, NEW d \in Destinations, d \notin Out,
           deliveryQueue' = Append(deliveryQueue, d), threads' = threads
    PROVE  Out' = Out \cup {d} /\ Distinct'
<1>1. /\ DOMAIN deliveryQueue = 1..Len(deliveryQueue)
      /\ DOMAIN deliveryQueue' = 1..(Len(deliveryQueue) + 1)
      /\ Len(deliveryQueue) \in Nat
      /\ \A i \in DOMAIN deliveryQueue : deliveryQueue'[i] = deliveryQueue[i]
      /\ deliveryQueue'[Len(deliveryQueue) + 1] = d
  BY DEF PoolTyped
<1>2. Delivering' = Delivering
  BY DEF Delivering
<1>3. Out' = Out \cup {d}
  BY <1>1, <1>2 DEF Out, Queued
<1>4. /\ \A i \in DOMAIN deliveryQueue : deliveryQueue[i] # d
      /\ \A t \in Delivering : threads[t].dest # d
  BY DEF Out, Queued
<1>5. Distinct'
  BY <1>1, <1>2, <1>4 DEF Distinct
<1>6. QED
  BY <1>3, <1>5

\* A delivery thread takes the front of _deliveryQueue: it stays handed out.
LEMMA TakeKeepsOut ==
    ASSUME PoolTyped, Distinct, NEW t \in DeliveryThreads,
           threads[t].at = "take", deliveryQueue # <<>>,
           threads' = [threads EXCEPT ![t] =
                          [at |-> "deliver", dest |-> Head(deliveryQueue)]],
           deliveryQueue' = Tail(deliveryQueue)
    PROVE  Out' = Out /\ Distinct'
<1>1. /\ DOMAIN deliveryQueue = 1..Len(deliveryQueue)
      /\ DOMAIN deliveryQueue' = 1..(Len(deliveryQueue) - 1)
      /\ Len(deliveryQueue) \in Nat \ {0}
      /\ \A i \in DOMAIN deliveryQueue' :
            /\ i + 1 \in DOMAIN deliveryQueue
            /\ deliveryQueue'[i] = deliveryQueue[i + 1]
      /\ 1 \in DOMAIN deliveryQueue /\ Head(deliveryQueue) = deliveryQueue[1]
  BY DEF PoolTyped
<1>2. /\ t \notin Delivering
      /\ Delivering' = Delivering \cup {t}
      /\ threads'[t].dest = deliveryQueue[1]
      /\ \A u \in Delivering : threads'[u] = threads[u]
  BY <1>1 DEF PoolTyped, Thread, Delivering
<1>3. Out' = Out
  <2>1. ASSUME NEW d \in Out' PROVE d \in Out
    BY <1>1, <1>2 DEF Out, Queued
  <2>2. ASSUME NEW i \in DOMAIN deliveryQueue
        PROVE  deliveryQueue[i] \in Out'
    <3>1. CASE i = 1
      BY <1>2, <3>1 DEF Out
    <3>2. CASE i # 1
      <4>1. /\ i - 1 \in DOMAIN deliveryQueue'
            /\ deliveryQueue'[i - 1] = deliveryQueue[i]
        BY <1>1, <3>2
      <4>2. QED
        BY <4>1 DEF Out, Queued
    <3>3. QED
      BY <3>1, <3>2
  <2>3. ASSUME NEW u \in Delivering
        PROVE  threads[u].dest \in Out'
    BY <1>2 DEF Out
  <2>4. QED
    BY <2>1, <2>2, <2>3 DEF Out, Queued
<1>4. Distinct'
  <2>1. \A i, j \in DOMAIN deliveryQueue' :
           deliveryQueue'[i] = deliveryQueue'[j] => i = j
    BY <1>1 DEF Distinct
  <2>2. \A u \in Delivering : threads[u].dest # deliveryQueue[1]
    BY <1>1 DEF Distinct
  <2>3. \A u, v \in Delivering' : threads'[u].dest = threads'[v].dest => u = v
    BY <1>2, <2>2 DEF Distinct
  <2>4. \A i \in DOMAIN deliveryQueue' : deliveryQueue'[i] # deliveryQueue[1]
    BY <1>1 DEF Distinct
  <2>5. \A i \in DOMAIN deliveryQueue' : \A u \in Delivering' :
           deliveryQueue'[i] # threads'[u].dest
    BY <1>1, <1>2, <2>4 DEF Distinct
  <2>6. QED
    BY <2>1, <2>3, <2>5 DEF Distinct
<1>5. QED
  BY <1>3, <1>4

\* An attempt that ends takes back its destination, and no other.
LEMMA AttemptTakesBack ==
    ASSUME PoolTyped, Distinct, NEW t \in DeliveryThreads,
           threads[t].at = "deliver",
           threads' = [threads EXCEPT ![t] =
                          [at |-> "take", dest |-> NoDestination]],
           deliveryQueue' = deliveryQueue
    PROVE  Out' = Out \ {threads[t].dest} /\ Distinct'
<1>1. /\ t \in Delivering
      /\ Delivering' = Delivering \ {t}
      /\ \A u \in Delivering \ {t} : threads'[u] = threads[u]
  BY DEF PoolTyped, Thread, Delivering
<1>2. /\ \A i \in DOMAIN deliveryQueue : deliveryQueue[i] # threads[t].dest
      /\ \A u \in Delivering \ {t} : threads[u].dest # threads[t].dest
  BY <1>1 DEF Distinct
<1>3. Out' = Out \ {threads[t].dest}
  BY <1>1, <1>2 DEF Out, Queued
<1>4. Distinct'
  BY <1>1 DEF Distinct
<1>5. QED
  BY <1>3, <1>4
-----------------------------------------------------------------------------
\* Initially nothing is handed out and nobody holds the lock.
LEMMA InitSafe == Init => SafeInv
<1> SUFFICES ASSUME Init PROVE SafeInv
  OBVIOUS
<1>1. Delivering = {} /\ DOMAIN deliveryQueue = {}
  BY DEF Init, Delivering
<1>2. Out = {}
  BY <1>1 DEF Out, Queued
<1>3. HandedInv
  BY <1>1, <1>2 DEF HandedInv, PendingIsOut, QueueOutlivesDelivery, Distinct, Init
<1>4. Locks
  BY ThreadAssumption DEF Locks, Init, At, Idle
<1>5. QED
  BY <1>3, <1>4, InitTyped DEF SafeInv

\* A request deletes only queues of which nothing is handed out.
LEMMA ServiceKeepsHanded ==
    ASSUME SafeInv, NEW r \in Requests, Arrival(r) \/ ServiceStep(r)
    PROVE  HandedInv'
<1> USE DEF queueVars, poolVars
<1>1. UNCHANGED <<deliveryQueue, threads>>
  BY DEF Arrival, ServiceStep, HandleReliable, BeginNotActive, HandleDirect,
         BeginStop, Destroy, EnqueueExisting, QueueMissing, CreateAndEnqueue,
         DeleteMatched, DeleteQueue, MarkCleanup, DirectDelivered, LockForWrite,
         Unlock, EndStop
<1>2. Out' = Out /\ Distinct'
  BY <1>1, NothingHanded DEF SafeInv, HandedInv
<1>3. pending = Out /\ Out \subseteq table
  BY DEF SafeInv, HandedInv, PendingIsOut, QueueOutlivesDelivery
<1>4. ASSUME NEW d \in Destinations, DeleteQueue(r, d)
      PROVE  pending' = pending /\ table' = table \ {d} /\ d \notin pending
  BY <1>4 DEF DeleteQueue, DeliveryOver
<1>5. ASSUME ~\E d \in Destinations : DeleteQueue(r, d)
      PROVE  pending' = pending /\ table \subseteq table'
  BY <1>5 DEF Arrival, ServiceStep, HandleReliable, BeginNotActive, HandleDirect,
         BeginStop, Destroy, EnqueueExisting, QueueMissing, CreateAndEnqueue,
         DeleteMatched, MarkCleanup, DirectDelivered, LockForWrite, Unlock, EndStop
<1>6. pending' = Out /\ Out \subseteq table'
  BY <1>3, <1>4, <1>5
<1>7. QED
  BY <1>2, <1>6 DEF HandedInv, PendingIsOut, QueueOutlivesDelivery

\* Only one request holds the WriteLock, and none while the dispatcher is in a
\* round: a queue that it has still to visit is not deleted.
LEMMA ServiceKeepsLocks ==
    ASSUME SafeInv, NEW r \in Requests, Arrival(r) \/ ServiceStep(r)
    PROVE  Locks'
<1> USE DEF queueVars, roundVars
<1>1. UNCHANGED roundVars
  BY DEF Arrival, ServiceStep, HandleReliable, BeginNotActive, HandleDirect,
         BeginStop, Destroy, EnqueueExisting, QueueMissing, CreateAndEnqueue,
         DeleteMatched, DeleteQueue, MarkCleanup, DirectDelivered, LockForWrite,
         Unlock, EndStop
<1>2. /\ requests \in [Requests -> Request]
      /\ NoRequest \notin Requests
  BY TypeParts, ThreadAssumption DEF SafeInv, TypeInv, RequestsTyped
<1>3. /\ \A q \in Requests : requests[q].at = "locked" <=> writer = q
      /\ dispatcher \in {"round", "assign"} =>
            writer = NoRequest /\ todo \subseteq table
  BY DEF SafeInv, Locks, At
<1>4. CASE LockForWrite(r)
  <2>1. /\ writer = NoRequest /\ dispatcher \notin {"round", "assign"}
        /\ writer' = r
    BY <1>4 DEF LockForWrite, LockFree
  <2>2. /\ requests'[r].at = "locked"
        /\ \A q \in Requests \ {r} : requests'[q] = requests[q]
    BY <1>2, <1>4 DEF LockForWrite, Request
  <2>3. QED
    BY <1>1, <1>2, <1>3, <2>1, <2>2 DEF Locks, At
<1>5. CASE Unlock(r)
  <2>1. /\ requests[r].at = "locked"
        /\ writer' = NoRequest
        /\ table' = table
        /\ requests' = [requests EXCEPT ![r] = Idle]
    BY <1>5 DEF Unlock, At, Finish
  <2>2. requests'[r].at = "idle"
    BY <1>2, <2>1 DEF Idle
  <2>3. \A q \in Requests \ {r} : requests'[q] = requests[q]
    BY <1>2, <2>1
  <2>4. QED
    BY <1>1, <1>2, <1>3, <2>1, <2>2, <2>3 DEF Locks, At
<1>6. ASSUME NEW d \in Destinations, DeleteMatched(r, d) \/ DeleteQueue(r, d)
      PROVE  Locks'
  <2>1. /\ requests[r].at = "locked"
        /\ writer' = writer
        /\ requests' = [requests EXCEPT ![r].todo = requests[r].todo \ {d}]
    BY <1>6 DEF DeleteMatched, DeleteQueue, At
  <2>2. \A q \in Requests : requests'[q].at = requests[q].at
    BY <1>2, <2>1 DEF Request
  <2>3. QED
    BY <1>1, <1>2, <1>3, <2>1, <2>2 DEF Locks, At
<1>7. ASSUME ~LockForWrite(r), ~Unlock(r),
             ~\E d \in Destinations : DeleteMatched(r, d) \/ DeleteQueue(r, d)
      PROVE  Locks'
  <2>1. writer' = writer /\ table \subseteq table'
    BY <1>7 DEF Arrival, ServiceStep, HandleReliable, BeginNotActive, HandleDirect,
           BeginStop, Destroy, EnqueueExisting, QueueMissing, CreateAndEnqueue,
           MarkCleanup, DirectDelivered, EndStop
  <2>2. requests[r].at # "locked"
    BY <1>7 DEF Arrival, ServiceStep, HandleReliable, BeginNotActive, HandleDirect,
           BeginStop, Destroy, EnqueueExisting, QueueMissing, CreateAndEnqueue,
           MarkCleanup, DirectDelivered, EndStop, At
  <2>3. /\ requests'[r].at # "locked"
        /\ \A q \in Requests \ {r} : requests'[q] = requests[q]
    BY <1>2, <1>7, <2>2
       DEF Arrival, ServiceStep, HandleReliable, BeginNotActive, HandleDirect,
           BeginStop, Destroy, EnqueueExisting, QueueMissing, CreateAndEnqueue,
           MarkCleanup, DirectDelivered, EndStop, At, Goto, Finish, Idle, Request
  <2>4. QED
    BY <1>1, <1>2, <1>3, <2>1, <2>2, <2>3 DEF Locks, At
<1>8. QED
  BY <1>4, <1>5, <1>6, <1>7

\* The dispatcher hands out only for a destination that is not PENDING, of a
\* queue that is in the table until the round is over.
LEMMA DispatcherKeepsSafe ==
    ASSUME SafeInv, DispatcherStep
    PROVE  HandedInv' /\ Locks'
<1> USE DEF queueVars, flagVars, lockVars
<1> PoolTyped
  BY TypeParts DEF SafeInv, TypeInv
<1>1. /\ pending = Out /\ Out \subseteq table /\ Distinct
      /\ \A q \in Requests : requests[q].at = "locked" <=> writer = q
      /\ dispatcher \in {"round", "assign"} =>
            writer = NoRequest /\ todo \subseteq table
  BY DEF SafeInv, HandedInv, PendingIsOut, QueueOutlivesDelivery, Locks, At
<1>2. UNCHANGED <<table, writer, requests>>
  BY DEF DispatcherStep, Wake, BeginRound, VisitNone, VisitDispatch,
         NoThreadNeeded, StartThread, StartFails, EndRound
<1>3. Locks'
  <2>1. dispatcher' \in {"round", "assign"} =>
           writer = NoRequest /\ todo' \subseteq table
    BY <1>1 DEF DispatcherStep, Wake, BeginRound, Unwritten, VisitNone,
           VisitDispatch, NoThreadNeeded, StartThread, StartFails, EndRound
  <2>2. QED
    BY <1>1, <1>2, <2>1 DEF Locks, At
<1>4. ASSUME NEW d \in Destinations, VisitDispatch(d)
      PROVE  HandedInv'
  <2>1. /\ d \in table /\ d \notin pending
        /\ pending' = pending \cup {d}
        /\ deliveryQueue' = Append(deliveryQueue, d)
        /\ threads' = threads
    BY <1>1, <1>4 DEF VisitDispatch, Deliverable, InsertBack
  <2>2. Out' = Out \cup {d} /\ Distinct'
    BY <1>1, <2>1, HandOut
  <2>3. QED
    BY <1>1, <1>2, <2>1, <2>2
       DEF HandedInv, PendingIsOut, QueueOutlivesDelivery
<1>5. ASSUME Out' = Out, Distinct', pending' = pending
      PROVE  HandedInv'
  BY <1>1, <1>2, <1>5 DEF HandedInv, PendingIsOut, QueueOutlivesDelivery
<1>6. ASSUME NEW t \in DeliveryThreads, StartThread(t)
      PROVE  HandedInv'
  <2>1. /\ threads[t].at # "deliver"
        /\ threads' = [threads EXCEPT ![t].at = "take"]
        /\ deliveryQueue' = deliveryQueue
        /\ pending' = pending
    BY <1>6 DEF StartThread
  <2>2. QED
    BY <1>1, <1>5, <2>1, ThreadMovesOn
<1>7. ASSUME ~\E d \in Destinations : VisitDispatch(d),
             ~\E t \in DeliveryThreads : StartThread(t)
      PROVE  HandedInv'
  <2>1. UNCHANGED <<deliveryQueue, threads>> /\ pending' = pending
    BY <1>7 DEF DispatcherStep, Wake, BeginRound, VisitNone, NoThreadNeeded,
                StartFails, EndRound, poolVars
  <2>2. QED
    BY <1>1, <1>5, <2>1, NothingHanded
<1>8. QED
  BY <1>3, <1>4, <1>6, <1>7

\* A delivery thread takes back the PENDING status of the one destination whose
\* attempt it ends.
LEMMA DeliveryKeepsSafe ==
    ASSUME SafeInv, NEW t \in DeliveryThreads, DeliveryStep(t)
    PROVE  HandedInv' /\ Locks'
<1> USE DEF queueVars, roundVars, lockVars
<1> PoolTyped
  BY TypeParts DEF SafeInv, TypeInv
<1>1. pending = Out /\ Out \subseteq table /\ Distinct
  BY DEF SafeInv, HandedInv, PendingIsOut, QueueOutlivesDelivery
<1>2. UNCHANGED <<table, roundVars, lockVars>>
  BY DEF DeliveryStep, Take, DeliveryEnds, DeliveryFails, Leave, Return
<1>3. Locks'
  BY <1>2 DEF SafeInv, Locks, At
<1>4. ASSUME Out' = Out, Distinct', pending' = pending
      PROVE  HandedInv'
  BY <1>1, <1>2, <1>4 DEF HandedInv, PendingIsOut, QueueOutlivesDelivery
<1>5. CASE Take(t)
  <2>1. threads[t].at = "take" /\ pending' = pending
    BY <1>5 DEF Take
  <2>2. CASE deliveryQueue = <<>>
    <3>1. /\ threads' = [threads EXCEPT ![t].at = "leave"]
          /\ deliveryQueue' = deliveryQueue
      BY <1>5, <2>2 DEF Take
    <3>2. Out' = Out /\ Distinct'
      BY <1>1, <2>1, <3>1, ThreadMovesOn
    <3>3. QED
      BY <1>3, <1>4, <2>1, <3>2
  <2>3. CASE deliveryQueue # <<>>
    <3>1. /\ threads' = [threads EXCEPT ![t] =
                            [at |-> "deliver", dest |-> Head(deliveryQueue)]]
          /\ deliveryQueue' = Tail(deliveryQueue)
      BY <1>5, <2>3 DEF Take
    <3>2. Out' = Out /\ Distinct'
      BY <1>1, <2>1, <2>3, <3>1, TakeKeepsOut
    <3>3. QED
      BY <1>3, <1>4, <2>1, <3>2
  <2>4. QED
    BY <2>2, <2>3
<1>6. CASE DeliveryEnds(t) \/ DeliveryFails(t)
  <2>1. /\ threads[t].at = "deliver"
        /\ threads' = [threads EXCEPT ![t] =
                          [at |-> "take", dest |-> NoDestination]]
        /\ deliveryQueue' = deliveryQueue
        /\ pending' = pending \ {threads[t].dest}
    BY <1>6 DEF DeliveryEnds, DeliveryFails, TakeNext, NoLongerPending
  <2>2. Out' = Out \ {threads[t].dest} /\ Distinct'
    BY <1>1, <2>1, AttemptTakesBack
  <2>3. QED
    BY <1>1, <1>2, <1>3, <2>1, <2>2
       DEF HandedInv, PendingIsOut, QueueOutlivesDelivery
<1>7. CASE Leave(t) \/ Return(t)
  <2>1. /\ threads[t].at # "deliver"
        /\ deliveryQueue' = deliveryQueue
        /\ pending' = pending
    BY <1>7 DEF Leave, Return
  <2>2. CASE threads' = [threads EXCEPT ![t].at = "return"]
    <3>1. Out' = Out /\ Distinct'
      BY <1>1, <2>1, <2>2, ThreadMovesOn
    <3>2. QED
      BY <1>3, <1>4, <2>1, <3>1
  <2>3. CASE threads' = [threads EXCEPT ![t].at = "idle"]
    <3>1. Out' = Out /\ Distinct'
      BY <1>1, <2>1, <2>3, ThreadMovesOn
    <3>2. QED
      BY <1>3, <1>4, <2>1, <3>1
  <2>4. QED
    BY <1>7, <2>2, <2>3 DEF Leave, Return
<1>8. QED
  BY <1>3, <1>5, <1>6, <1>7 DEF DeliveryStep

\* Every step keeps what is handed out, and the locks, in order.
LEMMA StepSafe ==
    ASSUME SafeInv, [Next]_vars
    PROVE  SafeInv'
<1>1. TypeInv'
  BY StepTyped DEF SafeInv
<1>2. ASSUME NEW r \in Requests, Arrival(r) \/ ServiceStep(r)
      PROVE  HandedInv' /\ Locks'
  BY <1>2, ServiceKeepsHanded, ServiceKeepsLocks
<1>3. ASSUME DispatcherStep
      PROVE  HandedInv' /\ Locks'
  BY <1>3, DispatcherKeepsSafe
<1>4. ASSUME NEW t \in DeliveryThreads, DeliveryStep(t)
      PROVE  HandedInv' /\ Locks'
  BY <1>4, DeliveryKeepsSafe
<1>5. ASSUME \/ \E d \in Destinations : RetryIntervalOver(d)
             \/ SetReliable
             \/ UNCHANGED vars
      PROVE  HandedInv' /\ Locks'
  <2>1. UNCHANGED <<table, pending, roundVars, poolVars, lockVars>>
    BY <1>5 DEF RetryIntervalOver, SetReliable, vars, queueVars
  <2>2. Out' = Out /\ Distinct'
    BY <2>1, NothingHanded DEF poolVars, SafeInv, HandedInv
  <2>3. HandedInv'
    BY <2>1, <2>2 DEF SafeInv, HandedInv, PendingIsOut, QueueOutlivesDelivery
  <2>4. Locks'
    BY <2>1 DEF SafeInv, Locks, At, roundVars, lockVars
  <2>5. QED
    BY <2>3, <2>4
<1>6. QED
  BY <1>1, <1>2, <1>3, <1>4, <1>5 DEF Next, SafeInv

\* The inductive invariant of the handler service.
LEMMA SafeInvHolds == Spec => []SafeInv
<1>1. QED
  BY InitSafe, StepSafe, PTL DEF Spec

\* QueueOutlivesDelivery: no request deletes a queue of which a delivery thread,
\* or _deliveryQueue, still holds an indication.
THEOREM QueuesOutliveDeliveries == Spec => []QueueOutlivesDelivery
<1>1. SafeInv => QueueOutlivesDelivery
  BY DEF SafeInv, HandedInv
<1>2. QED
  BY <1>1, SafeInvHolds, PTL

\* PendingIsOut: a status is PENDING exactly while an indication is handed out.
THEOREM PendingMatchesOut == Spec => []PendingIsOut
<1>1. SafeInv => PendingIsOut
  BY DEF SafeInv, HandedInv
<1>2. QED
  BY <1>1, SafeInvHolds, PTL
-----------------------------------------------------------------------------
\* When no destination is there twice, there are as many destinations handed
\* out as there are indications on _deliveryQueue and with the threads.
LEMMA DistinctCounts ==
    ASSUME PoolTyped, Distinct
    PROVE  OneDeliveryPerDestination
<1> DEFINE onQueue    == {deliveryQueue[i] : i \in Queued}
           withThread == {threads[t].dest : t \in Delivering}
           place      == [i \in 1..Len(deliveryQueue) |-> deliveryQueue[i]]
           carried    == [t \in Delivering |-> threads[t].dest]
<1>1. Queued = 1..Len(deliveryQueue) /\ Len(deliveryQueue) \in Nat
  BY DEF Queued, PoolTyped
<1>2. IsFiniteSet(Delivering)
  BY ThreadAssumption, FS_Subset DEF Delivering
<1>3. IsFiniteSet(onQueue) /\ Cardinality(onQueue) = Len(deliveryQueue)
  <2>1. place \in Bijection(1..Len(deliveryQueue), onQueue)
    <3>1. /\ DOMAIN place = 1..Len(deliveryQueue)
          /\ DOMAIN deliveryQueue = 1..Len(deliveryQueue)
          /\ \A i \in 1..Len(deliveryQueue) : place[i] = deliveryQueue[i]
      BY <1>1 DEF PoolTyped
    <3>2. place \in [1..Len(deliveryQueue) -> onQueue]
      BY <1>1
    <3>3. IsInjective(place)
      BY <3>1 DEF Distinct, IsInjective
    <3>4. \A d \in onQueue : \E i \in 1..Len(deliveryQueue) : place[i] = d
      BY <1>1, <3>1
    <3>5. QED
      BY <3>2, <3>3, <3>4, Zenon DEF Bijection, Injection, Surjection
  <2>2. ExistsBijection(1..Len(deliveryQueue), onQueue)
    BY <2>1 DEF ExistsBijection
  <2>3. /\ IsFiniteSet(1..Len(deliveryQueue))
        /\ Cardinality(1..Len(deliveryQueue)) = Len(deliveryQueue)
    <3> DEFINE n == Len(deliveryQueue)
    <3>1. n \in Nat
      BY <1>1
    <3> HIDE DEF n
    <3>2. /\ IsFiniteSet(1..n)
          /\ Cardinality(1..n) = IF 1 > n THEN 0 ELSE n - 1 + 1
      BY <3>1, FS_Interval
    <3>3. Cardinality(1..n) = n
      BY <3>1, <3>2
    <3>4. QED
      BY <3>2, <3>3 DEF n
  <2>4. QED
    BY <2>2, <2>3, FS_Bijection
<1>4. IsFiniteSet(withThread) /\ Cardinality(withThread) = Cardinality(Delivering)
  <2>1. carried \in Bijection(Delivering, withThread)
    BY DEF Distinct, Bijection, Injection, Surjection, IsInjective
  <2>2. ExistsBijection(Delivering, withThread)
    BY <2>1 DEF ExistsBijection
  <2>3. QED
    BY <1>2, <2>2, FS_Bijection
<1>5. onQueue \cap withThread = {}
  <2>1. \A i \in Queued : \A t \in Delivering :
           deliveryQueue[i] # threads[t].dest
    BY DEF Distinct, Queued
  <2>2. QED
    BY <2>1
<1>6. Cardinality({}) = 0 /\ Cardinality(Delivering) \in Nat
  BY <1>2, FS_EmptySet, FS_CardinalityType
<1>7. Out = onQueue \cup withThread
  BY DEF Out
<1> HIDE DEF onQueue, withThread
<1>8. Cardinality(onQueue \cup withThread)
         = Cardinality(onQueue) + Cardinality(withThread) - Cardinality({})
  BY <1>3, <1>4, <1>5, FS_Union
<1>9. QED
  BY <1>1, <1>3, <1>4, <1>6, <1>7, <1>8 DEF OneDeliveryPerDestination

\* OneDeliveryPerDestination: over the queue and all threads of the pool, at
\* most one indication of a destination is handed out at a time.
THEOREM OneDeliveryEach == Spec => []OneDeliveryPerDestination
<1>1. SafeInv => OneDeliveryPerDestination
  BY DistinctCounts, TypeParts DEF SafeInv, TypeInv, HandedInv
<1>2. QED
  BY <1>1, SafeInvHolds, PTL
-----------------------------------------------------------------------------
\* A cleanup under way has every queue of the table left to delete.
CleansAll ==
    \A r \in Requests :
        At(r, "locked") /\ requests[r].op = "cleanup"
            => table \subseteq requests[r].todo

CleanupInv == SafeInv /\ CleansAll /\ CleanupIsDue

\* Initially there is no queue.
LEMMA InitCleanup == Init => CleanupInv
BY InitSafe DEF Init, CleanupInv, CleansAll, CleanupIsDue, At, Idle

\* No queue is added while a cleanup is under way, so a cleanup that ends leaves
\* no queue; a request that added one is going to set the flag.
LEMMA ServiceKeepsCleanup ==
    ASSUME CleanupInv, NEW r \in Requests, Arrival(r) \/ ServiceStep(r)
    PROVE  CleansAll' /\ CleanupIsDue'
<1> USE DEF queueVars, flagVars
<1>1. /\ requests \in [Requests -> Request]
      /\ NoRequest \notin Requests
  BY TypeParts, ThreadAssumption DEF CleanupInv, SafeInv, TypeInv, RequestsTyped
<1>2. /\ \A q \in Requests : requests[q].at = "locked" <=> writer = q
      /\ \A q \in Requests : requests[q].at = "locked" /\ requests[q].op = "cleanup"
                                => table \subseteq requests[q].todo
      /\ table # {} =>
            \/ needCleanup
            \/ \E q \in Requests :
                  \/ requests[q].at = "mark"
                  \/ requests[q].at = "locked" /\ requests[q].op = "cleanup"
  BY DEF CleanupInv, SafeInv, Locks, CleansAll, CleanupIsDue, At
<1>3. CASE LockForWrite(r)
  <2>1. /\ \A q \in Requests : requests[q].at # "locked"
        /\ table' = table
        /\ requests[r].at = "lock"
    BY <1>1, <1>2, <1>3 DEF LockForWrite, LockFree, At
  <2>2. /\ requests'[r].at = "locked" /\ requests'[r].op = requests[r].op
        /\ requests[r].op = "cleanup" => requests'[r].todo = table
        /\ \A q \in Requests \ {r} : requests'[q] = requests[q]
    BY <1>1, <1>3 DEF LockForWrite, Request
  <2>3. requests[r].op # "cleanup" => (needCleanup => needCleanup')
    BY <1>3, Zenon DEF LockForWrite
  <2>4. CleansAll'
    BY <2>1, <2>2 DEF CleansAll, At
  <2>5. CleanupIsDue'
    <3>1. CASE requests[r].op = "cleanup"
      BY <2>2, <3>1 DEF CleanupIsDue, At
    <3>2. CASE requests[r].op # "cleanup"
      BY <1>2, <2>1, <2>2, <2>3, <3>2 DEF CleanupIsDue, At
    <3>3. QED
      BY <3>1, <3>2
  <2>6. QED
    BY <2>4, <2>5
<1>4. CASE Unlock(r)
  <2>1. /\ requests[r].at = "locked" /\ requests[r].todo = {}
        /\ table' = table /\ needCleanup' = needCleanup
        /\ requests' = [requests EXCEPT ![r] = Idle]
    BY <1>4 DEF Unlock, Finish, At
  <2>2. /\ requests'[r].at = "idle"
        /\ \A q \in Requests \ {r} : requests'[q] = requests[q]
    BY <1>1, <2>1 DEF Idle
  <2>3. requests[r].op = "cleanup" => table = {}
    BY <1>2, <2>1
  <2>4. CleansAll'
    BY <1>2, <2>1, <2>2 DEF CleansAll, At
  <2>5. CleanupIsDue'
    BY <1>2, <2>1, <2>2, <2>3 DEF CleanupIsDue, At
  <2>6. QED
    BY <2>4, <2>5
<1>5. ASSUME NEW d \in Destinations, DeleteMatched(r, d) \/ DeleteQueue(r, d)
      PROVE  CleansAll' /\ CleanupIsDue'
  <2>1. /\ requests[r].at = "locked"
        /\ requests' = [requests EXCEPT ![r].todo = requests[r].todo \ {d}]
        /\ needCleanup' = needCleanup
        /\ \/ table' = table /\ requests[r].op = "subscription"
           \/ table' = table \ {d}
    BY <1>5 DEF DeleteMatched, DeleteQueue, At
  <2>2. /\ requests'[r].at = "locked" /\ requests'[r].op = requests[r].op
        /\ requests'[r].todo = requests[r].todo \ {d}
        /\ \A q \in Requests \ {r} : requests'[q] = requests[q]
    BY <1>1, <2>1 DEF Request
  <2>3. \A q \in Requests : requests[q].at = "locked" => q = r
    BY <1>2, <2>1
  <2>4. CleansAll'
    BY <1>2, <2>1, <2>2, <2>3 DEF CleansAll, At
  <2>5. CleanupIsDue'
    BY <1>2, <2>1, <2>2 DEF CleanupIsDue, At
  <2>6. QED
    BY <2>4, <2>5
<1>6. ASSUME NEW d \in Destinations, EnqueueExisting(r, d) \/ CreateAndEnqueue(r, d)
      PROVE  CleansAll' /\ CleanupIsDue'
  <2>1. \A q \in Requests : requests[q].at # "locked"
    BY <1>1, <1>2, <1>6 DEF EnqueueExisting, CreateAndEnqueue, Unwritten, LockFree
  <2>2. requests' = [requests EXCEPT ![r].at = "mark"]
    BY <1>6 DEF EnqueueExisting, CreateAndEnqueue, Goto
  <2>3. /\ requests'[r].at = "mark"
        /\ \A q \in Requests \ {r} : requests'[q] = requests[q]
    BY <1>1, <2>2 DEF Request
  <2>4. QED
    BY <2>1, <2>3 DEF CleansAll, CleanupIsDue, At
<1>7. CASE MarkCleanup(r)
  <2>1. /\ needCleanup' = TRUE /\ table' = table
        /\ requests' = [requests EXCEPT ![r] = Idle]
    BY <1>7 DEF MarkCleanup, Finish
  <2>2. /\ requests'[r].at = "idle"
        /\ \A q \in Requests \ {r} : requests'[q] = requests[q]
    BY <1>1, <2>1 DEF Idle
  <2>3. QED
    BY <1>2, <2>1, <2>2 DEF CleansAll, CleanupIsDue, At
<1>8. ASSUME ~LockForWrite(r), ~Unlock(r), ~MarkCleanup(r),
             ~\E d \in Destinations :
                \/ DeleteMatched(r, d) \/ DeleteQueue(r, d)
                \/ EnqueueExisting(r, d) \/ CreateAndEnqueue(r, d)
      PROVE  CleansAll' /\ CleanupIsDue'
  <2>1. UNCHANGED <<table, needCleanup>> /\ requests[r].at \notin {"locked", "mark"}
    BY <1>8 DEF Arrival, ServiceStep, HandleReliable, BeginNotActive, HandleDirect,
           BeginStop, Destroy, QueueMissing, DirectDelivered, EndStop, At
  <2>2. /\ requests'[r].at # "locked"
        /\ \A q \in Requests \ {r} : requests'[q] = requests[q]
    BY <1>1, <1>8, <2>1
       DEF Arrival, ServiceStep, HandleReliable, BeginNotActive, HandleDirect,
           BeginStop, Destroy, QueueMissing, DirectDelivered, EndStop, At, Goto,
           Finish, Idle, Request
  <2>3. QED
    BY <1>2, <2>1, <2>2 DEF CleansAll, CleanupIsDue, At
<1>9. QED
  BY <1>3, <1>4, <1>5, <1>6, <1>7, <1>8

\* Nobody else adds a queue or clears the flag.
LEMMA StepCleanup ==
    ASSUME CleanupInv, [Next]_vars
    PROVE  CleanupInv'
<1>1. SafeInv'
  BY StepSafe DEF CleanupInv
<1>2. ASSUME NEW r \in Requests, Arrival(r) \/ ServiceStep(r)
      PROVE  CleansAll' /\ CleanupIsDue'
  BY <1>2, ServiceKeepsCleanup
<1>3. ASSUME UNCHANGED <<table, needCleanup, requests>>
      PROVE  CleansAll' /\ CleanupIsDue'
  BY <1>3 DEF CleanupInv, CleansAll, CleanupIsDue, At
<1>4. ASSUME \/ DispatcherStep
             \/ \E t \in DeliveryThreads : DeliveryStep(t)
             \/ \E d \in Destinations : RetryIntervalOver(d)
             \/ SetReliable
             \/ UNCHANGED vars
      PROVE  UNCHANGED <<table, needCleanup, requests>>
  BY <1>4 DEF DispatcherStep, Wake, BeginRound, VisitNone, VisitDispatch,
         NoThreadNeeded, StartThread, StartFails, EndRound, DeliveryStep, Take,
         DeliveryEnds, DeliveryFails, Leave, Return, RetryIntervalOver,
         SetReliable, vars, queueVars, flagVars, lockVars
<1>5. QED
  BY <1>1, <1>2, <1>3, <1>4 DEF Next, CleanupInv

\* CleanupIsDue: as long as a queue exists its cleanup is not forgotten, however
\* requests, cleanups and changes of the configuration interleave.
THEOREM CleanupNotForgotten == Spec => []CleanupIsDue
<1>1. CleanupInv => CleanupIsDue
  BY DEF CleanupInv
<1>2. QED
  BY <1>1, InitCleanup, StepCleanup, PTL DEF Spec
=============================================================================
