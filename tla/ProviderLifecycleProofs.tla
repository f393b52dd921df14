---------------------- MODULE ProviderLifecycleProofs ----------------------
(***************************************************************************)
(* Proofs about ProviderLifecycle, for any finite sets of providers and    *)
(* threads, any number of requests and any range of the subscription       *)
(* count.                                                                  *)
(***************************************************************************)
EXTENDS ProviderLifecycle, FiniteSetTheorems, TLAPS

Requests == {"operation", "create", "delete"}

\* Where a thread works on one provider.
Located == Inside \cup {"lookup", "module", "init", "begin", "waiting", "unload", "flag"}

ThreadRecord == [job: Kinds \cup {"none"}, at: Places,
                 provider: Providers \cup {NoProvider},
                 left: SUBSET Providers, handler: Nat]

\* Each place is reached by the requests that the code there is for.
Placed(x) ==
    /\ x.at \in Located => x.provider \in Providers
    /\ x.at = "lookup" => x.job \in Requests \cup {"disable"}
    /\ x.at \in {"module", "init", "begin", "calling"} => x.job \in Requests
    /\ x.at = "testing" => x.job \in {"create", "delete"}
    /\ x.at \in {"enabling", "enable"} => x.job \in {"create", "complete"}
    /\ x.at \in {"disable", "clear"} => x.job = "delete"
    /\ x.at \in {"waiting", "unload"} => x.job = "disable"
    /\ x.at = "flag" => x.job = "complete"
    /\ x.at \in {"start", "list", "collect", "visit"} =>
          x.job \in {"idle", "stop", "complete", "disabled"}

PlacedThread == {x \in ThreadRecord : Placed(x)}

\* What is known of the threads: the types, and Placed.
ThreadsTyped == thread \in [Threads -> PlacedThread]

CachedTyped == cached \subseteq Providers

\* The members but those that TypeInv says more of.
ManagerTyped ==
    /\ jobs \in 0..MaxJobs
    /\ tableMutex \in Threads \cup {NoThread}
    /\ statusMutex \in [Providers -> Threads \cup {NoThread}]
    /\ CachedTyped
    /\ initComplete \in BOOLEAN
    /\ complete \in [Providers -> BOOLEAN]
    /\ accepted \in [Providers -> Nat]
    /\ disturbed \subseteq Providers

ProvidersTyped ==
    /\ initialized \in [Providers -> BOOLEAN]
    /\ subscriptions \in [Providers -> 0..(CountRange - 1)]
    /\ enabled \in [Providers -> BOOLEAN]
    /\ life \in [Providers -> {"none", "live", "terminated"}]
    /\ usedHandler \in [Providers -> Nat]
    /\ leaked \in Nat

HandlersTyped ==
    /\ handler \in [Providers -> Nat]
    /\ handlers \in [Providers -> {S \in SUBSET Nat : IsFiniteSet(S)}]
    /\ \A p \in Providers : handler[p] \in handlers[p] \cup {0}

\* The threads that _currentOperations counts.
Busy(p) == {t \in Threads : Requesting(t) /\ InProvider(t, p)}

Counted == operations = [p \in Providers |-> Cardinality(Busy(p))]

\* The end of the initialization holds the status mutex of the provider it is in.
Ending(t) == thread[t].job = "complete" /\ thread[t].at \in {"enabling", "enable", "flag"}

Holds == \A t \in Threads : Ending(t) => statusMutex[thread[t].provider] = t

\* Nobody is in a provider that is not initialized.
BusyLoaded == \A t \in Threads : thread[t].at \in Inside => initialized[thread[t].provider]

Loaded == {p \in Providers : initialized[p]}

LoadedLives == \A p \in Loaded : life[p] # "none"

TypeInv ==
    /\ ThreadsTyped /\ ManagerTyped /\ ProvidersTyped /\ HandlersTyped
    /\ Counted

LoadInv == TypeInv /\ Holds /\ BusyLoaded /\ LoadedLives /\ ModuleReferenced

\* One request at a time works on the indications of a provider, ...
OneSignals ==
    \A p \in Providers \ disturbed, t, u \in Threads :
        Signalling(t, p) /\ Signalling(u, p) => t = u

\* ... whose indications are enabled while it has a handler, which exists.
Enabled(p) ==
    /\ usedHandler[p] # 0 =>
          enabled[p] /\ usedHandler[p] \in handlers[p] /\ life[p] # "none"
    /\ \A t \in Threads :
          thread[t].provider = p =>
             /\ thread[t].at = "enable" => enabled[p] /\ thread[t].handler \in handlers[p]
             /\ thread[t].at = "clear" => usedHandler[p] = 0

SignalInv == LoadInv /\ OneSignals /\ \A p \in Providers \ disturbed : Enabled(p)
-----------------------------------------------------------------------------
\* A number that no handler of the provider has.
LEMMA NewHandlerTyped ==
    ASSUME HandlersTyped, NEW p \in Providers
    PROVE  NewHandler(p) \in Nat \ {0} /\ NewHandler(p) \notin handlers[p]
<1> DEFINE n == Cardinality(handlers[p]) + 1
<1>1. IsFiniteSet(handlers[p])
  BY DEF HandlersTyped
<1>2. Cardinality(handlers[p]) \in Nat
  BY <1>1, FS_CardinalityType
<1>3. 1 \in Int /\ n \in Int /\ Cardinality(1..n) = IF 1 > n THEN 0 ELSE n - 1 + 1
  BY <1>2, FS_Interval
<1>4. Cardinality(1..n) = n
  BY <1>2, <1>3
<1>5. \E h \in 1..n : h \notin handlers[p]
  <2>1. SUFFICES ASSUME 1..n \subseteq handlers[p] PROVE FALSE
    OBVIOUS
  <2>2. Cardinality(1..n) <= Cardinality(handlers[p])
    BY <1>1, <2>1, FS_Subset
  <2>3. QED
    BY <1>2, <1>4, <2>2
<1>6. NewHandler(p) \in 1..n /\ NewHandler(p) \notin handlers[p]
  <2> DEFINE Unused(h) == h \notin handlers[p]
  <2>1. \E h \in 1..n : Unused(h)
    BY <1>5
  <2>2. (CHOOSE h \in 1..n : Unused(h)) \in 1..n /\ Unused(CHOOSE h \in 1..n : Unused(h))
    BY <2>1
  <2>3. QED
    BY <2>2 DEF NewHandler
<1>7. QED
  BY <1>2, <1>6

\* A thread goes to a place that is for its request.
LEMMA GotoPlaced ==
    ASSUME ThreadsTyped, NEW t \in Threads, NEW a \in Places, Goto(t, a),
           Placed([thread[t] EXCEPT !.at = a])
    PROVE  ThreadsTyped'
<1>1. thread[t] \in ThreadRecord
  BY DEF ThreadsTyped, PlacedThread
<1>2. [thread[t] EXCEPT !.at = a] \in ThreadRecord
  BY <1>1 DEF ThreadRecord
<1>3. [thread[t] EXCEPT !.at = a] \in PlacedThread
  BY <1>2 DEF PlacedThread
<1>4. thread' = [thread EXCEPT ![t] = [thread[t] EXCEPT !.at = a]]
  BY DEF Goto
<1>5. QED
  BY <1>3, <1>4 DEF ThreadsTyped

\* A request has been handled.
LEMMA DonePlaced ==
    ASSUME ThreadsTyped, NEW t \in Threads, Done(t)
    PROVE  ThreadsTyped'
<1>1. None \in PlacedThread
  BY DEF None, PlacedThread, ThreadRecord, Placed, Places, Kinds, Located, Inside
<1>2. QED
  BY <1>1 DEF Done, ThreadsTyped

\* A thread is where Placed lets it be.
LEMMA ThreadPlaced ==
    ASSUME ThreadsTyped, NEW t \in Threads
    PROVE  thread[t] \in ThreadRecord /\ Placed(thread[t])
BY DEF ThreadsTyped, PlacedThread

\* Every step leaves each thread in a place of its request.
LEMMA StepPlaced ==
    ASSUME ThreadsTyped, HandlersTyped, CachedTyped, [Next]_vars
    PROVE  ThreadsTyped'
<1> USE DEF Inside, Located, Places, Requests, Requesting
<1>1. CASE UNCHANGED vars
  BY <1>1 DEF vars, ThreadsTyped
<1> SUFFICES ASSUME NEW t \in Threads, Start(t) \/ Step(t)
             PROVE  ThreadsTyped'
  BY <1>1 DEF Next
<1>2. thread[t] \in ThreadRecord /\ Placed(thread[t])
  BY ThreadPlaced
<1>3. CASE Start(t)
  <2>1. None \in ThreadRecord
    BY DEF None, ThreadRecord, Kinds
  <2>2. CASE StartRequest(t)
    <3>1. PICK p \in Providers, job \in {"operation", "create", "delete", "disable"} :
             thread' = [thread EXCEPT ![t] =
                  [None EXCEPT !.job = job, !.at = "lookup", !.provider = p]]
      BY <2>2 DEF StartRequest
    <3>2. [None EXCEPT !.job = job, !.at = "lookup", !.provider = p] \in PlacedThread
      BY DEF None, PlacedThread, ThreadRecord, Kinds, Placed
    <3>3. QED
      BY <3>1, <3>2 DEF ThreadsTyped
  <2>3. CASE StartForAll(t)
    <3>1. PICK job \in {"idle", "complete", "disabled", "stop"} :
             thread' = [thread EXCEPT ![t] = [None EXCEPT !.job = job,
                  !.at = IF job \in {"complete", "disabled"} THEN "start" ELSE "list"]]
      BY <2>3 DEF StartForAll
    <3>2. [None EXCEPT !.job = job,
             !.at = IF job \in {"complete", "disabled"} THEN "start" ELSE "list"] \in PlacedThread
      BY DEF None, PlacedThread, ThreadRecord, Kinds, Placed
    <3>3. QED
      BY <3>1, <3>2 DEF ThreadsTyped
  <2>4. QED
    BY <1>3, <2>2, <2>3 DEF Start
<1>4. CASE Lookup(t)
  <2>1. \/ Goto(t, "begin") /\ Requesting(t)
        \/ Goto(t, "module") /\ Requesting(t)
        \/ Goto(t, "waiting") /\ ~Requesting(t)
        \/ Done(t)
    BY <1>4 DEF Lookup
  <2>2. thread[t].at = "lookup"
    BY <1>4 DEF Lookup
  <2>3. QED
    BY <1>2, <2>1, <2>2, GotoPlaced, DonePlaced DEF Placed, ThreadRecord
<1>5. CASE LookupModule(t)
  BY <1>2, <1>5, GotoPlaced DEF LookupModule, Placed, ThreadRecord
<1>6. CASE InitProvider(t)
  <2>1. thread[t].at = "init" /\ (Goto(t, "begin") \/ Done(t))
    BY <1>6 DEF InitProvider
  <2>2. QED
    BY <1>2, <2>1, GotoPlaced, DonePlaced DEF Placed, ThreadRecord
<1>7. CASE Begin(t)
  <2>1. thread[t].at = "begin" /\ (Goto(t, "calling") \/ Done(t))
    BY <1>7 DEF Begin
  <2>2. QED
    BY <1>2, <2>1, GotoPlaced, DonePlaced DEF Placed, ThreadRecord
<1>8. CASE EndOperation(t)
  BY <1>8, DonePlaced DEF EndOperation, End
<1>9. CASE CountCreated(t)
  <2>1. At(t, "create", "calling") /\ (Goto(t, "testing") \/ Done(t))
    BY <1>9 DEF CountCreated, End
  <2>2. QED
    BY <1>2, <2>1, GotoPlaced, DonePlaced DEF Placed, ThreadRecord, At
<1>10. CASE CountDeleted(t)
  <2>1. At(t, "delete", "calling") /\ (Goto(t, "testing") \/ Done(t))
    BY <1>10 DEF CountDeleted, End
  <2>2. QED
    BY <1>2, <2>1, GotoPlaced, DonePlaced DEF Placed, ThreadRecord, At
<1>11. CASE TestComplete(t)
  <2>1. /\ thread[t].at = "testing"
        /\ \/ Done(t)
           \/ Goto(t, "enabling") /\ thread[t].job = "create"
           \/ Goto(t, "disable") /\ thread[t].job # "create"
    BY <1>11 DEF TestComplete, End
  <2>2. QED
    BY <1>2, <2>1, GotoPlaced, DonePlaced DEF Placed, ThreadRecord
<1>12. CASE EnableIndications(t)
  <2> DEFINE h == NewHandler(thread[t].provider)
             x == [[thread[t] EXCEPT !.at = "enable"] EXCEPT !.handler = h]
  <2>1. thread[t].at = "enabling" /\ thread' = [thread EXCEPT ![t] = x]
    BY <1>12 DEF EnableIndications
  <2>2. thread[t].provider \in Providers
    BY <1>2, <2>1 DEF Placed
  <2>3. h \in Nat
    BY <2>2, NewHandlerTyped
  <2>4. x \in PlacedThread
    <3> HIDE DEF h
    <3> QED BY <1>2, <2>1, <2>3 DEF Placed, ThreadRecord, PlacedThread
  <2>5. QED
    <3> HIDE DEF x
    <3> QED BY <2>1, <2>4 DEF ThreadsTyped
<1>13. CASE CallEnable(t)
  <2>1. /\ thread[t].at = "enable"
        /\ Done(t) \/ (Goto(t, "flag") /\ thread[t].job # "create")
    BY <1>13 DEF CallEnable, End
  <2>2. QED
    BY <1>2, <2>1, GotoPlaced, DonePlaced DEF Placed, ThreadRecord
<1>14. CASE CallDisable(t)
  <2>1. thread[t].at = "disable" /\ (Goto(t, "clear") \/ Done(t))
    BY <1>14 DEF CallDisable, End
  <2>2. QED
    BY <1>2, <2>1, GotoPlaced, DonePlaced DEF Placed, ThreadRecord
<1>15. CASE ClearIndications(t)
  BY <1>15, DonePlaced DEF ClearIndications, End
<1>16. CASE WaitForOperations(t)
  <2>1. At(t, "disable", "waiting") /\ (Goto(t, "unload") \/ Done(t))
    BY <1>16 DEF WaitForOperations
  <2>2. QED
    BY <1>2, <2>1, GotoPlaced, DonePlaced DEF Placed, ThreadRecord, At
<1>17. CASE DisableProvider(t)
  BY <1>17, DonePlaced DEF DisableProvider
<1>18. CASE SetInitComplete(t)
  BY <1>2, <1>18, GotoPlaced DEF SetInitComplete, Placed, ThreadRecord
<1>19. CASE List(t)
  <2> DEFINE a == IF thread[t].job = "stop" THEN "collect" ELSE "visit"
             x == [[thread[t] EXCEPT !.at = a] EXCEPT !.left = cached]
  <2>1. thread[t].at = "list" /\ thread' = [thread EXCEPT ![t] = x] /\ a \in {"collect", "visit"}
    BY <1>19 DEF List
  <2>2. x \in PlacedThread
    <3> HIDE DEF a
    <3> QED BY <1>2, <2>1 DEF Placed, ThreadRecord, PlacedThread, CachedTyped
  <2>3. QED
    <3> HIDE DEF x
    <3> QED BY <2>1, <2>2 DEF ThreadsTyped
<1>20. CASE Collect(t)
  <2> DEFINE S == {p \in cached : initialized[p]}
             x == [[thread[t] EXCEPT !.at = "visit"] EXCEPT !.left = S]
  <2>1. At(t, "stop", "collect") /\ thread' = [thread EXCEPT ![t] = x]
    BY <1>20 DEF Collect
  <2>2. S \in SUBSET Providers
    BY DEF CachedTyped
  <2>3. x \in PlacedThread
    <3> HIDE DEF S
    <3> QED BY <1>2, <2>1, <2>2 DEF Placed, ThreadRecord, PlacedThread, At
  <2>4. QED
    <3> HIDE DEF x
    <3> QED BY <2>1, <2>3 DEF ThreadsTyped
<1>21. CASE AllVisited(t)
  BY <1>21, DonePlaced DEF AllVisited
<1>22. CASE SetComplete(t)
  <2> DEFINE x == [[[thread[t] EXCEPT !.at = "visit"] EXCEPT !.provider = NoProvider] EXCEPT
                      !.left = @ \ {thread[t].provider}]
  <2>1. At(t, "complete", "flag") /\ thread' = [thread EXCEPT ![t] = x]
    BY <1>22 DEF SetComplete
  <2>2. x \in PlacedThread
    BY <1>2, <2>1 DEF Placed, ThreadRecord, PlacedThread, At
  <2>3. QED
    <3> HIDE DEF x
    <3> QED BY <2>1, <2>2 DEF ThreadsTyped
<1>23. ASSUME NEW p \in Providers, NEW job \in Kinds, Visit(t, job, p), Visited(t, p)
       PROVE  ThreadsTyped'
  <2> DEFINE x == [thread[t] EXCEPT !.left = @ \ {p}]
  <2>1. At(t, job, "visit") /\ thread' = [thread EXCEPT ![t] = x]
    BY <1>23 DEF Visit, Visited
  <2>2. x \in PlacedThread
    BY <1>2, <2>1 DEF Placed, ThreadRecord, PlacedThread, At
  <2>3. QED
    <3> HIDE DEF x
    <3> QED BY <2>1, <2>2 DEF ThreadsTyped
<1>24. ASSUME NEW p \in Providers, UnloadIdle(t, p) PROVE ThreadsTyped'
  <2>1. Visit(t, "idle", p) /\ (Visited(t, p) \/ Done(t))
    BY <1>24 DEF UnloadIdle
  <2>2. QED
    BY <2>1, <1>23, DonePlaced DEF Kinds
<1>25. ASSUME NEW p \in Providers, ServiceDisabled(t, p) PROVE ThreadsTyped'
  BY <1>23, <1>25 DEF ServiceDisabled, Kinds
<1>26. ASSUME NEW p \in Providers, StopProvider(t, p) PROVE ThreadsTyped'
  BY <1>23, <1>26 DEF StopProvider, Kinds
<1>27. ASSUME NEW p \in Providers, TestSubscriptions(t, p) PROVE ThreadsTyped'
  <2> DEFINE a == IF subscriptions[p] > 0 THEN "enabling" ELSE "flag"
             x == [[thread[t] EXCEPT !.provider = p] EXCEPT !.at = a]
  <2>1. Visit(t, "complete", p)
    BY <1>27 DEF TestSubscriptions
  <2>2. CASE Visited(t, p)
    BY <2>1, <2>2, <1>23 DEF Kinds
  <2>3. CASE thread' = [thread EXCEPT ![t] = x]
    <3>1. x \in PlacedThread
      BY <1>2, <2>1 DEF Placed, ThreadRecord, PlacedThread, Visit, At
    <3>2. QED
      <4> HIDE DEF x
      <4> QED BY <2>3, <3>1 DEF ThreadsTyped
  <2>4. QED
    BY <1>27, <2>2, <2>3 DEF TestSubscriptions
<1>28. QED
  BY <1>3, <1>4, <1>5, <1>6, <1>7, <1>8, <1>9, <1>10, <1>11, <1>12, <1>13, <1>14, <1>15,
     <1>16, <1>17, <1>18, <1>19, <1>20, <1>21, <1>22, <1>24, <1>25, <1>26, <1>27 DEF Step

\* Each end of a request, and Disturb, keep the types.
LEMMA DisturbTyped ==
    ASSUME disturbed \subseteq Providers, NEW t, NEW p \in Providers, Disturb(t, p)
    PROVE  disturbed' \subseteq Providers
BY DEF Disturb

\* Deleting the handler of a provider keeps the types.
LEMMA DeleteTyped ==
    ASSUME HandlersTyped, NEW p \in Providers, DeleteHandler(p)
    PROVE  HandlersTyped'
<1>1. IsFiniteSet(handlers[p] \ {handler[p]})
  BY FS_Difference DEF HandlersTyped
<1>2. QED
  BY <1>1 DEF HandlersTyped, DeleteHandler

\* Unloading a provider keeps the types of its members.
LEMMA UnloadTyped ==
    ASSUME ProvidersTyped, HandlersTyped, NEW p \in Providers, Unload(p)
    PROVE  ProvidersTyped' /\ HandlersTyped'
<1>1. CASE UNCHANGED <<loadVars, subscriptions, signalVars>>
  BY <1>1 DEF loadVars, signalVars, ProvidersTyped, HandlersTyped
<1>2. ASSUME NEW silenced \in BOOLEAN, NEW terminated \in BOOLEAN,
             usedHandler' = [usedHandler EXCEPT ![p] = IF enabled[p] THEN Silent(p) ELSE @],
             \/ DeleteHandler(p)
             \/ UNCHANGED <<handler, handlers>>,
             enabled' = [enabled EXCEPT ![p] = @ /\ ~silenced /\ ~terminated],
             subscriptions' = [subscriptions EXCEPT ![p] =
                       IF (enabled[p] /\ silenced) \/ terminated THEN 0 ELSE @],
             life' = [life EXCEPT ![p] = IF terminated THEN "none" ELSE "terminated"],
             initialized' = [initialized EXCEPT ![p] = ~terminated],
             leaked' = leaked
      PROVE  ProvidersTyped' /\ HandlersTyped'
  <2>1. usedHandler' \in [Providers -> Nat]
    BY <1>2 DEF ProvidersTyped, Silent
  <2>2. subscriptions' \in [Providers -> 0..(CountRange - 1)]
    <3>1. 0 \in 0..(CountRange - 1)
      BY LifecycleAssumption
    <3>2. QED
      BY <1>2, <3>1 DEF ProvidersTyped
  <2>3. enabled' \in [Providers -> BOOLEAN]
    BY <1>2, Zenon DEF ProvidersTyped
  <2>4. initialized' \in [Providers -> BOOLEAN]
    BY <1>2, Zenon DEF ProvidersTyped
  <2>5. life' \in [Providers -> {"none", "live", "terminated"}]
    BY <1>2 DEF ProvidersTyped
  <2>6. HandlersTyped'
    BY <1>2, DeleteTyped DEF HandlersTyped
  <2>7. QED
    BY <1>2, <2>1, <2>2, <2>3, <2>4, <2>5, <2>6 DEF ProvidersTyped
<1>3. QED
  BY <1>1, <1>2 DEF Unload

\* Every step keeps the types of the manager's members.
LEMMA StepManager ==
    ASSUME ThreadsTyped, ManagerTyped, [Next]_vars
    PROVE  ManagerTyped'
<1> USE DEF ManagerTyped, CachedTyped
<1>1. CASE UNCHANGED vars
  BY <1>1 DEF vars, tableVars, countVars
<1> SUFFICES ASSUME NEW t \in Threads, Start(t) \/ Step(t)
             PROVE  ManagerTyped'
  BY <1>1 DEF Next
<1>2. thread[t].at \in Located => thread[t].provider \in Providers
  BY ThreadPlaced DEF Placed
<1> USE DEF Inside, Located
<1>3. CASE Start(t)
  <2>1. jobs' \in 0..MaxJobs
    BY <1>3, LifecycleAssumption DEF Start
  <2>2. accepted' \in [Providers -> Nat]
    <3>1. CASE UNCHANGED accepted
      BY <3>1
    <3>2. CASE StartRequest(t)
      <4>1. PICK p \in Providers :
               \/ UNCHANGED accepted
               \/ accepted[p] > 0 /\ accepted' = [accepted EXCEPT ![p] = @ - 1]
        BY <3>2 DEF StartRequest
      <4>2. QED
        BY <4>1
    <3>3. QED
      BY <1>3, <3>1, <3>2 DEF Start, StartForAll
  <2>3. QED
    BY <1>3, <2>1, <2>2 DEF Start, tableVars
<1>4. CASE Lookup(t)
  <2>1. Captured \in BOOLEAN
    BY DEF Captured
  <2>2. complete' \in [Providers -> BOOLEAN]
    BY <1>4, <2>1, Zenon DEF Lookup
  <2>3. accepted' \in [Providers -> Nat]
    BY <1>4 DEF Lookup
  <2>4. QED
    BY <1>2, <1>4, <2>2, <2>3 DEF Lookup
<1>5. CASE LookupModule(t)
  BY <1>5 DEF LookupModule, tableVars, countVars
<1>6. CASE InitProvider(t)
  BY <1>6 DEF InitProvider, tableVars, countVars
<1>7. CASE Begin(t)
  BY <1>7 DEF Begin, tableVars, countVars
<1>8. CASE EndOperation(t)
  BY <1>8 DEF EndOperation, tableVars, countVars
<1>9. CASE CountCreated(t)
  <2>1. accepted' \in [Providers -> Nat]
    BY <1>9 DEF CountCreated
  <2>2. disturbed' \subseteq Providers
    BY <1>2, <1>9, DisturbTyped DEF CountCreated, At
  <2>3. QED
    BY <1>9, <2>1, <2>2 DEF CountCreated, tableVars
<1>10. CASE CountDeleted(t)
  <2>1. disturbed' \subseteq Providers
    BY <1>2, <1>10, DisturbTyped DEF CountDeleted, At
  <2>2. QED
    BY <1>10, <2>1 DEF CountDeleted, tableVars
<1>11. CASE TestComplete(t)
  BY <1>11 DEF TestComplete, tableVars, countVars
<1>12. CASE EnableIndications(t)
  BY <1>12 DEF EnableIndications, tableVars, countVars
<1>13. CASE CallEnable(t)
  BY <1>2, <1>13 DEF CallEnable, tableVars, countVars
<1>14. CASE CallDisable(t)
  BY <1>14 DEF CallDisable, tableVars, countVars
<1>15. CASE ClearIndications(t)
  BY <1>15 DEF ClearIndications, tableVars
<1>16. CASE WaitForOperations(t)
  BY <1>16 DEF WaitForOperations, tableVars, countVars
<1>17. CASE DisableProvider(t)
  <2>1. accepted' \in [Providers -> Nat]
    BY <1>17 DEF DisableProvider
  <2>2. disturbed' \subseteq Providers
    BY <1>2, <1>17 DEF DisableProvider, At
  <2>3. QED
    BY <1>17, <2>1, <2>2 DEF DisableProvider, tableVars
<1>18. CASE SetInitComplete(t)
  <2>1. initComplete' \in BOOLEAN
    BY <1>18, Zenon DEF SetInitComplete
  <2>2. QED
    BY <1>18, <2>1 DEF SetInitComplete, tableVars, countVars
<1>19. CASE List(t)
  BY <1>19 DEF List, countVars
<1>20. CASE Collect(t)
  BY <1>20 DEF Collect, tableVars, countVars
<1>21. CASE AllVisited(t)
  BY <1>21 DEF AllVisited, countVars
<1>22. CASE SetComplete(t)
  BY <1>22 DEF SetComplete, tableVars, countVars
<1>23. ASSUME NEW p \in Providers, UnloadIdle(t, p) PROVE ManagerTyped'
  BY <1>23 DEF UnloadIdle, tableVars
<1>24. ASSUME NEW p \in Providers, TestSubscriptions(t, p) PROVE ManagerTyped'
  <2>1. disturbed' \subseteq Providers
    BY <1>24, DisturbTyped DEF TestSubscriptions
  <2>2. statusMutex' \in [Providers -> Threads \cup {NoThread}]
    BY <1>24 DEF TestSubscriptions
  <2>3. QED
    BY <1>24, <2>1, <2>2 DEF TestSubscriptions, tableVars, countVars
<1>25. ASSUME NEW p \in Providers, ServiceDisabled(t, p) PROVE ManagerTyped'
  <2>1. complete' \in [Providers -> BOOLEAN]
    BY <1>25, Zenon DEF ServiceDisabled
  <2>2. QED
    BY <1>25, <2>1 DEF ServiceDisabled, tableVars, countVars
<1>26. ASSUME NEW p \in Providers, StopProvider(t, p) PROVE ManagerTyped'
  BY <1>26 DEF StopProvider, tableVars
<1>27. QED
  BY <1>3, <1>4, <1>5, <1>6, <1>7, <1>8, <1>9, <1>10, <1>11, <1>12, <1>13, <1>14, <1>15,
     <1>16, <1>17, <1>18, <1>19, <1>20, <1>21, <1>22, <1>23, <1>24, <1>25, <1>26 DEF Step

\* Every step keeps the types of the providers' members.
LEMMA StepProviders ==
    ASSUME ThreadsTyped, ProvidersTyped, HandlersTyped, [Next]_vars
    PROVE  ProvidersTyped' /\ HandlersTyped'
<1> USE DEF loadVars, signalVars, countVars
<1>1. ASSUME UNCHANGED <<initialized, life, leaked, subscriptions, signalVars>>
      PROVE  ProvidersTyped' /\ HandlersTyped'
  BY <1>1 DEF ProvidersTyped, HandlersTyped
<1>2. CASE UNCHANGED vars
  BY <1>1, <1>2 DEF vars
<1> SUFFICES ASSUME NEW t \in Threads, Start(t) \/ Step(t)
             PROVE  ProvidersTyped' /\ HandlersTyped'
  BY <1>2 DEF Next
<1>3. thread[t] \in ThreadRecord /\ (thread[t].at \in Located => thread[t].provider \in Providers)
  BY ThreadPlaced DEF Placed
<1> USE DEF Inside, Located
<1>4. CASE \/ Start(t) \/ Lookup(t) \/ LookupModule(t) \/ Begin(t) \/ EndOperation(t)
           \/ TestComplete(t) \/ WaitForOperations(t) \/ SetInitComplete(t) \/ List(t)
           \/ Collect(t) \/ AllVisited(t) \/ SetComplete(t)
           \/ \E p \in Providers : TestSubscriptions(t, p) \/ ServiceDisabled(t, p)
  BY <1>1, <1>4
  DEF Start, Lookup, LookupModule, Begin, EndOperation, End, TestComplete, WaitForOperations,
      SetInitComplete, List, Collect, AllVisited, SetComplete, TestSubscriptions, ServiceDisabled
<1>5. CASE InitProvider(t)
  <2> DEFINE p == thread[t].provider
  <2>1. CASE UNCHANGED <<initialized, life, leaked>>
    BY <1>1, <1>5, <2>1 DEF InitProvider
  <2>2. CASE initialized' = [initialized EXCEPT ![p] = TRUE] /\ life' = [life EXCEPT ![p] = "live"]
    <3>1. initialized' \in [Providers -> BOOLEAN]
      BY <2>2, Zenon DEF ProvidersTyped
    <3>2. life' \in [Providers -> {"none", "live", "terminated"}]
      BY <2>2 DEF ProvidersTyped
    <3>3. QED
      BY <1>5, <2>2, <3>1, <3>2 DEF InitProvider, ProvidersTyped, HandlersTyped
  <2>3. CASE UNCHANGED <<initialized, life>> /\ leaked' = leaked + 1
    BY <1>5, <2>3 DEF InitProvider, ProvidersTyped, HandlersTyped
  <2>4. QED
    BY <1>5, <2>1, <2>2, <2>3 DEF InitProvider
<1>6. CASE CountCreated(t) \/ CountDeleted(t)
  <2> DEFINE p == thread[t].provider
  <2>1. p \in Providers /\ UNCHANGED <<initialized, life, leaked, signalVars>>
    BY <1>3, <1>6 DEF CountCreated, CountDeleted, At, End
  <2>2. subscriptions[p] \in Nat /\ CountRange \in Nat /\ CountRange > 0
    BY <2>1, LifecycleAssumption DEF ProvidersTyped
  <2>3. /\ (subscriptions[p] + 1) % CountRange \in 0..(CountRange - 1)
        /\ (subscriptions[p] - 1) % CountRange \in 0..(CountRange - 1)
    BY <2>2
  <2>4. \/ subscriptions' = [subscriptions EXCEPT ![p] = (subscriptions[p] + 1) % CountRange]
        \/ subscriptions' = [subscriptions EXCEPT ![p] = (subscriptions[p] - 1) % CountRange]
    BY <1>6 DEF CountCreated, CountDeleted
  <2>5. subscriptions' \in [Providers -> 0..(CountRange - 1)]
    BY <2>3, <2>4 DEF ProvidersTyped
  <2>6. QED
    BY <2>1, <2>5 DEF ProvidersTyped, HandlersTyped
<1>7. CASE EnableIndications(t)
  <2> DEFINE p == thread[t].provider
             h == NewHandler(p)
  <2>1. p \in Providers /\ h \in Nat
    BY <1>3, <1>7, NewHandlerTyped DEF EnableIndications
  <2>2. /\ handler' = [handler EXCEPT ![p] = h]
        /\ handlers' = [handlers EXCEPT ![p] = @ \cup {h}]
        /\ enabled' = [enabled EXCEPT ![p] = TRUE]
        /\ UNCHANGED <<initialized, life, leaked, subscriptions, usedHandler>>
    BY <1>7 DEF EnableIndications
  <2> HIDE DEF h
  <2>3. IsFiniteSet(handlers[p] \cup {h})
    <3>1. IsFiniteSet(handlers[p])
      BY <2>1 DEF HandlersTyped
    <3>2. QED
      BY <3>1, FS_AddElement
  <2>4. HandlersTyped'
    BY <2>1, <2>2, <2>3 DEF HandlersTyped
  <2>5. enabled' \in [Providers -> BOOLEAN]
    BY <2>2, Zenon DEF ProvidersTyped
  <2>6. QED
    BY <2>2, <2>4, <2>5 DEF ProvidersTyped
<1>8. CASE CallEnable(t)
  <2>1. thread[t].handler \in Nat
    BY <1>3 DEF ThreadRecord
  <2>2. /\ usedHandler' = [usedHandler EXCEPT ![thread[t].provider] = thread[t].handler]
           \/ UNCHANGED usedHandler
        /\ UNCHANGED <<initialized, life, leaked, subscriptions, enabled, handler, handlers>>
    BY <1>8 DEF CallEnable, End
  <2>3. QED
    BY <2>1, <2>2 DEF ProvidersTyped, HandlersTyped
<1>9. CASE CallDisable(t)
  BY <1>9 DEF CallDisable, End, Silent, ProvidersTyped, HandlersTyped
<1>10. CASE ClearIndications(t)
  <2> DEFINE p == thread[t].provider
  <2>1. p \in Providers /\ UNCHANGED <<initialized, life, leaked, usedHandler>>
    BY <1>3, <1>10 DEF ClearIndications, End
  <2>2. HandlersTyped'
    BY <1>10, <2>1, DeleteTyped DEF ClearIndications
  <2>3. 0 \in 0..(CountRange - 1)
    BY LifecycleAssumption
  <2>4. subscriptions' \in [Providers -> 0..(CountRange - 1)]
    BY <1>10, <2>3 DEF ClearIndications, ProvidersTyped
  <2>5. enabled' \in [Providers -> BOOLEAN]
    BY <1>10, Zenon DEF ClearIndications, ProvidersTyped
  <2>6. QED
    BY <2>1, <2>2, <2>4, <2>5 DEF ProvidersTyped
<1>11. CASE DisableProvider(t)
  <2>1. thread[t].provider \in Providers
    BY <1>3, <1>11 DEF DisableProvider, At
  <2>2. Unload(thread[t].provider) \/ UNCHANGED <<loadVars, subscriptions, signalVars>>
    BY <1>11 DEF DisableProvider
  <2>3. QED
    BY <1>1, <2>1, <2>2, UnloadTyped
<1>12. ASSUME NEW p \in Providers, UnloadIdle(t, p) PROVE ProvidersTyped' /\ HandlersTyped'
  <2>1. Unload(p) \/ UNCHANGED <<loadVars, subscriptions, signalVars>>
    BY <1>12 DEF UnloadIdle
  <2>2. QED
    BY <1>1, <2>1, UnloadTyped
<1>13. ASSUME NEW p \in Providers, StopProvider(t, p) PROVE ProvidersTyped' /\ HandlersTyped'
  <2>1. Unload(p) \/ UNCHANGED <<loadVars, subscriptions, signalVars>>
    BY <1>13 DEF StopProvider
  <2>2. QED
    BY <1>1, <2>1, UnloadTyped
<1>14. QED
  BY <1>4, <1>5, <1>6, <1>7, <1>8, <1>9, <1>10, <1>11, <1>12, <1>13 DEF Step
-----------------------------------------------------------------------------
\* Finitely many threads are in a provider.
LEMMA BusyFinite ==
    ASSUME NEW p
    PROVE  IsFiniteSet(Busy(p)) /\ Cardinality(Busy(p)) \in Nat
<1>1. IsFiniteSet(Threads) /\ Busy(p) \in SUBSET Threads
  BY LifecycleAssumption DEF Busy
<1>2. IsFiniteSet(Busy(p))
  BY <1>1, FS_Subset
<1>3. QED
  BY <1>2, FS_CardinalityType

\* A step of one thread between places of which both or none is counted.
LEMMA BusyKept ==
    ASSUME Counted, NEW t \in Threads, \A u \in Threads \ {t} : thread'[u] = thread[u],
           \A p \in Providers : t \in Busy(p) <=> t \in Busy(p)',
           UNCHANGED operations
    PROVE  Counted'
<1>1. ASSUME NEW p \in Providers PROVE Busy(p)' = Busy(p)
  <2>1. ASSUME NEW u \in Threads PROVE u \in Busy(p)' <=> u \in Busy(p)
    <3>1. CASE u = t
      BY <3>1
    <3>2. CASE u # t
      BY <3>2 DEF Busy, Requesting, InProvider
    <3>3. QED
      BY <3>1, <3>2
  <2>2. QED
    BY <2>1 DEF Busy
<1>2. QED
  BY <1>1 DEF Counted

\* An operation begins: the thread is one more in the provider.
LEMMA BusyEntered ==
    ASSUME Counted, NEW t \in Threads, \A u \in Threads \ {t} : thread'[u] = thread[u],
           NEW p \in Providers, t \in Busy(p)',
           \A q \in Providers : t \notin Busy(q),
           \A q \in Providers \ {p} : t \notin Busy(q)',
           operations' = [operations EXCEPT ![p] = @ + 1]
    PROVE  Counted'
<1>1. ASSUME NEW q \in Providers, NEW u \in Threads \ {t}
      PROVE  u \in Busy(q)' <=> u \in Busy(q)
  BY DEF Busy, Requesting, InProvider
<1>2. Busy(p)' = Busy(p) \cup {t}
  BY <1>1 DEF Busy
<1>3. Cardinality(Busy(p) \cup {t}) = Cardinality(Busy(p)) + 1
  BY BusyFinite, FS_AddElement
<1>4. ASSUME NEW q \in Providers \ {p} PROVE Busy(q)' = Busy(q)
  BY <1>1 DEF Busy
<1>5. QED
  BY <1>2, <1>3, <1>4 DEF Counted

\* An operation ends.
LEMMA BusyLeft ==
    ASSUME Counted, NEW t \in Threads, \A u \in Threads \ {t} : thread'[u] = thread[u],
           NEW p \in Providers, t \in Busy(p), t \notin Busy(p)',
           \A q \in Providers \ {p} : t \in Busy(q) <=> t \in Busy(q)',
           operations' = [operations EXCEPT ![p] = @ - 1]
    PROVE  Counted'
<1>1. ASSUME NEW q \in Providers, NEW u \in Threads \ {t}
      PROVE  u \in Busy(q)' <=> u \in Busy(q)
  BY DEF Busy, Requesting, InProvider
<1>2. Busy(p)' = Busy(p) \ {t}
  BY <1>1 DEF Busy
<1>3. Cardinality(Busy(p) \ {t}) = Cardinality(Busy(p)) - 1
  BY BusyFinite, FS_RemoveElement
<1>4. ASSUME NEW q \in Providers \ {p} PROVE Busy(q)' = Busy(q)
  BY <1>1 DEF Busy
<1>5. QED
  BY <1>2, <1>3, <1>4 DEF Counted

\* A request begins its operation.
LEMMA BeginCounted ==
    ASSUME ThreadsTyped, Counted, NEW t \in Threads, Requesting(t), thread[t].at = "begin",
           Goto(t, "calling"),
           operations' = [operations EXCEPT ![thread[t].provider] = @ + 1]
    PROVE  Counted'
<1>1. PICK p \in Providers : p = thread[t].provider /\ thread[t] \in ThreadRecord
  BY ThreadPlaced DEF Placed, Located
<1>2. thread' = [thread EXCEPT ![t] = [thread[t] EXCEPT !.at = "calling"]]
  BY DEF Goto
<1>3. \A u \in Threads \ {t} : thread'[u] = thread[u]
  BY <1>2 DEF ThreadsTyped
<1>4. thread'[t] = [thread[t] EXCEPT !.at = "calling"]
  BY <1>2 DEF ThreadsTyped
<1>5. thread'[t].job = thread[t].job /\ thread'[t].provider = p /\ thread'[t].at = "calling"
  BY <1>1, <1>4 DEF ThreadRecord
<1>6. t \in Busy(p)'
  BY <1>5 DEF Busy, InProvider, Requesting, Inside
<1>7. \A q \in Providers : t \notin Busy(q)
  BY DEF Busy, InProvider, Inside
<1>8. \A q \in Providers \ {p} : t \notin Busy(q)'
  BY <1>5 DEF Busy, InProvider
<1>9. operations' = [operations EXCEPT ![p] = @ + 1]
  BY <1>1
<1>10. QED
  BY <1>1, <1>3, <1>6, <1>7, <1>8, <1>9, BusyEntered

\* The end of a request that was counted.
LEMMA EndCounted ==
    ASSUME ThreadsTyped, Counted, NEW t \in Threads, Requesting(t), thread[t].at \in Inside,
           End(t, thread[t].provider)
    PROVE  Counted'
<1> DEFINE p == thread[t].provider
<1>1. p \in Providers
  BY ThreadPlaced DEF Placed, Located
<1>2. thread' = [thread EXCEPT ![t] = None] /\ thread \in [Threads -> PlacedThread]
  BY DEF End, Done, ThreadsTyped
<1>3. \A u \in Threads \ {t} : thread'[u] = thread[u]
  BY <1>2
<1>4. thread'[t].at = "none"
  BY <1>2 DEF None
<1>5. t \in Busy(p)
  BY DEF Busy, InProvider
<1>6. \A q \in Providers : t \notin Busy(q)'
  BY <1>4 DEF Busy, InProvider, Inside
<1>7. \A q \in Providers \ {p} : t \notin Busy(q)
  BY DEF Busy, InProvider
<1>8. operations' = [operations EXCEPT ![p] = @ - 1]
  BY DEF End
<1>9. QED
  BY <1>1, <1>3, <1>5, <1>6, <1>7, <1>8, BusyLeft

\* With no operation counted and its status mutex free, nobody is in a provider.
LEMMA IdleProvider ==
    ASSUME ThreadsTyped, Counted, Holds, NEW p \in Providers, Unlocked(p), ~Pending(p)
    PROVE  \A t \in Threads : ~InProvider(t, p)
<1>1. SUFFICES ASSUME NEW t \in Threads, InProvider(t, p) PROVE FALSE
  OBVIOUS
<1>2. thread[t].at \in Inside /\ thread[t].provider = p
  BY <1>1 DEF InProvider
<1>3. CASE Requesting(t)
  <2>1. t \in Busy(p)
    BY <1>1, <1>3 DEF Busy
  <2>2. Cardinality(Busy(p)) # 0
    BY <2>1, BusyFinite, FS_EmptySet
  <2>3. Cardinality(Busy(p)) \in Nat /\ operations[p] = Cardinality(Busy(p))
    BY BusyFinite DEF Counted
  <2>4. QED
    BY <2>2, <2>3 DEF Pending
<1>4. CASE ~Requesting(t)
  <2>1. Ending(t)
    BY <1>2, <1>4, ThreadPlaced DEF Placed, Requests, Requesting, Ending, Inside
  <2>2. statusMutex[p] = t
    BY <1>2, <2>1 DEF Holds
  <2>3. QED
    BY <2>2, LifecycleAssumption DEF Unlocked
<1>5. QED
  BY <1>3, <1>4

\* Steps that leave the counted threads alone: a thread that is not counted
\* goes where it is not counted, ...
LEMMA OutsideKept ==
    ASSUME ThreadsTyped, Counted, NEW t \in Threads, NEW x,
           thread' = [thread EXCEPT ![t] = x], UNCHANGED operations,
           ~Requesting(t) \/ thread[t].at \notin Inside,
           x.job \notin Requests \/ x.at \notin Inside
    PROVE  Counted'
<1>1. \A u \in Threads \ {t} : thread'[u] = thread[u]
  BY DEF ThreadsTyped
<1>2. thread'[t] = x
  BY DEF ThreadsTyped
<1>3. \A p \in Providers : t \notin Busy(p) /\ t \notin Busy(p)'
  BY <1>2 DEF Busy, Requesting, InProvider, Requests
<1>4. QED
  BY <1>1, <1>3, BusyKept

\* ... a request ends that is not counted, ...
LEMMA DoneKept ==
    ASSUME ThreadsTyped, Counted, NEW t \in Threads, Done(t), UNCHANGED operations,
           ~Requesting(t) \/ thread[t].at \notin Inside
    PROVE  Counted'
<1>1. None.job \notin Requests
  BY DEF None, Requests
<1>2. QED
  BY <1>1, OutsideKept DEF Done

\* ... or a thread goes on to another place of the same kind.
LEMMA GotoKept ==
    ASSUME ThreadsTyped, Counted, NEW t \in Threads, NEW a \in Places, Goto(t, a),
           UNCHANGED operations,
           ~Requesting(t) \/ (thread[t].at \in Inside <=> a \in Inside)
    PROVE  Counted'
<1>1. \A u \in Threads \ {t} : thread'[u] = thread[u]
  BY DEF ThreadsTyped, Goto
<1>2. thread'[t] = [thread[t] EXCEPT !.at = a] /\ thread[t] \in ThreadRecord
  BY ThreadPlaced DEF ThreadsTyped, Goto
<1>3. /\ thread'[t].job = thread[t].job /\ thread'[t].provider = thread[t].provider
      /\ thread'[t].at = a
  BY <1>2 DEF ThreadRecord
<1>4. \A p \in Providers : t \in Busy(p) <=> t \in Busy(p)'
  BY <1>3 DEF Busy, Requesting, InProvider
<1>5. QED
  BY <1>1, <1>4, BusyKept

\* Unloading happens where no operation is counted, so it leaves the count.
LEMMA UnloadKept ==
    ASSUME Counted, NEW p \in Providers, Unload(p)
    PROVE  UNCHANGED operations
<1>1. CASE UNCHANGED loadVars
  BY <1>1 DEF loadVars
<1>2. CASE ~Pending(p)
  <2>1. operations[p] = 0 /\ operations \in [Providers -> Nat]
    BY <1>2, BusyFinite DEF Pending, Counted
  <2>2. PICK n \in {0, operations[p]} : operations' = [operations EXCEPT ![p] = n]
    <3>1. PICK terminated \in BOOLEAN :
             operations' = [operations EXCEPT ![p] = IF terminated THEN 0 ELSE @]
      BY <1>2 DEF Unload
    <3>2. (IF terminated THEN 0 ELSE operations[p]) \in {0, operations[p]}
      OBVIOUS
    <3>3. QED
      BY <3>1, <3>2
  <2>3. QED
    BY <2>1, <2>2
<1>3. QED
  BY <1>1, <1>2 DEF Unload

\* Every step keeps the count of operations.
LEMMA StepCounted ==
    ASSUME ThreadsTyped, Counted, [Next]_vars
    PROVE  Counted'
<1>1. CASE UNCHANGED vars
  BY <1>1 DEF vars, loadVars, Counted, Busy, Requesting, InProvider
<1> SUFFICES ASSUME NEW t \in Threads, Start(t) \/ Step(t)
             PROVE  Counted'
  BY <1>1 DEF Next
<1>2. thread[t] \in ThreadRecord /\ Placed(thread[t])
  BY ThreadPlaced
<1> USE DEF loadVars, Inside, Places, Requesting, Requests
<1>3. CASE Start(t)
  <2>1. thread[t].job \notin Requests /\ UNCHANGED operations
    BY <1>3 DEF Start, None
  <2>2. PICK x : thread' = [thread EXCEPT ![t] = x] /\ x.at \in {"lookup", "start", "list"}
    <3>1. CASE StartRequest(t)
      <4>1. PICK p \in Providers, job \in {"operation", "create", "delete", "disable"} :
               thread' = [thread EXCEPT ![t] =
                    [None EXCEPT !.job = job, !.at = "lookup", !.provider = p]]
        BY <3>1 DEF StartRequest
      <4>2. [None EXCEPT !.job = job, !.at = "lookup", !.provider = p].at = "lookup"
        BY DEF None
      <4>3. QED
        BY <4>1, <4>2
    <3>2. CASE StartForAll(t)
      <4>1. PICK job \in {"idle", "complete", "disabled", "stop"} :
               thread' = [thread EXCEPT ![t] = [None EXCEPT !.job = job,
                    !.at = IF job \in {"complete", "disabled"} THEN "start" ELSE "list"]]
        BY <3>2 DEF StartForAll
      <4>2. [None EXCEPT !.job = job,
               !.at = IF job \in {"complete", "disabled"} THEN "start" ELSE "list"].at
                 \in {"start", "list"}
        BY DEF None
      <4>3. QED
        BY <4>1, <4>2
    <3>3. QED
      BY <1>3, <3>1, <3>2 DEF Start
  <2>3. QED
    BY <2>1, <2>2, OutsideKept
<1>4. CASE \/ Lookup(t) \/ LookupModule(t) \/ InitProvider(t)
           \/ WaitForOperations(t) \/ SetInitComplete(t)
  <2>1. /\ thread[t].at \notin Inside /\ UNCHANGED operations
        /\ Done(t) \/ \E a \in {"begin", "module", "init", "waiting", "unload", "list"} : Goto(t, a)
    BY <1>4 DEF Lookup, LookupModule, InitProvider, WaitForOperations, SetInitComplete, At
  <2>2. QED
    BY <2>1, DoneKept, GotoKept
<1>5. CASE Begin(t)
  <2> DEFINE p == thread[t].provider
  <2>1. thread[t].at = "begin" /\ p \in Providers /\ Requesting(t)
    BY <1>2, <1>5 DEF Begin, Placed, Located
  <2>2. CASE Done(t) /\ UNCHANGED operations
    BY <2>1, <2>2, DoneKept
  <2>3. CASE Goto(t, "calling") /\ operations' = [operations EXCEPT ![p] = @ + 1]
    BY <2>1, <2>3, BeginCounted
  <2>4. QED
    BY <1>5, <2>2, <2>3 DEF Begin
<1>6. CASE EndOperation(t)
  BY <1>6, EndCounted DEF EndOperation, At
<1>7. CASE CountCreated(t) \/ CountDeleted(t) \/ TestComplete(t) \/ CallDisable(t)
  <2>1. /\ thread[t].at \in Inside /\ Requesting(t)
        /\ \/ End(t, thread[t].provider)
           \/ UNCHANGED operations
              /\ \E a \in {"testing", "enabling", "disable", "clear"} : Goto(t, a)
    BY <1>2, <1>7 DEF CountCreated, CountDeleted, TestComplete, CallDisable, At, Placed
  <2>2. QED
    BY <2>1, EndCounted, GotoKept
<1>8. CASE EnableIndications(t)
  <2> DEFINE h == NewHandler(thread[t].provider)
             x == [[thread[t] EXCEPT !.at = "enable"] EXCEPT !.handler = h]
  <2>1. /\ thread[t].at = "enabling" /\ UNCHANGED operations
        /\ thread' = [thread EXCEPT ![t] = x]
    BY <1>8 DEF EnableIndications
  <2> HIDE DEF h
  <2>2. x.job = thread[t].job /\ x.provider = thread[t].provider /\ x.at = "enable"
    BY <1>2 DEF ThreadRecord
  <2> HIDE DEF x
  <2>3. thread'[t] = x /\ \A u \in Threads \ {t} : thread'[u] = thread[u]
    BY <2>1 DEF ThreadsTyped
  <2>4. \A p \in Providers : t \in Busy(p) <=> t \in Busy(p)'
    BY <2>1, <2>2, <2>3 DEF Busy, InProvider
  <2>5. QED
    BY <2>1, <2>3, <2>4, BusyKept
<1>9. CASE CallEnable(t)
  <2>1. thread[t].at = "enable" /\ thread[t].job \in {"create", "complete"}
    BY <1>2, <1>9 DEF CallEnable, Placed
  <2>2. CASE thread[t].job = "create"
    BY <1>9, <2>1, <2>2, EndCounted DEF CallEnable
  <2>3. CASE thread[t].job = "complete"
    BY <1>9, <2>1, <2>3, GotoKept DEF CallEnable
  <2>4. QED
    BY <2>1, <2>2, <2>3
<1>10. CASE ClearIndications(t)
  BY <1>2, <1>10, EndCounted DEF ClearIndications, Placed
<1>11. CASE DisableProvider(t)
  <2>1. thread[t].provider \in Providers /\ thread[t].at = "unload" /\ Done(t)
    BY <1>2, <1>11 DEF DisableProvider, At, Placed, Located
  <2>2. UNCHANGED operations
    BY <1>11, <2>1, UnloadKept DEF DisableProvider
  <2>3. QED
    BY <2>1, <2>2, DoneKept
<1>12. CASE List(t) \/ Collect(t) \/ AllVisited(t)
  <2>1. thread[t].job \notin Requests /\ UNCHANGED operations
    BY <1>2, <1>12 DEF List, Collect, AllVisited, At, Placed
  <2>2. CASE List(t)
    <3> DEFINE a == IF thread[t].job = "stop" THEN "collect" ELSE "visit"
               x == [[thread[t] EXCEPT !.at = a] EXCEPT !.left = cached]
    <3>1. thread' = [thread EXCEPT ![t] = x]
      BY <2>2 DEF List
    <3>2. x.job = thread[t].job
      BY <1>2 DEF ThreadRecord
    <3>3. QED
      BY <2>1, <3>1, <3>2, OutsideKept
  <2>3. CASE Collect(t)
    <3> DEFINE x == [[thread[t] EXCEPT !.at = "visit"]
                        EXCEPT !.left = {p \in cached : initialized[p]}]
    <3>1. thread' = [thread EXCEPT ![t] = x]
      BY <2>3 DEF Collect
    <3>2. x.job = thread[t].job
      BY <1>2 DEF ThreadRecord
    <3>3. QED
      BY <2>1, <3>1, <3>2, OutsideKept
  <2>4. CASE AllVisited(t)
    BY <2>1, <2>4, DoneKept DEF AllVisited
  <2>5. QED
    BY <1>12, <2>2, <2>3, <2>4
<1>13. CASE SetComplete(t)
  <2> DEFINE x == [[[thread[t] EXCEPT !.at = "visit"] EXCEPT !.provider = NoProvider] EXCEPT
                      !.left = @ \ {thread[t].provider}]
  <2>1. At(t, "complete", "flag") /\ thread' = [thread EXCEPT ![t] = x] /\ UNCHANGED operations
    BY <1>13 DEF SetComplete
  <2>2. x.job = thread[t].job
    BY <1>2 DEF ThreadRecord
  <2>3. QED
    BY <2>1, <2>2, OutsideKept DEF At
<1>14. ASSUME NEW p \in Providers, Visited(t, p), thread[t].job \notin Requests,
              UNCHANGED operations
       PROVE  Counted'
  <2> DEFINE x == [thread[t] EXCEPT !.left = @ \ {p}]
  <2>1. thread' = [thread EXCEPT ![t] = x]
    BY <1>14 DEF Visited
  <2>2. x.job = thread[t].job
    BY <1>2 DEF ThreadRecord
  <2>3. QED
    BY <1>14, <2>1, <2>2, OutsideKept
<1>15. ASSUME NEW p \in Providers, UnloadIdle(t, p) PROVE Counted'
  <2>1. /\ thread[t].job \notin Requests /\ UNCHANGED operations
        /\ Visited(t, p) \/ Done(t)
    BY <1>15, UnloadKept DEF UnloadIdle, Visit, At
  <2>2. QED
    BY <2>1, <1>14, DoneKept
<1>16. ASSUME NEW p \in Providers, StopProvider(t, p) PROVE Counted'
  <2>1. thread[t].job \notin Requests /\ UNCHANGED operations /\ Visited(t, p)
    BY <1>16, UnloadKept DEF StopProvider, Visit, At
  <2>2. QED
    BY <2>1, <1>14
<1>17. ASSUME NEW p \in Providers, ServiceDisabled(t, p) PROVE Counted'
  BY <1>14, <1>17 DEF ServiceDisabled, Visit, At
<1>18. ASSUME NEW p \in Providers, TestSubscriptions(t, p) PROVE Counted'
  <2> DEFINE a == IF subscriptions[p] > 0 THEN "enabling" ELSE "flag"
             x == [[thread[t] EXCEPT !.provider = p] EXCEPT !.at = a]
  <2>1. thread[t].job \notin Requests /\ UNCHANGED operations
    BY <1>18 DEF TestSubscriptions, Visit, At
  <2>2. CASE Visited(t, p)
    BY <2>1, <2>2, <1>14
  <2>3. CASE thread' = [thread EXCEPT ![t] = x]
    <3>1. x.job = thread[t].job
      BY <1>2 DEF ThreadRecord
    <3>2. QED
      BY <2>1, <2>3, <3>1, OutsideKept
  <2>4. QED
    BY <1>18, <2>2, <2>3 DEF TestSubscriptions
<1>19. QED
  BY <1>3, <1>4, <1>5, <1>6, <1>7, <1>8, <1>9, <1>10, <1>11, <1>12, <1>13, <1>15, <1>16,
     <1>17, <1>18 DEF Step
-----------------------------------------------------------------------------
\* A step moves one thread.
LEMMA OthersStay ==
    ASSUME ThreadsTyped, NEW t \in Threads, Start(t) \/ Step(t)
    PROVE  \A u \in Threads \ {t} : thread'[u] = thread[u]
<1>1. SUFFICES \E x : thread' = [thread EXCEPT ![t] = x]
  BY DEF ThreadsTyped
<1>2. CASE Start(t)
  BY <1>2 DEF Start, StartRequest, StartForAll
<1>3. ASSUME \/ \E a : Goto(t, a)
             \/ Done(t)
             \/ \E p : Visited(t, p)
      PROVE  \E x : thread' = [thread EXCEPT ![t] = x]
  BY <1>3 DEF Goto, Done, Visited
<1>4. CASE \/ Lookup(t) \/ LookupModule(t) \/ InitProvider(t) \/ Begin(t) \/ EndOperation(t)
           \/ CountCreated(t) \/ CountDeleted(t) \/ TestComplete(t) \/ CallEnable(t)
           \/ CallDisable(t) \/ ClearIndications(t) \/ WaitForOperations(t)
           \/ DisableProvider(t) \/ SetInitComplete(t) \/ AllVisited(t)
  BY <1>3, <1>4
  DEF Lookup, LookupModule, InitProvider, Begin, EndOperation, End, CountCreated, CountDeleted,
      TestComplete, CallEnable, CallDisable, ClearIndications, WaitForOperations,
      DisableProvider, SetInitComplete, AllVisited
<1>5. CASE EnableIndications(t) \/ List(t) \/ Collect(t) \/ SetComplete(t)
  BY <1>5 DEF EnableIndications, List, Collect, SetComplete
<1>6. ASSUME NEW p \in Providers, UnloadIdle(t, p) \/ ServiceDisabled(t, p) \/ StopProvider(t, p)
      PROVE  \E x : thread' = [thread EXCEPT ![t] = x]
  BY <1>3, <1>6 DEF UnloadIdle, ServiceDisabled, StopProvider
<1>7. ASSUME NEW p \in Providers, TestSubscriptions(t, p)
      PROVE  \E x : thread' = [thread EXCEPT ![t] = x]
  BY <1>3, <1>7 DEF TestSubscriptions
<1>8. QED
  BY <1>2, <1>4, <1>5, <1>6, <1>7 DEF Step

\* How a thread comes into a provider: it begins an operation, or it tests the
\* subscriptions of the provider, with its status mutex; else it was there.
BeginsIn(t) ==
    /\ thread[t].at = "begin" /\ Requesting(t)
    /\ initialized[thread[t].provider]
    /\ thread'[t].at = "calling"
    /\ thread'[t].job = thread[t].job
    /\ thread'[t].provider = thread[t].provider
    /\ UNCHANGED initialized

TestsIn(t) ==
    /\ thread[t].at = "visit"
    /\ thread'[t].job = "complete"
    /\ thread'[t].at \in {"enabling", "flag"}
    /\ \E p \in Providers : /\ thread'[t].provider = p
                            /\ initialized[p] /\ Unlocked(p)
                            /\ statusMutex' = [statusMutex EXCEPT ![p] = t]
                            /\ Disturb(t, p)
    /\ UNCHANGED <<loadVars, signalVars>>

StaysIn(t) ==
    /\ thread[t].at \in Inside
    /\ thread'[t].job = thread[t].job
    /\ thread'[t].provider = thread[t].provider

\* The end of the initialization goes into a provider it found initialized.
LEMMA TestsInDirect ==
    ASSUME ThreadsTyped, NEW t \in Threads, NEW p \in Providers, TestSubscriptions(t, p),
           initialized[p]
    PROVE  TestsIn(t)
<1> DEFINE a == IF subscriptions[p] > 0 THEN "enabling" ELSE "flag"
<1>1. /\ thread[t].at = "visit" /\ thread[t].job = "complete" /\ Unlocked(p)
      /\ UNCHANGED <<loadVars, signalVars>>
  BY DEF TestSubscriptions, Visit, At
<1>2. /\ thread'[t] = [[thread[t] EXCEPT !.provider = p] EXCEPT !.at = a]
      /\ a \in {"enabling", "flag"}
  BY DEF TestSubscriptions, ThreadsTyped
<1> HIDE DEF a
<1>3. thread'[t].provider = p /\ thread'[t].at = a /\ thread'[t].job = thread[t].job
  BY <1>2, ThreadPlaced DEF ThreadRecord
<1>4. statusMutex' = [statusMutex EXCEPT ![p] = t] /\ Disturb(t, p)
  BY DEF TestSubscriptions
<1>5. QED
  BY <1>1, <1>2, <1>3, <1>4 DEF TestsIn

\* These three are all the ways.
LEMMA Moves ==
    ASSUME ThreadsTyped, NEW t \in Threads, Start(t) \/ Step(t)
    PROVE  \/ thread'[t].at \notin Inside \cup {"flag"}
           \/ BeginsIn(t) \/ TestsIn(t) \/ StaysIn(t)
<1>1. thread[t] \in ThreadRecord /\ Placed(thread[t]) /\ thread \in [Threads -> PlacedThread]
  BY ThreadPlaced DEF ThreadsTyped
<1> USE DEF Inside
<1>2. ASSUME Done(t) PROVE thread'[t].at \notin Inside \cup {"flag"}
  BY <1>1, <1>2 DEF Done, None
<1>3. ASSUME NEW a, Goto(t, a)
      PROVE  /\ thread'[t].at = a
             /\ thread'[t].job = thread[t].job
             /\ thread'[t].provider = thread[t].provider
  <2>1. thread'[t] = [thread[t] EXCEPT !.at = a]
    BY <1>1, <1>3 DEF Goto
  <2>2. QED
    BY <1>1, <2>1 DEF ThreadRecord
<1>4. ASSUME NEW p, Visited(t, p) PROVE thread'[t].at = thread[t].at
  <2>1. thread'[t] = [thread[t] EXCEPT !.left = @ \ {p}]
    BY <1>1, <1>4 DEF Visited
  <2>2. QED
    BY <1>1, <2>1 DEF ThreadRecord
<1>5. CASE Start(t)
  <2>1. CASE StartRequest(t)
    <3>1. PICK p \in Providers, job \in {"operation", "create", "delete", "disable"} :
             thread' = [thread EXCEPT ![t] =
                  [None EXCEPT !.job = job, !.at = "lookup", !.provider = p]]
      BY <2>1 DEF StartRequest
    <3>2. thread'[t].at = "lookup"
      BY <1>1, <3>1 DEF None
    <3>3. QED
      BY <3>2
  <2>2. CASE StartForAll(t)
    <3>1. PICK job \in {"idle", "complete", "disabled", "stop"} :
             thread' = [thread EXCEPT ![t] = [None EXCEPT !.job = job,
                  !.at = IF job \in {"complete", "disabled"} THEN "start" ELSE "list"]]
      BY <2>2 DEF StartForAll
    <3>2. thread'[t].at \in {"start", "list"}
      BY <1>1, <3>1 DEF None
    <3>3. QED
      BY <3>2
  <2>3. QED
    BY <1>5, <2>1, <2>2 DEF Start
<1>6. CASE \/ Lookup(t) \/ LookupModule(t) \/ InitProvider(t) \/ EndOperation(t)
           \/ ClearIndications(t) \/ WaitForOperations(t) \/ DisableProvider(t)
           \/ SetInitComplete(t) \/ AllVisited(t)
  <2>1. \/ Done(t)
        \/ \E a \in {"begin", "module", "init", "waiting", "unload", "list"} : Goto(t, a)
    BY <1>6 DEF Lookup, LookupModule, InitProvider, EndOperation, End, ClearIndications,
                WaitForOperations, DisableProvider, SetInitComplete, AllVisited
  <2>2. QED
    BY <2>1, <1>2, <1>3
<1>7. CASE Begin(t)
  <2>1. thread[t].at = "begin" /\ Requesting(t) /\ UNCHANGED initialized
    BY <1>1, <1>7 DEF Begin, Placed, Requests, Requesting
  <2>2. Done(t) \/ (Goto(t, "calling") /\ initialized[thread[t].provider])
    BY <1>7 DEF Begin, CanBegin
  <2>3. QED
    BY <1>2, <1>3, <2>1, <2>2 DEF BeginsIn
<1>8. CASE CountCreated(t) \/ CountDeleted(t) \/ TestComplete(t) \/ CallEnable(t) \/ CallDisable(t)
  <2>1. thread[t].at \in Inside
    BY <1>8 DEF CountCreated, CountDeleted, TestComplete, CallEnable, CallDisable, At
  <2>2. Done(t) \/ \E a : Goto(t, a)
    BY <1>8 DEF CountCreated, CountDeleted, TestComplete, CallEnable, CallDisable, End
  <2>3. QED
    BY <2>1, <2>2, <1>2, <1>3 DEF StaysIn
<1>9. CASE EnableIndications(t)
  <2> DEFINE h == NewHandler(thread[t].provider)
  <2>1. /\ thread[t].at = "enabling"
        /\ thread'[t] = [[thread[t] EXCEPT !.at = "enable"] EXCEPT !.handler = h]
    BY <1>1, <1>9 DEF EnableIndications
  <2> HIDE DEF h
  <2>2. thread'[t].job = thread[t].job /\ thread'[t].provider = thread[t].provider
    BY <1>1, <2>1 DEF ThreadRecord
  <2>3. QED
    BY <2>1, <2>2 DEF StaysIn
<1>10. CASE List(t)
  <2> DEFINE a == IF thread[t].job = "stop" THEN "collect" ELSE "visit"
  <2>1. /\ thread'[t] = [[thread[t] EXCEPT !.at = a] EXCEPT !.left = cached]
        /\ a \in {"collect", "visit"}
    BY <1>1, <1>10 DEF List
  <2> HIDE DEF a
  <2>2. thread'[t].at = a
    BY <1>1, <2>1 DEF ThreadRecord
  <2>3. QED
    BY <2>1, <2>2
<1>11. CASE Collect(t)
  <2> DEFINE S == {p \in cached : initialized[p]}
  <2>1. thread'[t] = [[thread[t] EXCEPT !.at = "visit"] EXCEPT !.left = S]
    BY <1>1, <1>11 DEF Collect
  <2> HIDE DEF S
  <2>2. thread'[t].at = "visit"
    BY <1>1, <2>1 DEF ThreadRecord
  <2>3. QED
    BY <2>2
<1>12. CASE SetComplete(t)
  <2>1. thread'[t] = [[[thread[t] EXCEPT !.at = "visit"] EXCEPT !.provider = NoProvider] EXCEPT
                         !.left = @ \ {thread[t].provider}]
    BY <1>1, <1>12 DEF SetComplete
  <2>2. thread'[t].at = "visit"
    BY <1>1, <2>1 DEF ThreadRecord
  <2>3. QED
    BY <2>2
<1>13. ASSUME NEW p \in Providers, UnloadIdle(t, p) \/ ServiceDisabled(t, p) \/ StopProvider(t, p)
       PROVE  thread'[t].at \notin Inside \cup {"flag"}
  <2>1. thread[t].at = "visit" /\ (Visited(t, p) \/ Done(t))
    BY <1>13 DEF UnloadIdle, ServiceDisabled, StopProvider, Visit, At
  <2>2. QED
    BY <2>1, <1>2, <1>4
<1>14. ASSUME NEW p \in Providers, TestSubscriptions(t, p)
       PROVE  thread'[t].at \notin Inside \cup {"flag"} \/ TestsIn(t)
  <2>1. thread[t].at = "visit"
    BY <1>14 DEF TestSubscriptions, Visit, At
  <2>2. CASE Visited(t, p)
    BY <2>1, <2>2, <1>4
  <2>3. CASE initialized[p]
    BY <1>14, <2>3, TestsInDirect
  <2>4. QED
    BY <1>14, <2>2, <2>3 DEF TestSubscriptions
<1>15. QED
  BY <1>5, <1>6, <1>7, <1>8, <1>9, <1>10, <1>11, <1>12, <1>13, <1>14 DEF Step

\* The status mutex of a provider whose initialization ends is kept till then.
LEMMA StepHolds ==
    ASSUME ThreadsTyped, ManagerTyped, Holds, [Next]_vars
    PROVE  Holds'
<1>1. CASE UNCHANGED vars
  BY <1>1 DEF vars, Holds, Ending
<1> SUFFICES ASSUME NEW t \in Threads, Start(t) \/ Step(t), NEW u \in Threads, Ending(u)'
             PROVE  statusMutex'[thread'[u].provider] = u
  BY <1>1 DEF Next, Holds
<1>2. \A w \in Threads : Placed(thread[w])
  BY ThreadPlaced
<1>3. \A w \in Threads \ {t} : thread'[w] = thread[w]
  BY OthersStay
<1>4. u # t => Ending(u) /\ thread'[u].provider = thread[u].provider
  BY <1>3 DEF Ending
<1>5. \A w \in Threads : Ending(w) => thread[w].provider \in Providers
  BY <1>2 DEF Ending, Placed, Located, Inside
<1>6. CASE TestsIn(t)
  <2>1. PICK p \in Providers : /\ thread'[t].provider = p /\ Unlocked(p)
                               /\ statusMutex' = [statusMutex EXCEPT ![p] = t]
    BY <1>6 DEF TestsIn
  <2>2. CASE u = t
    BY <2>1, <2>2 DEF ManagerTyped
  <2>3. CASE u # t
    <3>1. statusMutex[thread[u].provider] = u
      BY <1>4, <2>3 DEF Holds
    <3>2. thread[u].provider # p
      BY <2>1, <3>1, LifecycleAssumption DEF Unlocked
    <3>3. QED
      BY <1>4, <1>5, <2>1, <2>3, <3>1, <3>2 DEF ManagerTyped
  <2>4. QED
    BY <2>2, <2>3
<1>7. CASE SetComplete(t)
  <2>1. /\ Ending(t)
        /\ statusMutex' = [statusMutex EXCEPT ![thread[t].provider] = NoThread]
    BY <1>7 DEF SetComplete, At, Ending
  <2>2. thread'[t].at = "visit"
    <3>1. thread'[t] = [[[thread[t] EXCEPT !.at = "visit"] EXCEPT !.provider = NoProvider] EXCEPT
                           !.left = @ \ {thread[t].provider}]
      BY <1>7 DEF SetComplete, ThreadsTyped
    <3>2. QED
      BY <3>1, ThreadPlaced DEF ThreadRecord
  <2>3. u # t
    BY <2>2 DEF Ending
  <2>4. thread[u].provider # thread[t].provider
    BY <1>4, <2>1, <2>3 DEF Holds
  <2>5. QED
    BY <1>4, <1>5, <2>1, <2>3, <2>4 DEF ManagerTyped, Holds
<1>8. CASE ~TestsIn(t) /\ ~SetComplete(t)
  <2>1. UNCHANGED statusMutex
    <3>1. CASE Start(t)
      BY <3>1 DEF Start
    <3>2. ASSUME NEW p \in Providers, TestSubscriptions(t, p) PROVE UNCHANGED statusMutex
      <4>1. CASE initialized[p]
        <5>1. TestsIn(t)
          BY <3>2, <4>1, TestsInDirect
        <5>2. QED
          BY <1>8, <5>1
      <4>2. CASE ~initialized[p]
        BY <3>2, <4>2 DEF TestSubscriptions
      <4>3. QED
        BY <4>1, <4>2
    <3>3. QED
      BY <1>8, <3>1, <3>2
      DEF Step, Lookup, LookupModule, InitProvider, Begin, EndOperation, CountCreated,
          CountDeleted, TestComplete, EnableIndications, CallEnable, CallDisable,
          ClearIndications, WaitForOperations, DisableProvider, SetInitComplete, List,
          Collect, AllVisited, UnloadIdle, ServiceDisabled, StopProvider
  <2>2. CASE u # t
    BY <1>4, <2>1, <2>2 DEF Holds
  <2>3. CASE u = t
    <3>1. StaysIn(t)
      <4>1. thread'[t].at \in {"enabling", "enable", "flag"}
        BY <2>3 DEF Ending
      <4>2. thread'[t].at \in Inside \cup {"flag"} /\ thread'[t].at # "calling"
        BY <4>1 DEF Inside
      <4>3. BeginsIn(t) \/ TestsIn(t) \/ StaysIn(t)
        BY <4>2, Moves
      <4>4. QED
        BY <1>8, <4>2, <4>3 DEF BeginsIn
    <3>2. Ending(t)
      BY <1>2, <2>3, <3>1 DEF StaysIn, Ending, Placed, Inside, Requests
    <3>3. QED
      BY <2>1, <2>3, <3>1, <3>2 DEF StaysIn, Holds
  <2>4. QED
    BY <2>2, <2>3
<1>9. QED
  BY <1>6, <1>7, <1>8
-----------------------------------------------------------------------------
\* Finitely many providers are initialized.
LEMMA LoadedFinite == IsFiniteSet(Loaded) /\ Cardinality(Loaded) \in Nat
<1>1. IsFiniteSet(Providers) /\ Loaded \in SUBSET Providers
  BY LifecycleAssumption DEF Loaded
<1>2. IsFiniteSet(Loaded)
  BY <1>1, FS_Subset
<1>3. QED
  BY <1>2, FS_CardinalityType

\* Unloading a provider lets its reference to the library go, or keeps both.
LEMMA UnloadLoaded ==
    ASSUME ProvidersTyped, ModuleReferenced, LoadedLives, NEW p \in Loaded, Unload(p)
    PROVE  ModuleReferenced' /\ LoadedLives'
<1>1. CASE UNCHANGED loadVars
  BY <1>1 DEF loadVars, ModuleReferenced, LoadedLives, Loaded
<1>2. ASSUME NEW terminated \in BOOLEAN,
             life' = [life EXCEPT ![p] = IF terminated THEN "none" ELSE "terminated"],
             initialized' = [initialized EXCEPT ![p] = ~terminated],
             references' = IF terminated THEN references - 1 ELSE references,
             leaked' = leaked
      PROVE  ModuleReferenced' /\ LoadedLives'
  <2>1. p \in Providers /\ initialized[p]
    BY DEF Loaded
  <2>2. CASE terminated
    <3>1. Loaded' = Loaded \ {p}
      BY <1>2, <2>1, <2>2 DEF Loaded, ProvidersTyped
    <3>2. Cardinality(Loaded \ {p}) = Cardinality(Loaded) - 1
      BY LoadedFinite, FS_RemoveElement
    <3>3. references = Cardinality(Loaded) + leaked
      BY DEF ModuleReferenced, Loaded
    <3>4. references' = Cardinality(Loaded') + leaked'
      BY <1>2, <2>2, <3>1, <3>2, <3>3, LoadedFinite DEF ProvidersTyped
    <3>5. LoadedLives'
      BY <1>2, <3>1 DEF LoadedLives, Loaded, ProvidersTyped
    <3>6. QED
      BY <3>4, <3>5 DEF ModuleReferenced, Loaded
  <2>3. CASE ~terminated
    <3>1. initialized' = initialized
      BY <1>2, <2>1, <2>3 DEF ProvidersTyped
    <3>2. QED
      BY <1>2, <2>1, <2>3, <3>1 DEF ModuleReferenced, LoadedLives, Loaded, ProvidersTyped
  <2>4. QED
    BY <2>2, <2>3
<1>3. QED
  BY <1>1, <1>2 DEF Unload

\* Loading and unloading keep the references to the library right; nothing else
\* changes them.
LEMMA StepLoaded ==
    ASSUME TypeInv, ModuleReferenced, LoadedLives, [Next]_vars
    PROVE  ModuleReferenced' /\ LoadedLives'
<1>1. ASSUME UNCHANGED <<initialized, references, life, leaked>>
      PROVE  ModuleReferenced' /\ LoadedLives'
  BY <1>1 DEF ModuleReferenced, LoadedLives, Loaded
<1>2. CASE UNCHANGED vars
  BY <1>1, <1>2 DEF vars, loadVars
<1> SUFFICES ASSUME NEW t \in Threads, Start(t) \/ Step(t)
             PROVE  ModuleReferenced' /\ LoadedLives'
  BY <1>2 DEF Next
<1>3. ThreadsTyped /\ ProvidersTyped
  BY DEF TypeInv
<1>4. thread[t].at \in Located => thread[t].provider \in Providers
  BY <1>3, ThreadPlaced DEF Placed
<1> USE DEF loadVars, Inside, Located
<1>5. CASE \/ Start(t) \/ Lookup(t) \/ LookupModule(t) \/ Begin(t) \/ EndOperation(t)
           \/ CountCreated(t) \/ CountDeleted(t) \/ TestComplete(t) \/ EnableIndications(t)
           \/ CallEnable(t) \/ CallDisable(t) \/ ClearIndications(t) \/ WaitForOperations(t)
           \/ SetInitComplete(t) \/ List(t) \/ Collect(t) \/ AllVisited(t) \/ SetComplete(t)
           \/ \E p \in Providers : TestSubscriptions(t, p) \/ ServiceDisabled(t, p)
  BY <1>1, <1>5
  DEF Start, Lookup, LookupModule, Begin, EndOperation, End, CountCreated, CountDeleted,
      TestComplete, EnableIndications, CallEnable, CallDisable, ClearIndications,
      WaitForOperations, SetInitComplete, List, Collect, AllVisited, SetComplete,
      TestSubscriptions, ServiceDisabled
<1>6. CASE InitProvider(t)
  <2> DEFINE p == thread[t].provider
  <2>1. p \in Providers
    BY <1>4, <1>6 DEF InitProvider
  <2>2. references = Cardinality(Loaded) + leaked /\ leaked \in Nat
    BY <1>3 DEF ModuleReferenced, Loaded, ProvidersTyped
  <2>3. CASE UNCHANGED <<initialized, life>> /\ references' - leaked' = references - leaked
             /\ references' \in Int /\ leaked' \in Int
    <3>1. Loaded' = Loaded
      BY <2>3 DEF Loaded
    <3>2. references' = Cardinality(Loaded') + leaked'
      BY <2>2, <2>3, <3>1, LoadedFinite
    <3>3. QED
      BY <2>3, <3>1, <3>2 DEF ModuleReferenced, LoadedLives, Loaded
  <2>4. CASE /\ ~initialized[p] /\ initialized' = [initialized EXCEPT ![p] = TRUE]
             /\ references' = references + 1 /\ leaked' = leaked
             /\ life' = [life EXCEPT ![p] = "live"]
    <3>1. Loaded' = Loaded \cup {p} /\ p \notin Loaded
      BY <1>3, <2>1, <2>4 DEF Loaded, ProvidersTyped
    <3>2. Cardinality(Loaded \cup {p}) = Cardinality(Loaded) + 1
      BY <3>1, LoadedFinite, FS_AddElement
    <3>3. references' = Cardinality(Loaded') + leaked'
      BY <2>2, <2>4, <3>1, <3>2, LoadedFinite
    <3>4. LoadedLives'
      BY <1>3, <2>1, <2>4, <3>1 DEF LoadedLives, Loaded, ProvidersTyped
    <3>5. QED
      BY <3>3, <3>4 DEF ModuleReferenced, Loaded
  <2>5. references \in Int
    BY <2>2, LoadedFinite
  <2>6. QED
    BY <1>6, <2>2, <2>3, <2>4, <2>5 DEF InitProvider, Unloaded
<1>7. CASE DisableProvider(t)
  <2>1. thread[t].provider \in Providers
    BY <1>4, <1>7 DEF DisableProvider, At
  <2>2. \/ initialized[thread[t].provider] /\ Unload(thread[t].provider)
        \/ UNCHANGED loadVars
    BY <1>7 DEF DisableProvider
  <2>3. QED
    BY <1>1, <1>3, <2>1, <2>2, UnloadLoaded DEF Loaded
<1>8. ASSUME NEW p \in Providers, UnloadIdle(t, p) PROVE ModuleReferenced' /\ LoadedLives'
  <2>1. (initialized[p] /\ Unload(p)) \/ UNCHANGED loadVars
    BY <1>8 DEF UnloadIdle, IsIdle
  <2>2. QED
    BY <1>1, <1>3, <2>1, UnloadLoaded DEF Loaded
<1>9. ASSUME NEW p \in Providers, StopProvider(t, p) PROVE ModuleReferenced' /\ LoadedLives'
  <2>1. (initialized[p] /\ Unload(p)) \/ UNCHANGED loadVars
    BY <1>9 DEF StopProvider
  <2>2. QED
    BY <1>1, <1>3, <2>1, UnloadLoaded DEF Loaded
<1>10. QED
  BY <1>5, <1>6, <1>7, <1>8, <1>9 DEF Step

\* Who is in a provider keeps it initialized.
LEMMA StepBusyLoaded ==
    ASSUME LoadInv, [Next]_vars
    PROVE  BusyLoaded'
<1>1. CASE UNCHANGED vars
  BY <1>1 DEF vars, loadVars, LoadInv, BusyLoaded
<1> SUFFICES ASSUME NEW t \in Threads, Start(t) \/ Step(t), NEW u \in Threads,
                    thread'[u].at \in Inside
             PROVE  initialized'[thread'[u].provider]
  BY <1>1 DEF Next, BusyLoaded
<1>2. ThreadsTyped /\ ProvidersTyped /\ Counted /\ Holds /\ BusyLoaded
  BY DEF LoadInv, TypeInv
<1>3. u # t => thread'[u] = thread[u]
  BY <1>2, OthersStay
<1>4. \A w \in Threads : thread[w].at \in Inside => thread[w].provider \in Providers
  BY <1>2, ThreadPlaced DEF Placed, Located
<1>5. \/ u = t /\ (BeginsIn(t) \/ TestsIn(t))
      \/ thread[u].at \in Inside /\ thread'[u].provider = thread[u].provider
  BY <1>2, <1>3, Moves DEF StaysIn
<1>6. CASE u = t /\ (BeginsIn(t) \/ TestsIn(t))
  BY <1>6 DEF BeginsIn, TestsIn, loadVars
<1>7. CASE thread[u].at \in Inside /\ thread'[u].provider = thread[u].provider
  <2> DEFINE q == thread[u].provider
  <2>1. q \in Providers /\ initialized[q]
    BY <1>2, <1>4, <1>7 DEF BusyLoaded
  <2>2. SUFFICES initialized'[q]
    BY <1>7
  <2>3. ASSUME NEW p \in Providers, Unlocked(p), Unload(p) PROVE initialized'[q]
    <3>1. CASE UNCHANGED loadVars
      BY <2>1, <3>1 DEF loadVars
    <3>2. CASE ~Pending(p)
      <4>1. ~InProvider(u, p)
        BY <1>2, <2>3, <3>2, IdleProvider
      <4>2. q # p
        BY <1>7, <4>1 DEF InProvider
      <4>3. \/ UNCHANGED initialized
            \/ \E b \in BOOLEAN : initialized' = [initialized EXCEPT ![p] = b]
        BY <2>3, <3>2 DEF Unload, loadVars
      <4>4. QED
        BY <1>2, <2>1, <4>2, <4>3 DEF ProvidersTyped
    <3>3. QED
      BY <2>3, <3>1, <3>2 DEF Unload
  <2>4. CASE UNCHANGED initialized
    BY <2>1, <2>4
  <2>5. CASE \/ Start(t) \/ Lookup(t) \/ LookupModule(t) \/ Begin(t) \/ EndOperation(t)
             \/ CountCreated(t) \/ CountDeleted(t) \/ TestComplete(t) \/ EnableIndications(t)
             \/ CallEnable(t) \/ CallDisable(t) \/ ClearIndications(t) \/ WaitForOperations(t)
             \/ SetInitComplete(t) \/ List(t) \/ Collect(t) \/ AllVisited(t) \/ SetComplete(t)
             \/ \E p \in Providers : TestSubscriptions(t, p) \/ ServiceDisabled(t, p)
    BY <2>4, <2>5
    DEF loadVars, Start, Lookup, LookupModule, Begin, EndOperation, End, CountCreated,
        CountDeleted, TestComplete, EnableIndications, CallEnable, CallDisable,
        ClearIndications, WaitForOperations, SetInitComplete, List, Collect, AllVisited,
        SetComplete, TestSubscriptions, ServiceDisabled
  <2>6. CASE InitProvider(t)
    <3>1. UNCHANGED initialized \/ initialized' = [initialized EXCEPT ![thread[t].provider] = TRUE]
      BY <2>6 DEF InitProvider, loadVars
    <3>2. QED
      BY <1>2, <2>1, <3>1 DEF ProvidersTyped
  <2>7. CASE DisableProvider(t)
    <3>1. thread[t].provider \in Providers
      BY <1>2, <2>7, ThreadPlaced DEF DisableProvider, At, Placed, Located
    <3>2. QED
      BY <2>3, <2>4, <2>7, <3>1 DEF DisableProvider, loadVars
  <2>8. CASE \E p \in Providers : UnloadIdle(t, p) \/ StopProvider(t, p)
    BY <2>3, <2>4, <2>8 DEF UnloadIdle, StopProvider, Visit, loadVars
  <2>9. QED
    BY <2>5, <2>6, <2>7, <2>8 DEF Step
<1>8. QED
  BY <1>5, <1>6, <1>7
-----------------------------------------------------------------------------
\* At the start nothing is loaded or counted.
LEMMA InitLoad == ASSUME Init PROVE LoadInv
<1> USE DEF Init
<1>1. ThreadsTyped
  <2>1. None \in PlacedThread
    BY DEF None, PlacedThread, ThreadRecord, Placed, Places, Kinds, Located, Inside
  <2>2. QED
    BY <2>1 DEF ThreadsTyped
<1>2. ManagerTyped
  BY LifecycleAssumption DEF ManagerTyped, CachedTyped
<1>3. ProvidersTyped
  <2>1. 0 \in 0..(CountRange - 1)
    BY LifecycleAssumption
  <2>2. QED
    BY <2>1 DEF ProvidersTyped
<1>4. HandlersTyped
  BY FS_EmptySet DEF HandlersTyped
<1>5. \A t \in Threads : thread[t].at = "none" /\ thread[t].job = "none"
  BY DEF None
<1>6. Counted
  <2>1. ASSUME NEW p \in Providers PROVE Busy(p) = {}
    BY <1>5 DEF Busy, InProvider, Inside
  <2>2. Cardinality({}) = 0
    BY FS_EmptySet
  <2>3. QED
    BY <2>1, <2>2 DEF Counted
<1>7. Holds /\ BusyLoaded
  BY <1>5 DEF Holds, Ending, BusyLoaded, Inside
<1>8. Loaded = {} /\ Cardinality({}) = 0
  BY FS_EmptySet DEF Loaded
<1>9. ModuleReferenced /\ LoadedLives
  BY <1>8 DEF ModuleReferenced, LoadedLives, Loaded
<1>10. QED
  BY <1>1, <1>2, <1>3, <1>4, <1>6, <1>7, <1>9 DEF LoadInv, TypeInv

\* Every step keeps what LoadInv says.
LEMMA StepLoad == ASSUME LoadInv, [Next]_vars PROVE LoadInv'
<1>1. /\ ThreadsTyped /\ ManagerTyped /\ ProvidersTyped /\ HandlersTyped /\ CachedTyped
      /\ Counted /\ Holds /\ BusyLoaded /\ ModuleReferenced /\ LoadedLives /\ TypeInv
  BY DEF LoadInv, TypeInv, ManagerTyped
<1>2. ThreadsTyped'
  BY <1>1, StepPlaced
<1>3. ManagerTyped'
  BY <1>1, StepManager
<1>4. ProvidersTyped' /\ HandlersTyped'
  BY <1>1, StepProviders
<1>5. Counted'
  BY <1>1, StepCounted
<1>6. Holds'
  BY <1>1, StepHolds
<1>7. BusyLoaded'
  BY StepBusyLoaded
<1>8. ModuleReferenced' /\ LoadedLives'
  BY <1>1, StepLoaded
<1>9. QED
  BY <1>2, <1>3, <1>4, <1>5, <1>6, <1>7, <1>8 DEF LoadInv, TypeInv
-----------------------------------------------------------------------------
\* A provider stays noted as disturbed.
LEMMA DisturbedKept ==
    ASSUME NEW t \in Threads, Start(t) \/ Step(t)
    PROVE  disturbed \subseteq disturbed'
<1>1. \A p : Disturb(t, p) => disturbed \subseteq disturbed'
  BY DEF Disturb
<1>2. QED
  BY <1>1
  DEF Step, Start, Lookup, LookupModule, InitProvider, Begin, EndOperation, CountCreated,
      CountDeleted, TestComplete, EnableIndications, CallEnable, CallDisable,
      ClearIndications, WaitForOperations, DisableProvider, SetInitComplete, List,
      Collect, AllVisited, SetComplete, UnloadIdle, TestSubscriptions, ServiceDisabled,
      StopProvider

\* Who begins to signal takes note of the others.
LEMMA SignallingBegins ==
    ASSUME ThreadsTyped, NEW t \in Threads, Start(t) \/ Step(t), NEW p \in Providers,
           Signalling(t, p)', ~Signalling(t, p)
    PROVE  Disturb(t, p) \/ p \in disturbed'
<1>1. thread'[t].provider = p /\ thread'[t].at \in (Inside \cup {"flag"}) \ {"calling"}
  BY DEF Signalling, Inside
<1>2. TestsIn(t) \/ StaysIn(t)
  BY <1>1, Moves DEF BeginsIn
<1>3. CASE TestsIn(t)
  BY <1>1, <1>3 DEF TestsIn
<1>4. CASE StaysIn(t)
  <2>1. thread[t].provider = p /\ thread[t].at = "calling"
    BY <1>1, <1>4 DEF StaysIn, Signalling, Inside
  <2>2. CASE CountCreated(t) \/ CountDeleted(t)
    BY <2>1, <2>2 DEF CountCreated, CountDeleted
  <2>3. CASE EndOperation(t)
    <3>1. thread'[t] = None
      BY <2>3 DEF EndOperation, End, Done, ThreadsTyped
    <3>2. QED
      BY <1>1, <3>1 DEF None, Inside
  <2>4. CASE Start(t)
    BY <2>1, <2>4 DEF Start, None
  <2>5. QED
    BY <2>1, <2>2, <2>3, <2>4
    DEF Step, Lookup, LookupModule, InitProvider, Begin, TestComplete, EnableIndications,
        CallEnable, CallDisable, ClearIndications, WaitForOperations, DisableProvider,
        SetInitComplete, List, Collect, AllVisited, SetComplete, UnloadIdle,
        TestSubscriptions, ServiceDisabled, StopProvider, At, Visit
<1>5. QED
  BY <1>2, <1>3, <1>4

\* Of a provider not noted as disturbed, one request at a time uses the count.
LEMMA StepOneSignals ==
    ASSUME ThreadsTyped, OneSignals, [Next]_vars
    PROVE  OneSignals'
<1>1. CASE UNCHANGED vars
  BY <1>1 DEF vars, OneSignals, Signalling
<1> SUFFICES ASSUME NEW t \in Threads, Start(t) \/ Step(t),
                    NEW p \in Providers, p \notin disturbed',
                    NEW u \in Threads, NEW w \in Threads, u # w,
                    Signalling(u, p)', Signalling(w, p)'
               PROVE  FALSE
  BY <1>1 DEF Next, OneSignals
<1>3. \A v \in Threads \ {t} : Signalling(v, p)' => Signalling(v, p)
  BY OthersStay DEF Signalling
<1>4. p \notin disturbed
  BY DisturbedKept
<1>5. CASE Signalling(t, p) \/ ~Signalling(t, p)'
  <2>1. Signalling(u, p) /\ Signalling(w, p)
    BY <1>3, <1>5
  <2>2. QED
    BY <1>4, <2>1 DEF OneSignals
<1>6. CASE ~Signalling(t, p) /\ Signalling(t, p)'
  <2>1. Disturb(t, p)
    BY <1>6, SignallingBegins
  <2>2. \A v \in Threads \ {t} : ~Signalling(v, p)
    BY <2>1 DEF Disturb
  <2>3. QED
    BY <1>3, <2>2
<1>7. QED
  BY <1>5, <1>6

\* Who comes to enable or to clear indications comes there in one of two steps.
LEMMA EnablesOrClears ==
    ASSUME ThreadsTyped, NEW t \in Threads, Start(t) \/ Step(t),
           thread'[t].at \in {"enable", "clear"}
    PROVE  \/ EnableIndications(t)
           \/ CallDisable(t)
<1>1. StaysIn(t)
  BY Moves DEF BeginsIn, TestsIn, Inside
<1>2. thread[t].at \in Inside
  BY <1>1 DEF StaysIn
<1>3. ASSUME Done(t) PROVE FALSE
  BY <1>3 DEF Done, None, ThreadsTyped
<1>4. ASSUME NEW a \in {"testing", "enabling", "disable", "flag"}, Goto(t, a) PROVE FALSE
  <2>1. thread'[t] = [thread[t] EXCEPT !.at = a] /\ thread[t] \in ThreadRecord
    BY <1>4, ThreadPlaced DEF Goto, ThreadsTyped
  <2>2. QED
    BY <2>1 DEF ThreadRecord
<1>5. CASE \/ EndOperation(t) \/ CountCreated(t) \/ CountDeleted(t) \/ TestComplete(t)
           \/ CallEnable(t) \/ ClearIndications(t)
  BY <1>3, <1>4, <1>5
  DEF EndOperation, CountCreated, CountDeleted, TestComplete, CallEnable, ClearIndications, End
<1>6. CASE Start(t)
  BY <1>2, <1>6 DEF Start, None, Inside
<1>7. CASE \/ Lookup(t) \/ LookupModule(t) \/ InitProvider(t) \/ Begin(t)
           \/ WaitForOperations(t) \/ DisableProvider(t) \/ SetInitComplete(t) \/ List(t)
           \/ Collect(t) \/ AllVisited(t) \/ SetComplete(t)
  <2>1. thread[t].at \in {"lookup", "module", "init", "begin", "waiting", "unload", "start",
                          "list", "collect", "visit", "flag"}
    BY <1>7 DEF Lookup, LookupModule, InitProvider, Begin, WaitForOperations, DisableProvider,
         SetInitComplete, List, Collect, AllVisited, SetComplete, At
  <2>2. QED
    BY <1>2, <2>1 DEF Inside
<1>8. ASSUME NEW p \in Providers,
             \/ UnloadIdle(t, p) \/ TestSubscriptions(t, p)
             \/ ServiceDisabled(t, p) \/ StopProvider(t, p)
      PROVE  FALSE
  <2>1. thread[t].at = "visit"
    BY <1>8 DEF UnloadIdle, TestSubscriptions, ServiceDisabled, StopProvider, Visit, At
  <2>2. QED
    BY <1>2, <2>1 DEF Inside
<1>9. QED
  BY <1>5, <1>6, <1>7, <1>8 DEF Step

\* A step that leaves the handler of a provider, what uses it and the provider.
LEMMA EnabledKept ==
    ASSUME NEW t \in Threads, \A u \in Threads \ {t} : thread'[u] = thread[u],
           NEW p \in Providers, Enabled(p),
           UNCHANGED <<enabled, usedHandler>>,
           handlers[p] \subseteq handlers'[p],
           life[p] # "none" => life'[p] # "none",
           thread'[t].provider = p => thread'[t].at \notin {"enable", "clear"}
    PROVE  Enabled(p)'
<1>1. usedHandler'[p] # 0 =>
          enabled'[p] /\ usedHandler'[p] \in handlers'[p] /\ life'[p] # "none"
  BY DEF Enabled
<1>2. ASSUME NEW u \in Threads, thread'[u].provider = p
      PROVE  /\ thread'[u].at = "enable" => enabled'[p] /\ thread'[u].handler \in handlers'[p]
             /\ thread'[u].at = "clear" => usedHandler'[p] = 0
  <2>1. CASE u = t
    BY <1>2, <2>1
  <2>2. CASE u # t
    <3>1. thread'[u] = thread[u]
      BY <2>2
    <3>2. QED
      BY <1>2, <3>1 DEF Enabled
  <2>3. QED
    BY <2>1, <2>2
<1>3. QED
  BY <1>1, <1>2 DEF Enabled

\* Unloading a provider that nobody is in leaves it without a handler.
LEMMA UnloadEnabled ==
    ASSUME LoadInv, NEW t \in Threads, \A u \in Threads \ {t} : thread'[u] = thread[u],
           NEW q \in Providers, Unload(q), Unlocked(q),
           NEW p \in Providers, Enabled(p),
           thread'[t].at \notin {"enable", "clear"}
    PROVE  Enabled(p)'
<1>1. CASE UNCHANGED <<loadVars, subscriptions, signalVars>>
  BY <1>1, EnabledKept DEF loadVars, signalVars
<1>2. ASSUME NEW silenced \in BOOLEAN, NEW terminated \in BOOLEAN,
             ~Pending(q),
             usedHandler' = [usedHandler EXCEPT ![q] = IF enabled[q] THEN Silent(q) ELSE @],
             \/ DeleteHandler(q)
             \/ UNCHANGED <<handler, handlers>>,
             enabled' = [enabled EXCEPT ![q] = @ /\ ~silenced /\ ~terminated],
             life' = [life EXCEPT ![q] = IF terminated THEN "none" ELSE "terminated"]
      PROVE  Enabled(p)'
  <2>1. CASE p = q
    <3>1. \A u \in Threads : ~InProvider(u, p)
      BY <1>2, <2>1, IdleProvider DEF LoadInv, TypeInv
    <3>2. usedHandler'[p] = 0
      <4>1. usedHandler'[p] = IF enabled[p] THEN 0 ELSE usedHandler[p]
        BY <1>2, <2>1 DEF Silent, LoadInv, TypeInv, ProvidersTyped
      <4>2. QED
        BY <4>1 DEF Enabled
    <3>3. ASSUME NEW u \in Threads, thread'[u].provider = p
          PROVE  thread'[u].at \notin {"enable", "clear"}
      BY <3>1, <3>3 DEF InProvider, Inside
    <3>4. QED
      BY <3>2, <3>3 DEF Enabled
  <2>2. CASE p # q
    <3>1. /\ usedHandler'[p] = usedHandler[p] /\ life'[p] = life[p]
      BY <1>2, <2>2 DEF LoadInv, TypeInv, ProvidersTyped
    <3>2. enabled'[p] = enabled[p]
      BY <1>2, <2>2, Zenon DEF LoadInv, TypeInv, ProvidersTyped
    <3>3. handlers'[p] = handlers[p]
      BY <1>2, <2>2 DEF LoadInv, TypeInv, HandlersTyped, DeleteHandler
    <3>4. \A u \in Threads : thread'[u].at \in {"enable", "clear"} => thread'[u] = thread[u]
      OBVIOUS
    <3>5. QED
      BY <3>1, <3>2, <3>3, <3>4 DEF Enabled
  <2>3. QED
    BY <2>1, <2>2
<1>3. QED
  BY <1>1, <1>2 DEF Unload

\* The provider that a thread is in is loaded.
LEMMA CalledLives ==
    ASSUME LoadInv, NEW t \in Threads, thread[t].at \in Inside
    PROVE  thread[t].provider \in Loaded /\ life[thread[t].provider] # "none"
<1>1. thread[t].provider \in Providers
  BY ThreadPlaced DEF LoadInv, TypeInv, Placed, Located
<1>2. QED
  BY <1>1 DEF LoadInv, BusyLoaded, LoadedLives, Loaded

\* Every step keeps the handler that a provider uses among those that exist.
LEMMA StepEnabled ==
    ASSUME SignalInv, [Next]_vars
    PROVE  \A p \in Providers \ disturbed' : Enabled(p)'
<1>1. CASE UNCHANGED vars
  BY <1>1 DEF vars, loadVars, signalVars, SignalInv, Enabled
<1> SUFFICES ASSUME NEW t \in Threads, Start(t) \/ Step(t),
                    NEW p \in Providers, p \notin disturbed'
             PROVE  Enabled(p)'
  BY <1>1 DEF Next
<1>2. /\ LoadInv /\ ThreadsTyped /\ ProvidersTyped /\ HandlersTyped
      /\ OneSignals /\ p \notin disturbed /\ Enabled(p)
  BY DisturbedKept DEF SignalInv, LoadInv, TypeInv
<1>3. \A u \in Threads \ {t} : thread'[u] = thread[u]
  BY <1>2, OthersStay
<1>4. thread[t].at \in Inside => /\ thread[t].provider \in Providers
                                 /\ life[thread[t].provider] # "none"
  BY <1>2, CalledLives DEF Loaded
<1>5. CASE /\ UNCHANGED <<signalVars, life>>
           /\ ~EnableIndications(t) /\ ~CallDisable(t)
  <2>1. thread'[t].at \notin {"enable", "clear"}
    BY <1>2, <1>5, EnablesOrClears
  <2>2. QED
    BY <1>2, <1>3, <1>5, <2>1, EnabledKept DEF signalVars
<1>6. CASE InitProvider(t)
  <2>1. thread'[t].at \notin {"enable", "clear"}
    <3>1. thread[t].at = "init" /\ ~EnableIndications(t) /\ ~CallDisable(t)
      BY <1>6 DEF InitProvider, EnableIndications, CallDisable
    <3>2. QED
      BY <1>2, <3>1, EnablesOrClears
  <2>2. life[p] # "none" => life'[p] # "none"
    <3>1. UNCHANGED life \/ life' = [life EXCEPT ![thread[t].provider] = "live"]
      BY <1>6 DEF InitProvider, loadVars
    <3>2. QED
      BY <1>2, <3>1 DEF ProvidersTyped
  <2>3. UNCHANGED signalVars
    BY <1>6 DEF InitProvider
  <2>4. QED
    BY <1>2, <1>3, <2>1, <2>2, <2>3, EnabledKept DEF signalVars
<1>7. CASE EnableIndications(t)
  <2> DEFINE h == NewHandler(p)
  <2>1. /\ thread[t].at = "enabling" /\ thread[t].provider \in Providers
        /\ UNCHANGED <<usedHandler, loadVars>>
    BY <1>4, <1>7 DEF EnableIndications, Inside
  <2>2. CASE thread[t].provider = p
    <3>1. enabled' = [enabled EXCEPT ![p] = TRUE] /\ handlers' = [handlers EXCEPT ![p] = @ \cup {h}]
      BY <1>7, <2>2 DEF EnableIndications
    <3>2. enabled'[p] = TRUE /\ handlers'[p] = handlers[p] \cup {h}
      BY <1>2, <3>1 DEF ProvidersTyped, HandlersTyped
    <3>3. thread'[t].at = "enable" /\ thread'[t].handler = h
      <4>1. thread'[t] = [[thread[t] EXCEPT !.at = "enable"] EXCEPT !.handler = h]
        BY <1>2, <1>7, <2>2 DEF EnableIndications, ThreadsTyped
      <4>2. QED
        <5> HIDE DEF h
        <5> QED BY <1>2, <4>1, ThreadPlaced DEF ThreadRecord
    <3>4. ASSUME NEW u \in Threads \ {t}, thread'[u].provider = p
          PROVE  /\ thread'[u].at = "enable" => thread'[u].handler \in handlers'[p]
                 /\ thread'[u].at = "clear" => usedHandler'[p] = 0
      <4>1. thread'[u] = thread[u]
        BY <1>3
      <4>2. QED
        BY <1>2, <2>1, <3>2, <3>4, <4>1 DEF Enabled
    <3>5. life' = life /\ usedHandler' = usedHandler
      BY <2>1 DEF loadVars
    <3>6. QED
      <4> HIDE DEF h
      <4> QED BY <1>2, <3>2, <3>3, <3>4, <3>5 DEF Enabled
  <2>3. CASE thread[t].provider # p
    <3>1. enabled'[p] = enabled[p] /\ handlers'[p] = handlers[p] /\ life'[p] = life[p]
      BY <1>2, <1>7, <2>1, <2>3 DEF EnableIndications, loadVars, ProvidersTyped, HandlersTyped
    <3>2. thread'[t].provider # p
      <4>1. PICK k : thread'[t] = [[thread[t] EXCEPT !.at = "enable"] EXCEPT !.handler = k]
        BY <1>2, <1>7 DEF EnableIndications, ThreadsTyped
      <4>2. QED
        BY <1>2, <2>3, <4>1, ThreadPlaced DEF ThreadRecord
    <3>3. QED
      BY <1>2, <1>3, <2>1, <3>1, <3>2 DEF Enabled
  <2>4. QED
    BY <2>2, <2>3
<1>8. CASE CallEnable(t)
  <2>1. thread[t].at = "enable" /\ thread[t].provider \in Providers
    BY <1>4, <1>8 DEF CallEnable, Inside
  <2>2. thread'[t].at \notin {"enable", "clear"}
    <3>1. ~EnableIndications(t) /\ ~CallDisable(t)
      BY <2>1 DEF EnableIndications, CallDisable
    <3>2. QED
      BY <1>2, <3>1, EnablesOrClears
  <2>3. UNCHANGED <<enabled, handlers, life>>
    BY <1>8 DEF CallEnable, loadVars, End
  <2>4. CASE thread[t].provider = p
    <3>1. usedHandler' = [usedHandler EXCEPT ![p] = thread[t].handler]
      <4>1. disturbed' # disturbed \cup {p}
        OBVIOUS
      <4>2. QED
        BY <1>8, <2>4, <4>1 DEF CallEnable
    <3>2. usedHandler'[p] = thread[t].handler
      BY <1>2, <3>1 DEF ProvidersTyped
    <3>3. enabled[p] /\ thread[t].handler \in handlers[p] /\ life[p] # "none"
      BY <1>2, <1>4, <2>1, <2>4 DEF Enabled, Inside
    <3>4. ASSUME NEW u \in Threads \ {t}, thread[u].provider = p
          PROVE  thread[u].at \notin {"enable", "clear"}
      BY <1>2, <2>1, <2>4, <3>4 DEF OneSignals, Signalling
    <3>5. ASSUME NEW u \in Threads, thread'[u].provider = p
          PROVE  thread'[u].at \notin {"enable", "clear"}
      BY <1>3, <2>2, <3>4, <3>5
    <3>6. QED
      BY <2>3, <3>2, <3>3, <3>5 DEF Enabled
  <2>5. CASE thread[t].provider # p
    <3>1. usedHandler'[p] = usedHandler[p]
      BY <1>2, <1>8, <2>1, <2>5 DEF CallEnable, ProvidersTyped
    <3>2. QED
      BY <1>2, <1>3, <2>2, <2>3, <3>1 DEF Enabled
  <2>6. QED
    BY <2>4, <2>5
<1>9. CASE CallDisable(t)
  <2>1. thread[t].at = "disable" /\ thread[t].provider \in Providers
    BY <1>4, <1>9 DEF CallDisable, Inside
  <2>2. UNCHANGED <<enabled, handlers, life>>
    BY <1>9 DEF CallDisable, loadVars, End
  <2>3. /\ thread'[t].at \in {"clear", "none"}
        /\ thread'[t].provider \in {thread[t].provider, NoProvider}
    <3>1. Goto(t, "clear") \/ Done(t)
      BY <1>9 DEF CallDisable, End
    <3>2. \/ thread'[t] = [thread[t] EXCEPT !.at = "clear"]
          \/ thread'[t] = None
      BY <1>2, <3>1 DEF Goto, Done, ThreadsTyped
    <3>3. QED
      BY <1>2, <3>2, ThreadPlaced DEF ThreadRecord, None
  <2>4. CASE thread[t].provider = p
    <3>1. usedHandler'[p] = 0
      <4>1. CASE enabled[p]
        <5>1. usedHandler' = [usedHandler EXCEPT ![p] = 0]
          BY <1>9, <2>4, <4>1 DEF CallDisable, Silent
        <5>2. QED
          BY <1>2, <5>1 DEF ProvidersTyped
      <4>2. CASE ~enabled[p]
        <5>1. UNCHANGED usedHandler
          BY <1>9, <2>4, <4>2 DEF CallDisable
        <5>2. QED
          BY <1>2, <4>2, <5>1 DEF Enabled
      <4>3. QED
        BY <4>1, <4>2
    <3>2. QED
      BY <1>2, <1>3, <2>2, <2>3, <3>1 DEF Enabled
  <2>5. CASE thread[t].provider # p
    <3>1. usedHandler'[p] = usedHandler[p]
      BY <1>2, <1>9, <2>1, <2>5 DEF CallDisable, ProvidersTyped
    <3>2. thread'[t].provider # p
      BY <2>3, <2>5, LifecycleAssumption
    <3>3. QED
      BY <1>2, <1>3, <2>2, <3>1, <3>2 DEF Enabled
  <2>6. QED
    BY <2>4, <2>5
<1>10. CASE ClearIndications(t)
  <2>1. thread[t].at = "clear" /\ thread[t].provider \in Providers /\ UNCHANGED usedHandler
    BY <1>4, <1>10 DEF ClearIndications, Inside
  <2>2. thread'[t].at \notin {"enable", "clear"}
    <3>1. ~EnableIndications(t) /\ ~CallDisable(t)
      BY <2>1 DEF EnableIndications, CallDisable
    <3>2. QED
      BY <1>2, <3>1, EnablesOrClears
  <2>3. CASE thread[t].provider = p
    <3>1. usedHandler'[p] = 0
      BY <1>2, <2>1, <2>3 DEF Enabled
    <3>2. ASSUME NEW u \in Threads \ {t}, thread[u].provider = p
          PROVE  thread[u].at \notin {"enable", "clear"}
      BY <1>2, <2>1, <2>3, <3>2 DEF OneSignals, Signalling
    <3>3. ASSUME NEW u \in Threads, thread'[u].provider = p
          PROVE  thread'[u].at \notin {"enable", "clear"}
      BY <1>3, <2>2, <3>2, <3>3
    <3>4. QED
      BY <3>1, <3>3 DEF Enabled
  <2>4. CASE thread[t].provider # p
    <3>1. enabled'[p] = enabled[p] /\ handlers'[p] = handlers[p] /\ life'[p] = life[p]
      BY <1>2, <1>10, <2>1, <2>4
      DEF ClearIndications, DeleteHandler, End, ProvidersTyped, HandlersTyped
    <3>2. QED
      BY <1>2, <1>3, <2>1, <2>2, <3>1 DEF Enabled
  <2>5. QED
    BY <2>3, <2>4
<1>11. ASSUME NEW q \in Providers, Unlocked(q),
              Unload(q) \/ UNCHANGED <<loadVars, subscriptions, signalVars>>,
              thread'[t].at \notin {"enable", "clear"}
       PROVE  Enabled(p)'
  <2>1. CASE Unload(q)
    BY <1>2, <1>3, <1>11, <2>1, UnloadEnabled
  <2>2. CASE UNCHANGED <<loadVars, subscriptions, signalVars>>
    BY <1>2, <1>3, <1>11, <2>2, EnabledKept DEF loadVars, signalVars
  <2>3. QED
    BY <1>11, <2>1, <2>2
<1>12. CASE DisableProvider(t)
  <2>1. /\ thread[t].at = "unload" /\ Unlocked(thread[t].provider)
        /\ \/ Unload(thread[t].provider)
           \/ UNCHANGED <<loadVars, subscriptions, signalVars>>
    BY <1>12 DEF DisableProvider, At
  <2>2. thread[t].provider \in Providers
    BY <1>2, <2>1, ThreadPlaced DEF Placed, Located
  <2>3. thread'[t].at \notin {"enable", "clear"}
    BY <1>2, <2>1, EnablesOrClears DEF EnableIndications, CallDisable
  <2>4. QED
    BY <1>11, <2>1, <2>2, <2>3
<1>13. ASSUME NEW q \in Providers, UnloadIdle(t, q) \/ StopProvider(t, q)
       PROVE  Enabled(p)'
  <2>1. /\ thread[t].at = "visit" /\ Unlocked(q)
        /\ Unload(q) \/ UNCHANGED <<loadVars, subscriptions, signalVars>>
    BY <1>13 DEF UnloadIdle, StopProvider, Visit, At
  <2>2. thread'[t].at \notin {"enable", "clear"}
    BY <1>2, <2>1, EnablesOrClears DEF EnableIndications, CallDisable
  <2>3. QED
    BY <1>11, <2>1, <2>2
<1>14. CASE \/ Start(t) \/ Lookup(t) \/ LookupModule(t) \/ Begin(t) \/ EndOperation(t)
            \/ CountCreated(t) \/ CountDeleted(t) \/ TestComplete(t) \/ WaitForOperations(t)
            \/ SetInitComplete(t) \/ List(t) \/ Collect(t) \/ AllVisited(t) \/ SetComplete(t)
  <2>1. UNCHANGED <<signalVars, life>>
    BY <1>14 DEF Start, Lookup, LookupModule, Begin, EndOperation, CountCreated, CountDeleted,
         TestComplete, WaitForOperations, SetInitComplete, List, Collect, AllVisited,
         SetComplete, End, loadVars
  <2>2. QED
    BY <1>5, <1>7, <1>9, <2>1
<1>15. ASSUME NEW q \in Providers, TestSubscriptions(t, q) \/ ServiceDisabled(t, q)
       PROVE  Enabled(p)'
  BY <1>5, <1>7, <1>9, <1>15 DEF TestSubscriptions, ServiceDisabled, loadVars
<1>16. QED
  BY <1>6, <1>7, <1>8, <1>9, <1>10, <1>12, <1>13, <1>14, <1>15 DEF Step

\* Nobody is in a provider at the start, and none has a handler.
LEMMA InitSignal == ASSUME Init PROVE SignalInv
<1>1. \A t \in Threads : thread[t].at = "none"
  BY DEF Init, None
<1>2. \A p \in Providers : usedHandler[p] = 0
  BY DEF Init
<1>3. OneSignals
  BY <1>1 DEF OneSignals, Signalling
<1>4. \A p \in Providers : Enabled(p)
  BY <1>1, <1>2 DEF Enabled
<1>5. QED
  BY <1>3, <1>4, InitLoad DEF SignalInv

\* Every step keeps the invariant.
LEMMA StepSignal == ASSUME SignalInv, [Next]_vars PROVE SignalInv'
<1>1. LoadInv /\ ThreadsTyped /\ OneSignals
  BY DEF SignalInv, LoadInv, TypeInv
<1>2. LoadInv' /\ OneSignals'
  BY <1>1, StepLoad, StepOneSignals
<1>3. \A p \in Providers \ disturbed' : Enabled(p)'
  BY StepEnabled
<1>4. QED
  BY <1>2, <1>3 DEF SignalInv

\* The inductive invariant holds in every reachable state.
LEMMA Invariant == Spec => []SignalInv
<1>1. Init => SignalInv
  BY InitSignal
<1>2. SignalInv /\ [Next]_vars => SignalInv'
  BY StepSignal
<1>3. QED
  BY <1>1, <1>2, PTL DEF Spec
-----------------------------------------------------------------------------
\* The members of the provider manager, its providers and what its threads do
\* keep their types.
THEOREM TypeCorrect == Spec => []TypeOK
<1>1. ASSUME SignalInv PROVE TypeOK
  <2>1. /\ ThreadsTyped /\ ManagerTyped /\ ProvidersTyped /\ HandlersTyped
        /\ Counted /\ ModuleReferenced
    BY <1>1 DEF SignalInv, LoadInv, TypeInv
  <2>2. thread \in [Threads -> ThreadRecord]
    BY <2>1 DEF ThreadsTyped, PlacedThread
  <2>3. operations \in [Providers -> Nat]
    BY <2>1, BusyFinite DEF Counted
  <2>4. references \in Nat
    <3>1. references = Cardinality(Loaded) + leaked
      BY <2>1 DEF ModuleReferenced, Loaded
    <3>2. QED
      BY <2>1, <3>1, LoadedFinite DEF ProvidersTyped
  <2>5. QED
    BY <2>1, <2>2, <2>3, <2>4
    DEF TypeOK, ThreadRecord, ManagerTyped, CachedTyped, ProvidersTyped, HandlersTyped
<1>2. QED
  BY <1>1, Invariant, PTL

\* The library of the module is referenced once for each initialized provider,
\* and for nothing else but what a failed initialize() and terminate() leaked:
\* however requests, unloading, disabling and stopping interleave, it is neither
\* unloaded under a provider nor kept after the last one.
THEOREM LibraryCounted == Spec => []ModuleReferenced
<1>1. SignalInv => ModuleReferenced
  BY DEF SignalInv, LoadInv
<1>2. QED
  BY <1>1, Invariant, PTL

\* A provider is called, and has a handler for its indications, only while it is
\* initialized and its library is loaded.
THEOREM CalledOnlyWhileLive == Spec => []CalledWhileLive
<1>1. ASSUME SignalInv PROVE CalledWhileLive
  <2>1. ASSUME NEW p \in Providers, NEW t \in Threads, InProvider(t, p)
        PROVE  life[p] # "none" /\ references > 0
    <3>1. p \in Loaded /\ life[p] # "none"
      BY <1>1, <2>1, CalledLives DEF SignalInv, InProvider
    <3>2. Cardinality(Loaded) # 0
      BY <3>1, LoadedFinite, FS_EmptySet
    <3>3. references = Cardinality(Loaded) + leaked /\ leaked \in Nat
      BY <1>1 DEF SignalInv, LoadInv, TypeInv, ProvidersTyped, ModuleReferenced, Loaded
    <3>4. QED
      BY <3>1, <3>2, <3>3, LoadedFinite
  <2>2. ASSUME NEW p \in Providers, usedHandler[p] # 0
        PROVE  life[p] # "none" \/ p \in disturbed
    BY <1>1, <2>2 DEF SignalInv, Enabled
  <2>3. QED
    BY <2>1, <2>2 DEF CalledWhileLive
<1>2. QED
  BY <1>1, Invariant, PTL

\* The response handler that a provider sends its indications to has not been
\* deleted, unless requests for its subscriptions overlapped.
THEOREM HandlerStaysValid == Spec => []HandlerValid
<1>1. SignalInv => HandlerValid
  BY DEF SignalInv, Enabled, HandlerValid
<1>2. QED
  BY <1>1, Invariant, PTL

-----------------------------------------------------------------------------
\* Where a request for a subscription has not counted it yet.
Before == {"lookup", "module", "init", "begin", "calling"}

Uncounted(t, p) == thread[t].provider = p /\ thread[t].at \in Before

\* The requests that will count a subscription of the provider, and those of them
\* that will count one less.
Changing(p) == {t \in Threads : thread[t].job \in {"create", "delete"} /\ Uncounted(t, p)}

Ended(p) == {t \in Threads : thread[t].job = "delete" /\ Uncounted(t, p)}

\* No count wraps: there are not that many requests.
Bounded == \A p \in Providers : accepted[p] + Cardinality(Changing(p)) <= jobs

\* The table has every provider that is loaded or about to be.
Listed ==
    /\ \A p \in Providers : initialized[p] => p \in cached
    /\ \A t \in Threads : thread[t].at \in {"module", "init", "begin"} =>
                              thread[t].provider \in cached

ForAll(t) == thread[t].job \in {"complete", "disabled"}

\* The end of the initialization and that of the service exclude each other, ...
OneForAll == \A t, u \in Threads : ForAll(t) /\ ForAll(u) => t = u

\* ... and while the service is being disabled, nobody has a subscription.
Disabling ==
    \A t \in Threads : thread[t].job = "disabled" =>
        /\ thread[t].at # "start" => ~initComplete
        /\ \A p \in Providers : accepted[p] = 0
        /\ \A u \in Threads : thread[u].job \notin {"create", "delete"}

\* No handler is 0, which stands for none.
Numbered == \A p \in Providers : 0 \notin handlers[p]

\* What is not initialized has no subscription, and the count of a provider is
\* that of the subscriptions it was not told to delete.
CountRight(p) ==
    /\ ~initialized[p] => accepted[p] = 0 /\ ~Deleting(p)
    /\ subscriptions[p] = accepted[p] + Cardinality(Ended(p))

\* The end of the initialization has begun with the provider, or has none to come.
Told(p) ==
    \A t \in Threads : thread[t].job = "complete" =>
        thread[t].at \notin {"start", "list"} /\ p \notin thread[t].left

Ready(p) == initComplete /\ p \in cached /\ Told(p) => complete[p]

\* What a request that has counted a subscription knows of the count, and the end
\* of the initialization.
Knows(t, p) ==
    /\ thread[t].job = "create" =>
          /\ subscriptions[p] > 0
          /\ thread[t].at = "testing" => usedHandler[p] = 0
          /\ thread[t].at # "testing" => complete[p]
    /\ thread[t].job = "delete" =>
          /\ subscriptions[p] = 0
          /\ thread[t].at = "testing" => (usedHandler[p] # 0 => complete[p])
    /\ thread[t].job = "complete" =>
          IF thread[t].at = "flag" THEN usedHandler[p] # 0 <=> subscriptions[p] > 0
          ELSE subscriptions[p] > 0

\* Indications are enabled with a subscription, once the initialization is
\* complete, but while a request is about to see to it.
Follows(p) ==
    /\ (\A t \in Threads : ~Signalling(t, p)) =>
          (usedHandler[p] # 0 <=> complete[p] /\ subscriptions[p] > 0)
    /\ \A t \in Threads : Signalling(t, p) => Knows(t, p)

FollowInv ==
    /\ Bounded /\ Listed /\ OneForAll /\ Disabling /\ Numbered
    /\ \A p \in Providers \ disturbed : CountRight(p) /\ Ready(p) /\ Follows(p)
-----------------------------------------------------------------------------
\* A step leaves the thread with its request.
SameRequest(t) ==
    thread'[t].job = thread[t].job /\ thread'[t].provider = thread[t].provider

\* What the steps make of the thread that takes them.
LEMMA ThreadEffects ==
    ASSUME ThreadsTyped, NEW t \in Threads
    PROVE  /\ \A a : Goto(t, a) =>
                 SameRequest(t) /\ thread'[t].at = a /\ thread'[t].left = thread[t].left
           /\ Done(t) => thread'[t] = None
           /\ \A p : Visited(t, p) =>
                 /\ SameRequest(t) /\ thread'[t].at = thread[t].at
                 /\ thread'[t].left = thread[t].left \ {p}
           /\ List(t) =>
                 /\ SameRequest(t) /\ thread'[t].at \in {"collect", "visit"}
                 /\ thread'[t].left = cached
           /\ Collect(t) => SameRequest(t) /\ thread'[t].at = "visit"
           /\ EnableIndications(t) =>
                 SameRequest(t) /\ thread'[t].at = "enable" /\ thread'[t].left = thread[t].left
           /\ SetComplete(t) =>
                 /\ thread'[t].job = thread[t].job /\ thread'[t].at = "visit"
                 /\ thread'[t].left = thread[t].left \ {thread[t].provider}
<1>1. thread[t] \in ThreadRecord /\ thread \in [Threads -> PlacedThread]
  BY ThreadPlaced DEF ThreadsTyped
<1> USE DEF SameRequest
<1>2. ASSUME NEW a, Goto(t, a)
      PROVE  SameRequest(t) /\ thread'[t].at = a /\ thread'[t].left = thread[t].left
  <2>1. thread'[t] = [thread[t] EXCEPT !.at = a]
    BY <1>1, <1>2 DEF Goto
  <2>2. QED
    BY <1>1, <2>1 DEF ThreadRecord
<1>3. Done(t) => thread'[t] = None
  BY <1>1 DEF Done
<1>4. ASSUME NEW p, Visited(t, p)
      PROVE  /\ SameRequest(t) /\ thread'[t].at = thread[t].at
             /\ thread'[t].left = thread[t].left \ {p}
  <2>1. thread'[t] = [thread[t] EXCEPT !.left = @ \ {p}]
    BY <1>1, <1>4 DEF Visited
  <2>2. QED
    BY <1>1, <2>1 DEF ThreadRecord
<1>5. ASSUME List(t)
      PROVE  /\ SameRequest(t) /\ thread'[t].at \in {"collect", "visit"}
             /\ thread'[t].left = cached
  <2> DEFINE a == IF thread[t].job = "stop" THEN "collect" ELSE "visit"
  <2>1. /\ thread'[t] = [[thread[t] EXCEPT !.at = a] EXCEPT !.left = cached]
        /\ a \in {"collect", "visit"}
    BY <1>1, <1>5 DEF List
  <2> HIDE DEF a
  <2>2. QED
    BY <1>1, <2>1 DEF ThreadRecord
<1>6. ASSUME Collect(t) PROVE SameRequest(t) /\ thread'[t].at = "visit"
  <2> DEFINE S == {p \in cached : initialized[p]}
  <2>1. thread'[t] = [[thread[t] EXCEPT !.at = "visit"] EXCEPT !.left = S]
    BY <1>1, <1>6 DEF Collect
  <2> HIDE DEF S
  <2>2. QED
    BY <1>1, <2>1 DEF ThreadRecord
<1>7. ASSUME EnableIndications(t)
      PROVE  SameRequest(t) /\ thread'[t].at = "enable" /\ thread'[t].left = thread[t].left
  <2> DEFINE h == NewHandler(thread[t].provider)
  <2>1. thread'[t] = [[thread[t] EXCEPT !.at = "enable"] EXCEPT !.handler = h]
    BY <1>1, <1>7 DEF EnableIndications
  <2> HIDE DEF h
  <2>2. QED
    BY <1>1, <2>1 DEF ThreadRecord
<1>8. ASSUME SetComplete(t)
      PROVE  /\ thread'[t].job = thread[t].job /\ thread'[t].at = "visit"
             /\ thread'[t].left = thread[t].left \ {thread[t].provider}
  <2>1. thread'[t] = [[[thread[t] EXCEPT !.at = "visit"] EXCEPT !.provider = NoProvider] EXCEPT
                         !.left = @ \ {thread[t].provider}]
    BY <1>1, <1>8 DEF SetComplete
  <2>2. QED
    BY <1>1, <2>1 DEF ThreadRecord
<1>9. QED
  BY <1>2, <1>3, <1>4, <1>5, <1>6, <1>7, <1>8

\* A request that starts.
LEMMA StartEffects ==
    ASSUME ThreadsTyped, NEW t \in Threads, Start(t)
    PROVE  /\ thread[t] = None
           /\ \/ /\ thread'[t].at = "lookup" /\ thread'[t].provider \in Providers
                 /\ thread'[t].job \in {"operation", "create", "delete", "disable"}
                 /\ thread'[t].job \in {"create", "delete"} => ~Doing("disabled")
                 /\ IF thread'[t].job = "delete"
                    THEN /\ accepted[thread'[t].provider] > 0
                         /\ accepted' = [accepted EXCEPT ![thread'[t].provider] = @ - 1]
                    ELSE UNCHANGED accepted
              \/ /\ thread'[t].at \in {"start", "list"}
                 /\ thread'[t].job \in {"idle", "complete", "disabled", "stop"}
                 /\ thread'[t].job \in {"complete", "disabled"} =>
                       thread'[t].at = "start" /\ ~(Doing("complete") \/ Doing("disabled"))
                 /\ thread'[t].job = "disabled" =>
                       /\ \A p \in Providers : accepted[p] = 0
                       /\ ~(Doing("create") \/ Doing("delete"))
                 /\ UNCHANGED accepted
<1>1. thread \in [Threads -> PlacedThread] /\ thread[t] = None
  BY DEF Start, ThreadsTyped
<1>2. CASE StartRequest(t)
  <2>1. PICK p \in Providers, job \in {"operation", "create", "delete", "disable"} :
           /\ job \in {"create", "delete"} => ~Doing("disabled")
           /\ thread' = [thread EXCEPT ![t] =
                [None EXCEPT !.job = job, !.at = "lookup", !.provider = p]]
           /\ IF job = "delete"
              THEN accepted[p] > 0 /\ accepted' = [accepted EXCEPT ![p] = @ - 1]
              ELSE UNCHANGED accepted
    BY <1>2 DEF StartRequest
  <2>2. thread'[t].at = "lookup" /\ thread'[t].job = job /\ thread'[t].provider = p
    BY <1>1, <2>1 DEF None
  <2>3. QED
    BY <1>1, <2>1, <2>2
<1>3. CASE StartForAll(t)
  <2>1. PICK job \in {"idle", "complete", "disabled", "stop"} :
           /\ job = "complete" => ~initComplete /\ ~Doing("complete") /\ ~Doing("disabled")
           /\ job = "disabled" =>
                /\ \A p \in Providers : accepted[p] = 0
                /\ ~(Doing("complete") \/ Doing("disabled") \/ Doing("create") \/ Doing("delete"))
           /\ thread' = [thread EXCEPT ![t] = [None EXCEPT !.job = job,
                !.at = IF job \in {"complete", "disabled"} THEN "start" ELSE "list"]]
           /\ UNCHANGED accepted
    BY <1>3 DEF StartForAll
  <2>2. /\ thread'[t].at = IF job \in {"complete", "disabled"} THEN "start" ELSE "list"
        /\ thread'[t].job = job
    BY <1>1, <2>1 DEF None
  <2>3. QED
    BY <1>1, <2>1, <2>2
<1>4. QED
  BY <1>2, <1>3 DEF Start

\* The end of the initialization goes to a provider.
LEMMA TestEffects ==
    ASSUME ThreadsTyped, NEW t \in Threads, NEW p \in Providers, TestSubscriptions(t, p)
    PROVE  /\ thread[t].job = "complete" /\ thread'[t].job = "complete"
           /\ thread[t].at = "visit"
           /\ IF initialized[p]
              THEN /\ thread'[t].provider = p /\ thread'[t].left = thread[t].left
                   /\ thread'[t].at = IF subscriptions[p] > 0 THEN "enabling" ELSE "flag"
              ELSE Visited(t, p)
<1>1. thread[t] \in ThreadRecord /\ thread \in [Threads -> PlacedThread]
  BY ThreadPlaced DEF ThreadsTyped
<1>2. thread[t].job = "complete" /\ thread[t].at = "visit"
  BY DEF TestSubscriptions, Visit, At
<1>3. CASE initialized[p]
  <2> DEFINE a == IF subscriptions[p] > 0 THEN "enabling" ELSE "flag"
  <2>1. thread'[t] = [[thread[t] EXCEPT !.provider = p] EXCEPT !.at = a]
    BY <1>1, <1>3 DEF TestSubscriptions
  <2>2. thread'[t].provider = p /\ thread'[t].at = a
        /\ thread'[t].job = thread[t].job /\ thread'[t].left = thread[t].left
    <3> HIDE DEF a
    <3> QED BY <1>1, <2>1 DEF ThreadRecord
  <2>3. QED
    BY <1>2, <1>3, <2>2
<1>4. CASE ~initialized[p]
  <2>1. Visited(t, p)
    BY <1>4 DEF TestSubscriptions
  <2>2. QED
    BY <1>2, <1>4, <2>1, ThreadEffects DEF SameRequest
<1>5. QED
  BY <1>3, <1>4
\* Where a request for a subscription goes: on to its provider, ...
LEMMA RequestStays ==
    ASSUME ThreadsTyped, NEW t \in Threads, Step(t),
           thread'[t].job \in {"create", "delete"}
    PROVE  /\ SameRequest(t)
           /\ thread'[t].at \in Before => thread[t].at \in Before
<1>1. ~Done(t)
  BY ThreadEffects DEF None
<1>2. \A a : Goto(t, a) => SameRequest(t) /\ thread'[t].at = a
  BY ThreadEffects
<1>3. CASE thread[t].at \in Before /\ \E a : Goto(t, a)
  BY <1>2, <1>3
<1>4. CASE \E a \in {"testing", "enabling", "disable", "clear", "flag", "unload", "list"} :
              Goto(t, a)
  BY <1>2, <1>4 DEF Before
<1>5. CASE \/ Lookup(t) \/ LookupModule(t) \/ InitProvider(t) \/ Begin(t) \/ EndOperation(t)
           \/ CountCreated(t) \/ CountDeleted(t) \/ TestComplete(t) \/ CallEnable(t)
           \/ CallDisable(t) \/ ClearIndications(t) \/ WaitForOperations(t)
           \/ DisableProvider(t) \/ SetInitComplete(t) \/ AllVisited(t)
  <2>1. \/ /\ thread[t].at \in Before
           /\ \E a : Goto(t, a)
        \/ \E a \in {"testing", "enabling", "disable", "clear", "flag", "unload", "list"} :
               Goto(t, a)
    BY <1>1, <1>5
    DEF Lookup, LookupModule, InitProvider, Begin, EndOperation, CountCreated, CountDeleted,
        TestComplete, CallEnable, CallDisable, ClearIndications, WaitForOperations,
        DisableProvider, SetInitComplete, AllVisited, End, At, Before
  <2>2. QED
    BY <1>3, <1>4, <2>1
<1>6. CASE EnableIndications(t) \/ List(t) \/ Collect(t)
  BY <1>6, ThreadEffects DEF Before
<1>7. CASE SetComplete(t)
  <2>1. thread[t].job = "complete"
    BY <1>7 DEF SetComplete, At
  <2>2. QED
    BY <1>7, <2>1, ThreadEffects
<1>8. ASSUME NEW p \in Providers,
             UnloadIdle(t, p) \/ ServiceDisabled(t, p) \/ StopProvider(t, p)
      PROVE  SameRequest(t) /\ thread'[t].at \notin Before
  <2>1. thread[t].at = "visit" /\ Visited(t, p)
    BY <1>1, <1>8 DEF UnloadIdle, ServiceDisabled, StopProvider, Visit, At
  <2>2. QED
    BY <2>1, ThreadEffects DEF Before
<1>9. ASSUME NEW p \in Providers, TestSubscriptions(t, p) PROVE FALSE
  BY <1>9, TestEffects
<1>10. QED
  BY <1>5, <1>6, <1>7, <1>8, <1>9 DEF Step

\* ... counts, or fails because the provider could not be loaded or was unloaded.
LEMMA RequestGoes ==
    ASSUME ThreadsTyped, NEW t \in Threads, Step(t),
           thread[t].job \in {"create", "delete"}, thread[t].at \in Before
    PROVE  \/ SameRequest(t) /\ thread'[t].at \in Before
           \/ CountCreated(t) \/ CountDeleted(t)
           \/ thread'[t] = None /\ ~initialized[thread[t].provider]
<1>1. Requesting(t)
  BY DEF Requesting
<1> DEFINE Goes == \E a \in Before : Goto(t, a)
           Fails == Done(t) /\ ~initialized[thread[t].provider]
<1>2. CASE Lookup(t) \/ LookupModule(t) \/ InitProvider(t) \/ Begin(t)
  <2>1. Goes \/ Fails
    BY <1>1, <1>2 DEF Lookup, LookupModule, InitProvider, Begin, CanBegin, Before
  <2>2. QED
    BY <2>1, ThreadEffects
<1>5. CASE CountCreated(t) \/ CountDeleted(t)
  BY <1>5
<1>6. CASE \/ EndOperation(t) \/ TestComplete(t) \/ EnableIndications(t) \/ CallEnable(t)
           \/ CallDisable(t) \/ ClearIndications(t) \/ WaitForOperations(t)
           \/ DisableProvider(t) \/ SetInitComplete(t) \/ List(t) \/ Collect(t)
           \/ AllVisited(t) \/ SetComplete(t)
           \/ \E p \in Providers : \/ UnloadIdle(t, p) \/ TestSubscriptions(t, p)
                                   \/ ServiceDisabled(t, p) \/ StopProvider(t, p)
  BY <1>6 DEF Before, EndOperation, TestComplete, EnableIndications, CallEnable,
         CallDisable, ClearIndications, WaitForOperations, DisableProvider, SetInitComplete,
         List, Collect, AllVisited, SetComplete, UnloadIdle, TestSubscriptions,
         ServiceDisabled, StopProvider, Visit, At
<1>7. QED
  BY <1>2, <1>5, <1>6 DEF Step

\* Who comes to load or begin a provider has looked it up.
LEMMA StepListed ==
    ASSUME ThreadsTyped, ProvidersTyped, Listed, [Next]_vars
    PROVE  Listed'
<1>1. CASE UNCHANGED vars
  BY <1>1 DEF vars, tableVars, loadVars, Listed
<1> SUFFICES ASSUME NEW t \in Threads, Start(t) \/ Step(t)
             PROVE  Listed'
  BY <1>1 DEF Next
<1>2. \A u \in Threads \ {t} : thread'[u] = thread[u]
  BY OthersStay
<1>3. cached \subseteq cached'
  BY DEF Start, Step, Lookup, LookupModule, InitProvider, Begin, EndOperation, CountCreated,
         CountDeleted, TestComplete, EnableIndications, CallEnable, CallDisable,
         ClearIndications, WaitForOperations, DisableProvider, SetInitComplete, List,
         Collect, AllVisited, SetComplete, UnloadIdle, TestSubscriptions, ServiceDisabled,
         StopProvider, tableVars
<1>4. ASSUME thread'[t].at \in {"module", "init", "begin"}
      PROVE  thread'[t].provider \in cached'
  <2>1. ~Done(t)
    BY <1>4, ThreadEffects DEF None
  <2>2. \A a : Goto(t, a) => a \in {"module", "init", "begin"} /\ SameRequest(t)
    BY <1>4, ThreadEffects
  <2>3. ~Start(t)
    BY <1>4, StartEffects
  <2>4. CASE Lookup(t)
    BY <2>1, <2>2, <2>4 DEF Lookup, SameRequest
  <2>5. CASE LookupModule(t) \/ InitProvider(t)
    BY <1>3, <2>1, <2>2, <2>5 DEF LookupModule, InitProvider, SameRequest, Listed
  <2>6. ASSUME NEW p \in Providers,
               \/ UnloadIdle(t, p) \/ ServiceDisabled(t, p) \/ StopProvider(t, p)
               \/ TestSubscriptions(t, p)
        PROVE  FALSE
    <3>1. Visited(t, p) => thread'[t].at = thread[t].at
      BY ThreadEffects
    <3>2. thread[t].at = "visit"
      BY <2>6 DEF UnloadIdle, ServiceDisabled, StopProvider, TestSubscriptions, Visit, At
    <3>3. TestSubscriptions(t, p)
      BY <1>4, <2>1, <2>6, <3>1, <3>2 DEF UnloadIdle, ServiceDisabled, StopProvider
    <3>4. QED
      BY <1>4, <3>1, <3>2, <3>3, TestEffects
  <2>7. CASE \/ Begin(t) \/ EndOperation(t) \/ CountCreated(t) \/ CountDeleted(t)
             \/ TestComplete(t) \/ CallEnable(t) \/ CallDisable(t) \/ ClearIndications(t)
             \/ WaitForOperations(t) \/ DisableProvider(t) \/ SetInitComplete(t)
             \/ AllVisited(t)
    BY <1>4, <2>1, <2>2, <2>7
    DEF Begin, EndOperation, CountCreated, CountDeleted, TestComplete, CallEnable,
        CallDisable, ClearIndications, WaitForOperations, DisableProvider, SetInitComplete,
        AllVisited, End
  <2>8. CASE EnableIndications(t) \/ List(t) \/ Collect(t) \/ SetComplete(t)
    BY <1>4, <2>8, ThreadEffects
  <2>9. QED
    BY <2>3, <2>4, <2>5, <2>6, <2>7, <2>8 DEF Step
<1>5. ASSUME NEW p \in Providers, initialized'[p] PROVE p \in cached'
  <2>1. CASE InitProvider(t)
    <3>1. /\ thread[t].at = "init"
          /\ \/ UNCHANGED initialized
             \/ initialized' = [initialized EXCEPT ![thread[t].provider] = TRUE]
      BY <2>1 DEF InitProvider, loadVars
    <3>2. QED
      BY <1>3, <1>5, <3>1 DEF Listed, ProvidersTyped
  <2>2. ASSUME NEW q \in Providers, initialized[q],
               Unload(q) \/ UNCHANGED <<loadVars, subscriptions, signalVars>>
        PROVE  p \in cached'
    <3>1. \/ UNCHANGED initialized
          \/ \E b \in BOOLEAN : initialized' = [initialized EXCEPT ![q] = b]
      BY <2>2, Zenon DEF Unload, loadVars
    <3>2. initialized[p]
      BY <1>5, <2>2, <3>1 DEF ProvidersTyped
    <3>3. QED
      BY <1>3, <3>2 DEF Listed
  <2>3. CASE UNCHANGED initialized
    BY <1>3, <1>5, <2>3 DEF Listed
  <2>4. CASE DisableProvider(t)
    BY <2>2, <2>3, <2>4, ThreadPlaced DEF DisableProvider, loadVars, At, Placed, Located
  <2>5. ASSUME NEW q \in Providers, UnloadIdle(t, q) \/ StopProvider(t, q)
        PROVE  p \in cached'
    BY <2>2, <2>3, <2>5 DEF UnloadIdle, StopProvider, IsIdle, loadVars
  <2>6. QED
    BY <2>1, <2>3, <2>4, <2>5
    DEF Start, Step, Lookup, LookupModule, Begin, EndOperation, CountCreated, CountDeleted,
        TestComplete, EnableIndications, CallEnable, CallDisable, ClearIndications,
        WaitForOperations, SetInitComplete, List, Collect, AllVisited, SetComplete,
        TestSubscriptions, ServiceDisabled, loadVars, End
<1>6. QED
  BY <1>2, <1>3, <1>4, <1>5 DEF Listed

\* A thread keeps its request until it is done with it.
LEMMA JobKept ==
    ASSUME ThreadsTyped, NEW t \in Threads, Step(t)
    PROVE  thread'[t].job \in {thread[t].job, "none"}
<1>1. Done(t) => thread'[t].job = "none"
  BY ThreadEffects DEF None
<1>2. (\E a : Goto(t, a)) => thread'[t].job = thread[t].job
  BY ThreadEffects DEF SameRequest
<1>3. (\E p : Visited(t, p)) => thread'[t].job = thread[t].job
  BY ThreadEffects DEF SameRequest
<1>4. CASE \/ Lookup(t) \/ LookupModule(t) \/ InitProvider(t) \/ Begin(t) \/ EndOperation(t)
           \/ CountCreated(t) \/ CountDeleted(t) \/ TestComplete(t) \/ CallEnable(t)
           \/ CallDisable(t) \/ ClearIndications(t) \/ WaitForOperations(t)
           \/ DisableProvider(t) \/ SetInitComplete(t) \/ AllVisited(t)
  <2>1. Done(t) \/ \E a : Goto(t, a)
    BY <1>4
    DEF Lookup, LookupModule, InitProvider, Begin, EndOperation, CountCreated, CountDeleted,
        TestComplete, CallEnable, CallDisable, ClearIndications, WaitForOperations,
        DisableProvider, SetInitComplete, AllVisited, End
  <2>2. QED
    BY <1>1, <1>2, <2>1
<1>5. CASE EnableIndications(t) \/ List(t) \/ Collect(t) \/ SetComplete(t)
  BY <1>5, ThreadEffects DEF SameRequest
<1>6. ASSUME NEW p \in Providers,
             UnloadIdle(t, p) \/ ServiceDisabled(t, p) \/ StopProvider(t, p)
      PROVE  thread'[t].job \in {thread[t].job, "none"}
  <2>1. Done(t) \/ Visited(t, p)
    BY <1>6 DEF UnloadIdle, ServiceDisabled, StopProvider
  <2>2. QED
    BY <1>1, <1>3, <2>1
<1>7. ASSUME NEW p \in Providers, TestSubscriptions(t, p)
      PROVE  thread'[t].job = thread[t].job
  BY <1>7, TestEffects
<1>8. QED
  BY <1>4, <1>5, <1>6, <1>7 DEF Step

\* The indication service accepts a subscription when the provider has created it.
LEMMA AcceptedFalls ==
    ASSUME ManagerTyped, ThreadsTyped, NEW t \in Threads, Step(t), ~CountCreated(t)
    PROVE  /\ \A p \in Providers : accepted'[p] \in {accepted[p], 0}
           /\ jobs' = jobs
<1>1. \/ UNCHANGED accepted
      \/ \E q \in Providers : accepted' = [accepted EXCEPT ![q] = 0]
  <2>1. CASE DisableProvider(t)
    <3>1. thread[t].provider \in Providers
      BY <2>1, ThreadPlaced DEF DisableProvider, At, Placed, Located
    <3>2. \/ accepted' = [accepted EXCEPT ![thread[t].provider] = @]
          \/ accepted' = [accepted EXCEPT ![thread[t].provider] = 0]
      BY <2>1 DEF DisableProvider
    <3>3. QED
      BY <3>1, <3>2 DEF ManagerTyped
  <2>2. CASE Lookup(t)
    BY <2>2, ThreadPlaced DEF Lookup, Placed, Located
  <2>3. QED
    BY <2>1, <2>2
    DEF Step, LookupModule, InitProvider, Begin, EndOperation, CountDeleted, TestComplete,
        EnableIndications, CallEnable, CallDisable, ClearIndications, WaitForOperations,
        SetInitComplete, List, Collect, AllVisited, SetComplete, UnloadIdle,
        TestSubscriptions, ServiceDisabled, StopProvider, countVars
<1>2. jobs' = jobs
  BY DEF Step, Lookup, LookupModule, InitProvider, Begin, EndOperation, CountDeleted,
         TestComplete, EnableIndications, CallEnable, CallDisable, ClearIndications,
         WaitForOperations, DisableProvider, SetInitComplete, List, Collect, AllVisited,
         SetComplete, UnloadIdle, TestSubscriptions, ServiceDisabled, StopProvider
<1>3. QED
  BY <1>1, <1>2 DEF ManagerTyped

\* The manager learns of the initialization from the request for it.
LEMMA CompletedBy ==
    ASSUME NEW t \in Threads, Start(t) \/ Step(t)
    PROVE  \/ initComplete' = initComplete
           \/ SetInitComplete(t)
BY DEF Start, Step, Lookup, LookupModule, InitProvider, Begin, EndOperation, CountCreated,
       CountDeleted, TestComplete, EnableIndications, CallEnable, CallDisable,
       ClearIndications, WaitForOperations, DisableProvider, List, Collect, AllVisited,
       SetComplete, UnloadIdle, TestSubscriptions, ServiceDisabled, StopProvider

\* The request that waits to begin is the end of the initialization.
LEMMA StartsWith ==
    ASSUME NEW t \in Threads, Step(t), thread[t].at = "start"
    PROVE  SetInitComplete(t)
BY DEF Step, Lookup, LookupModule, InitProvider, Begin, EndOperation, CountCreated,
       CountDeleted, TestComplete, EnableIndications, CallEnable, CallDisable,
       ClearIndications, WaitForOperations, DisableProvider, List, Collect, AllVisited,
       SetComplete, UnloadIdle, TestSubscriptions, ServiceDisabled, StopProvider, At, Visit

\* Requests for all providers exclude each other as the indication service sends
\* them, and requests for subscriptions.
LEMMA StepForAll ==
    ASSUME ThreadsTyped, ManagerTyped, OneForAll, Disabling, [Next]_vars
    PROVE  OneForAll' /\ Disabling'
<1>1. CASE UNCHANGED vars
  BY <1>1 DEF vars, OneForAll, ForAll, Disabling, countVars
<1> SUFFICES ASSUME NEW t \in Threads, Start(t) \/ Step(t)
             PROVE  OneForAll' /\ Disabling'
  BY <1>1 DEF Next
<1>2. \A u \in Threads \ {t} : thread'[u] = thread[u]
  BY OthersStay
<1>3. CASE Start(t)
  <2>1. UNCHANGED initComplete
    BY <1>3 DEF Start
  <2>2. ForAll(t)' => ~(Doing("complete") \/ Doing("disabled"))
    BY <1>3, StartEffects DEF ForAll
  <2>3. OneForAll'
    BY <1>2, <2>2 DEF OneForAll, ForAll, Doing
  <2>4. ASSUME NEW v \in Threads, thread'[v].job = "disabled"
        PROVE  /\ thread'[v].at # "start" => ~initComplete'
               /\ \A p \in Providers : accepted'[p] = 0
               /\ \A u \in Threads : thread'[u].job \notin {"create", "delete"}
    <3>1. CASE v = t
      <4>1. /\ thread'[t].at = "start" /\ UNCHANGED accepted
            /\ \A p \in Providers : accepted[p] = 0
            /\ ~(Doing("create") \/ Doing("delete"))
        BY <1>3, <2>4, <3>1, StartEffects
      <4>2. QED
        BY <1>2, <2>4, <3>1, <4>1 DEF Doing
    <3>2. CASE v # t
      <4>1. thread[v].job = "disabled" /\ thread'[v].at = thread[v].at
        BY <1>2, <2>4, <3>2
      <4>2. thread'[t].job \notin {"create", "delete"}
        BY <1>3, <4>1, StartEffects DEF Doing
      <4>3. UNCHANGED accepted
        BY <1>3, <4>2, StartEffects
      <4>4. QED
        BY <1>2, <2>1, <4>1, <4>2, <4>3 DEF Disabling
    <3>3. QED
      BY <3>1, <3>2
  <2>5. QED
    BY <2>3, <2>4 DEF Disabling
<1>4. CASE Step(t)
  <2>1. \A u \in Threads : thread'[u].job \in {thread[u].job, "none"}
    BY <1>2, <1>4, JobKept
  <2>2. OneForAll'
    BY <2>1 DEF OneForAll, ForAll
  <2>3. ASSUME NEW v \in Threads, thread'[v].job = "disabled"
        PROVE  /\ thread'[v].at # "start" => ~initComplete'
               /\ \A p \in Providers : accepted'[p] = 0
               /\ \A u \in Threads : thread'[u].job \notin {"create", "delete"}
    <3>1. thread[v].job = "disabled"
      BY <2>1, <2>3
    <3>2. \A u \in Threads : thread[u].job \notin {"create", "delete"}
      BY <3>1 DEF Disabling
    <3>3. \A p \in Providers : accepted'[p] = 0
      <4>1. ~CountCreated(t)
        BY <3>2 DEF CountCreated, At
      <4>2. QED
        BY <1>4, <3>1, <4>1, AcceptedFalls DEF Disabling
    <3>4. CASE SetInitComplete(t)
      <4>1. thread[t].at = "start" /\ initComplete' = (thread[t].job = "complete")
        BY <3>4 DEF SetInitComplete
      <4>2. thread[t].job = "complete" => v = t
        BY <3>1 DEF OneForAll, ForAll
      <4>3. thread[t].job # "complete"
        BY <3>1, <4>2
      <4>4. ~initComplete'
        BY <4>1, <4>3, Zenon
      <4>5. QED
        BY <2>1, <3>2, <3>3, <4>4
    <3>5. CASE initComplete' = initComplete /\ ~SetInitComplete(t)
      <4>1. thread'[v].at # "start" => thread[v].at # "start"
        <5>1. thread[v].at = "start" => v # t
          BY <1>4, <3>5, StartsWith
        <5>2. QED
          BY <1>2, <5>1
      <4>2. QED
        BY <2>1, <3>1, <3>2, <3>3, <3>5, <4>1 DEF Disabling
    <3>6. QED
      BY <1>4, <3>4, <3>5, CompletedBy
  <2>4. QED
    BY <2>2, <2>3 DEF Disabling
<1>5. QED
  BY <1>3, <1>4

\* A handler that is made is not 0.
LEMMA StepNumbered ==
    ASSUME ThreadsTyped, HandlersTyped, Numbered, [Next]_vars
    PROVE  Numbered'
<1>1. ASSUME UNCHANGED handlers PROVE Numbered'
  BY <1>1 DEF Numbered
<1>2. ASSUME NEW p \in Providers, DeleteHandler(p) PROVE Numbered'
  BY <1>2 DEF DeleteHandler, Numbered, HandlersTyped
<1>3. ASSUME NEW p \in Providers,
             Unload(p) \/ UNCHANGED <<loadVars, subscriptions, signalVars>>
      PROVE  Numbered'
  BY <1>1, <1>2, <1>3 DEF Unload, signalVars
<1>4. CASE UNCHANGED vars
  BY <1>1, <1>4 DEF vars, signalVars
<1> SUFFICES ASSUME NEW t \in Threads, Start(t) \/ Step(t)
             PROVE  Numbered'
  BY <1>4 DEF Next
<1>5. thread[t].at \in Located => thread[t].provider \in Providers
  BY ThreadPlaced DEF Placed
<1>6. CASE EnableIndications(t)
  <2> DEFINE p == thread[t].provider
  <2>1. p \in Providers /\ handlers' = [handlers EXCEPT ![p] = @ \cup {NewHandler(p)}]
    BY <1>5, <1>6 DEF EnableIndications, Located, Inside
  <2>2. NewHandler(p) # 0
    BY <2>1, NewHandlerTyped
  <2>3. QED
    BY <2>1, <2>2 DEF Numbered, HandlersTyped
<1>7. CASE ClearIndications(t)
  BY <1>2, <1>5, <1>7 DEF ClearIndications, Located, Inside
<1>8. CASE DisableProvider(t)
  BY <1>3, <1>5, <1>8 DEF DisableProvider, Located, At
<1>9. ASSUME NEW p \in Providers, UnloadIdle(t, p) \/ StopProvider(t, p)
      PROVE  Numbered'
  BY <1>3, <1>9 DEF UnloadIdle, StopProvider
<1>10. CASE UNCHANGED handlers
  BY <1>1, <1>10
<1>11. QED
  BY <1>6, <1>7, <1>8, <1>9, <1>10
  DEF Start, Step, Lookup, LookupModule, InitProvider, Begin, EndOperation, CountCreated,
      CountDeleted, TestComplete, CallEnable, CallDisable, WaitForOperations,
      SetInitComplete, List, Collect, AllVisited, SetComplete, TestSubscriptions,
      ServiceDisabled, signalVars

\* Finitely many threads handle requests.
LEMMA RequestsFinite ==
    ASSUME NEW p
    PROVE  /\ IsFiniteSet(Changing(p)) /\ Cardinality(Changing(p)) \in Nat
           /\ IsFiniteSet(Ended(p)) /\ Cardinality(Ended(p)) \in Nat
<1>1. IsFiniteSet(Threads) /\ Changing(p) \in SUBSET Threads /\ Ended(p) \in SUBSET Threads
  BY LifecycleAssumption DEF Changing, Ended
<1>2. IsFiniteSet(Changing(p)) /\ IsFiniteSet(Ended(p))
  BY <1>1, FS_Subset
<1>3. QED
  BY <1>2, FS_CardinalityType

\* Where CountCreated and CountDeleted leave the request.
LEMMA CountEffects ==
    ASSUME ThreadsTyped, NEW t \in Threads, CountCreated(t) \/ CountDeleted(t)
    PROVE  /\ thread[t].at = "calling" /\ thread[t].provider \in Providers
           /\ thread'[t].at \notin Before
           /\ \/ SameRequest(t) /\ thread'[t].at = "testing"
              \/ thread'[t] = None
<1>1. thread[t].at = "calling" /\ (Goto(t, "testing") \/ Done(t))
  BY DEF CountCreated, CountDeleted, At, End
<1>2. thread[t].provider \in Providers
  BY <1>1, ThreadPlaced DEF Placed, Located, Inside
<1>3. QED
  BY <1>1, <1>2, ThreadEffects DEF None, Before

\* The counts of subscriptions stay below the number of requests.
LEMMA StepBounded ==
    ASSUME ThreadsTyped, ManagerTyped, Bounded, [Next]_vars
    PROVE  Bounded'
<1>1. CASE UNCHANGED vars
  BY <1>1 DEF vars, countVars, Bounded, Changing, Uncounted
<1> SUFFICES ASSUME NEW t \in Threads, Start(t) \/ Step(t), NEW p \in Providers
             PROVE  accepted'[p] + Cardinality(Changing(p)') <= jobs'
  BY <1>1 DEF Next, Bounded
<1> USE RequestsFinite
<1>2. \A u \in Threads \ {t} : thread'[u] = thread[u]
  BY OthersStay
<1>3. /\ Cardinality(Changing(p)') \in Nat /\ Cardinality(Changing(p)) \in Nat
      /\ accepted[p] \in Nat /\ jobs \in Nat
      /\ accepted[p] + Cardinality(Changing(p)) <= jobs
  <2>1. Changing(p)' \in SUBSET Threads
    BY DEF Changing
  <2>2. IsFiniteSet(Changing(p)')
    BY <2>1, LifecycleAssumption, FS_Subset
  <2>3. Cardinality(Changing(p)') \in Nat
    BY <2>2, FS_CardinalityType
  <2>4. QED
    BY <2>3, LifecycleAssumption DEF ManagerTyped, Bounded
<1>4. \A u \in Changing(p)' \ {t} : u \in Changing(p)
  BY <1>2 DEF Changing, Uncounted
<1>5. CASE Start(t)
  <2>1. Changing(p)' \subseteq Changing(p) \cup {t}
    BY <1>4
  <2>2. /\ IsFiniteSet(Changing(p) \cup {t})
        /\ Cardinality(Changing(p) \cup {t}) <= Cardinality(Changing(p)) + 1
    <3>1. IsFiniteSet(Changing(p))
      OBVIOUS
    <3>2. /\ IsFiniteSet(Changing(p) \cup {t})
          /\ Cardinality(Changing(p) \cup {t}) =
                IF t \in Changing(p) THEN Cardinality(Changing(p))
                ELSE Cardinality(Changing(p)) + 1
      BY <3>1, FS_AddElement
    <3>3. QED
      BY <1>3, <3>2
  <2>3. Cardinality(Changing(p)') <= Cardinality(Changing(p) \cup {t})
    BY <2>1, <2>2, FS_Subset
  <2>4. Cardinality(Changing(p) \cup {t}) \in Nat
    BY <2>2, FS_CardinalityType
  <2>5. jobs' = jobs + 1
    BY <1>5 DEF Start
  <2>6. accepted'[p] \in Nat /\ accepted'[p] <= accepted[p]
    <3>1. \/ UNCHANGED accepted
          \/ \E q \in Providers : accepted[q] > 0 /\ accepted' = [accepted EXCEPT ![q] = @ - 1]
      BY <1>5, StartEffects
    <3>2. QED
      BY <3>1 DEF ManagerTyped
  <2>7. QED
    BY <1>3, <2>2, <2>3, <2>4, <2>5, <2>6
<1>6. CASE Step(t)
  <2>1. t \in Changing(p)' => t \in Changing(p)
    BY <1>6, RequestStays DEF Changing, Uncounted, SameRequest
  <2>2. Changing(p)' \subseteq Changing(p)
    BY <1>4, <2>1
  <2>3. Cardinality(Changing(p)') <= Cardinality(Changing(p))
    BY <2>2, FS_Subset
  <2>4. CASE CountCreated(t)
    <3>1. /\ jobs' = jobs
          /\ \/ accepted' = [accepted EXCEPT ![thread[t].provider] = @ + 1]
             \/ UNCHANGED accepted
      BY <2>4 DEF CountCreated
    <3>2. CASE thread[t].provider = p
      <4>1. t \in Changing(p) /\ t \notin Changing(p)'
        BY <2>4, <3>2, CountEffects DEF Changing, Uncounted, CountCreated, At, Before
      <4>2. Changing(p)' \subseteq Changing(p) \ {t}
        BY <2>2, <4>1
      <4>3. /\ IsFiniteSet(Changing(p) \ {t})
            /\ Cardinality(Changing(p) \ {t}) = Cardinality(Changing(p)) - 1
        BY <4>1, FS_RemoveElement
      <4>4. Cardinality(Changing(p)') <= Cardinality(Changing(p)) - 1
        BY <4>2, <4>3, FS_Subset
      <4>5. accepted'[p] \in Nat /\ accepted'[p] <= accepted[p] + 1
        BY <3>1, <3>2 DEF ManagerTyped
      <4>6. QED
        BY <1>3, <3>1, <4>4, <4>5
    <3>3. CASE thread[t].provider # p
      <4>1. accepted'[p] = accepted[p]
        BY <3>1, <3>3 DEF ManagerTyped
      <4>2. QED
        BY <1>3, <2>3, <3>1, <4>1
    <3>4. QED
      BY <3>2, <3>3
  <2>5. CASE ~CountCreated(t)
    <3>1. accepted'[p] \in {accepted[p], 0} /\ jobs' = jobs
      BY <1>6, <2>5, AcceptedFalls
    <3>2. QED
      BY <1>3, <2>3, <3>1
  <2>6. QED
    BY <2>4, <2>5
<1>7. QED
  BY <1>5, <1>6
-----------------------------------------------------------------------------
\* What a step leaves of a provider that it is not about.
AboutOther(t, p) ==
    /\ ~(thread[t].at \in Located /\ thread[t].provider = p)
    /\ ~(\/ UnloadIdle(t, p) \/ TestSubscriptions(t, p)
         \/ ServiceDisabled(t, p) \/ StopProvider(t, p))

Unmoved(p) ==
    /\ initialized'[p] = initialized[p]
    /\ subscriptions'[p] = subscriptions[p]
    /\ complete'[p] = complete[p]
    /\ usedHandler'[p] = usedHandler[p]
    /\ p \in cached' <=> p \in cached

\* Unloading a provider leaves the members of another.
LEMMA UnloadOther ==
    ASSUME ProvidersTyped, NEW p \in Providers, NEW q \in Providers, p # q, Unload(q)
    PROVE  /\ initialized'[p] = initialized[p]
           /\ subscriptions'[p] = subscriptions[p]
           /\ usedHandler'[p] = usedHandler[p]
<1>1. CASE UNCHANGED <<loadVars, subscriptions, signalVars>>
  BY <1>1 DEF loadVars, signalVars
<1>2. CASE ~UNCHANGED <<loadVars, subscriptions, signalVars>>
  <2>1. \E a : initialized' = [initialized EXCEPT ![q] = a]
    BY <1>2, Zenon DEF Unload
  <2>2. \E b : subscriptions' = [subscriptions EXCEPT ![q] = b]
    BY <1>2, Zenon DEF Unload
  <2>3. \E c : usedHandler' = [usedHandler EXCEPT ![q] = c]
    BY <1>2, Zenon DEF Unload
  <2>4. QED
    BY <2>1, <2>2, <2>3 DEF ProvidersTyped
<1>3. QED
  BY <1>1, <1>2

\* A step of a thread that is about another provider leaves this one, ...
LEMMA OtherUnmoved ==
    ASSUME ProvidersTyped, ManagerTyped, ThreadsTyped,
           NEW t \in Threads, Start(t) \/ Step(t), NEW p \in Providers, AboutOther(t, p)
    PROVE  Unmoved(p)
<1> DEFINE q == thread[t].provider
<1>1. thread[t].at \in Located => q \in Providers /\ q # p
  BY ThreadPlaced DEF Placed, AboutOther
<1>2. CASE \/ Start(t) \/ LookupModule(t) \/ Begin(t) \/ EndOperation(t) \/ TestComplete(t)
           \/ EnableIndications(t) \/ WaitForOperations(t) \/ SetInitComplete(t)
           \/ List(t) \/ Collect(t) \/ AllVisited(t)
           \/ \E r \in Providers : TestSubscriptions(t, r)
  BY <1>2
  DEF Start, LookupModule, Begin, EndOperation, TestComplete, EnableIndications,
      WaitForOperations, SetInitComplete, List, Collect, AllVisited, TestSubscriptions,
      Unmoved, tableVars, loadVars, countVars, signalVars, End
<1>3. CASE Lookup(t)
  <2>1. q \in Providers /\ q # p
    BY <1>1, <1>3 DEF Lookup, Located
  <2>2. /\ cached' = cached \cup {q} /\ UNCHANGED <<loadVars, subscriptions, signalVars>>
        /\ \E b : complete' = [complete EXCEPT ![q] = b]
    BY <1>3 DEF Lookup
  <2>3. QED
    BY <2>1, <2>2 DEF Unmoved, ManagerTyped, loadVars, signalVars
<1>4. CASE InitProvider(t)
  <2>1. q \in Providers /\ q # p
    BY <1>1, <1>4 DEF InitProvider, Located
  <2>2. /\ UNCHANGED <<cached, complete, subscriptions, signalVars>>
        /\ UNCHANGED initialized \/ \E b : initialized' = [initialized EXCEPT ![q] = b]
    BY <1>4 DEF InitProvider, tableVars, loadVars, countVars
  <2>3. QED
    BY <2>1, <2>2 DEF Unmoved, ProvidersTyped, signalVars
<1>5. CASE CountCreated(t) \/ CountDeleted(t) \/ ClearIndications(t)
  <2>1. q \in Providers /\ q # p
    BY <1>1, <1>5
    DEF CountCreated, CountDeleted, ClearIndications, Located, Inside, At
  <2>2. /\ UNCHANGED <<cached, complete, initialized, usedHandler>>
        /\ \E b : subscriptions' = [subscriptions EXCEPT ![q] = b]
    BY <1>5
    DEF CountCreated, CountDeleted, ClearIndications, tableVars, loadVars, signalVars, End
  <2>3. QED
    BY <2>1, <2>2 DEF Unmoved, ProvidersTyped
<1>6. CASE CallEnable(t) \/ CallDisable(t)
  <2>1. q \in Providers /\ q # p
    BY <1>1, <1>6 DEF CallEnable, CallDisable, Located, Inside
  <2>2. /\ UNCHANGED <<cached, complete, initialized, subscriptions>>
        /\ UNCHANGED usedHandler \/ \E b : usedHandler' = [usedHandler EXCEPT ![q] = b]
    BY <1>6 DEF CallEnable, CallDisable, tableVars, loadVars, countVars, End
  <2>3. QED
    BY <2>1, <2>2 DEF Unmoved, ProvidersTyped
<1>7. CASE DisableProvider(t)
  <2>1. q \in Providers /\ q # p
    BY <1>1, <1>7 DEF DisableProvider, Located, At
  <2>2. /\ UNCHANGED <<cached, complete>>
        /\ Unload(q) \/ UNCHANGED <<loadVars, subscriptions, signalVars>>
    BY <1>7 DEF DisableProvider, tableVars
  <2>3. QED
    BY <2>1, <2>2, UnloadOther DEF Unmoved, loadVars, signalVars
<1>8. ASSUME NEW r \in Providers, UnloadIdle(t, r) \/ StopProvider(t, r)
      PROVE  Unmoved(p)
  <2>1. r # p
    BY <1>8 DEF AboutOther
  <2>2. /\ UNCHANGED <<cached, complete>>
        /\ Unload(r) \/ UNCHANGED <<loadVars, subscriptions, signalVars>>
    BY <1>8 DEF UnloadIdle, StopProvider, tableVars
  <2>3. QED
    BY <2>1, <2>2, UnloadOther DEF Unmoved, loadVars, signalVars
<1>9. ASSUME NEW r \in Providers, ServiceDisabled(t, r)
      PROVE  Unmoved(p)
  <2>1. r # p
    BY <1>9 DEF AboutOther
  <2>2. /\ UNCHANGED <<cached, loadVars, subscriptions, signalVars>>
        /\ \E b : complete' = [complete EXCEPT ![r] = b]
    BY <1>9, Zenon DEF ServiceDisabled, tableVars, countVars
  <2>3. QED
    BY <2>1, <2>2 DEF Unmoved, ManagerTyped, loadVars, signalVars
<1>10. CASE SetComplete(t)
  <2>1. q \in Providers /\ q # p
    BY <1>1, <1>10 DEF SetComplete, Located, At
  <2>2. /\ UNCHANGED <<cached, loadVars, subscriptions, signalVars>>
        /\ complete' = [complete EXCEPT ![q] = TRUE]
    BY <1>10 DEF SetComplete, tableVars, countVars
  <2>3. QED
    BY <2>1, <2>2 DEF Unmoved, ManagerTyped, loadVars, signalVars
<1>11. QED
  BY <1>2, <1>3, <1>4, <1>5, <1>6, <1>7, <1>8, <1>9, <1>10 DEF Step

\* ... and what the indication service accepted of it.
LEMMA OtherAccepted ==
    ASSUME ManagerTyped, NEW t \in Threads, Step(t), NEW p \in Providers, AboutOther(t, p)
    PROVE  accepted'[p] = accepted[p]
<1>1. \/ UNCHANGED accepted
      \/ /\ thread[t].at \in Located
         /\ \E b : accepted' = [accepted EXCEPT ![thread[t].provider] = b]
  <2>1. CASE DisableProvider(t)
    BY <2>1, Zenon DEF DisableProvider, At, Located
  <2>2. CASE Lookup(t) \/ CountCreated(t)
    BY <2>2 DEF Lookup, CountCreated, At, Located, Inside
  <2>3. QED
    BY <2>1, <2>2
    DEF Step, LookupModule, InitProvider, Begin, EndOperation, CountDeleted, TestComplete,
        EnableIndications, CallEnable, CallDisable, ClearIndications, WaitForOperations,
        SetInitComplete, List, Collect, AllVisited, SetComplete, UnloadIdle,
        TestSubscriptions, ServiceDisabled, StopProvider, countVars
<1>2. QED
  BY <1>1 DEF AboutOther, ManagerTyped

\* Nobody counts a subscription of the provider less where none is deleted.
LEMMA NoneEnded ==
    ASSUME NEW p, ~Deleting(p)
    PROVE  Ended(p) = {} /\ Cardinality(Ended(p)) = 0
<1>1. Ended(p) = {}
  BY DEF Deleting, Ended, Uncounted
<1>2. QED
  BY <1>1, FS_EmptySet

\* The requests that end a subscription are all counted, because the provider
\* stays initialized for them.
LEMMA EndedKept ==
    ASSUME ThreadsTyped, NEW t \in Threads, Step(t), NEW p \in Providers, CountRight(p),
           ~(CountDeleted(t) /\ thread[t].provider = p)
    PROVE  Ended(p)' = Ended(p) /\ (~Deleting(p) => ~Deleting(p)')
<1>1. \A u \in Threads \ {t} : thread'[u] = thread[u]
  BY OthersStay
<1>2. t \in Ended(p)' => t \in Ended(p)
  BY RequestStays DEF Ended, Uncounted, SameRequest
<1>3. ASSUME t \in Ended(p) PROVE t \in Ended(p)'
  <2>1. thread[t].job = "delete" /\ thread[t].provider = p /\ thread[t].at \in Before
    BY <1>3 DEF Ended, Uncounted
  <2>2. initialized[p]
    BY <2>1 DEF CountRight, Deleting
  <2>3. ~CountCreated(t) /\ ~CountDeleted(t)
    BY <2>1 DEF CountCreated, At
  <2>4. SameRequest(t) /\ thread'[t].at \in Before
    BY <2>1, <2>2, <2>3, RequestGoes
  <2>5. QED
    BY <2>1, <2>4 DEF Ended, Uncounted, SameRequest
<1>4. ASSUME NEW u \in Threads \ {t} PROVE u \in Ended(p)' <=> u \in Ended(p)
  BY <1>1 DEF Ended, Uncounted
<1>5. Ended(p)' = Ended(p)
  BY <1>2, <1>3, <1>4 DEF Ended
<1>6. ASSUME Deleting(p)' PROVE Deleting(p)
  BY <1>1, <1>6, RequestStays DEF Deleting, SameRequest
<1>7. QED
  BY <1>5, <1>6

\* The count stays right where neither it nor what it counts changes.
LEMMA RightKept ==
    ASSUME NEW p, CountRight(p),
           subscriptions'[p] = subscriptions[p],
           accepted'[p] = accepted[p] \/ (accepted'[p] = 0 /\ ~initialized[p]),
           Ended(p)' = Ended(p), ~Deleting(p) => ~Deleting(p)',
           initialized[p] => initialized'[p]
    PROVE  CountRight(p)'
BY DEF CountRight

\* A provider that is unloaded sends no indications, and a call that throws leaves
\* it loaded.
LEMMA UnloadEffects ==
    ASSUME ProvidersTyped, NEW p \in Providers, Unload(p), ~Pending(p), Enabled(p)
    PROVE  /\ usedHandler'[p] = 0
           /\ subscriptions'[p] \in {0, subscriptions[p]}
           /\ life'[p] # "terminated" => ~initialized'[p] /\ subscriptions'[p] = 0
<1>1. PICK silenced \in BOOLEAN, terminated \in BOOLEAN :
         /\ usedHandler' = [usedHandler EXCEPT ![p] = IF enabled[p] THEN Silent(p) ELSE @]
         /\ subscriptions' = [subscriptions EXCEPT ![p] =
                                  IF (enabled[p] /\ silenced) \/ terminated THEN 0 ELSE @]
         /\ life' = [life EXCEPT ![p] = IF terminated THEN "none" ELSE "terminated"]
         /\ initialized' = [initialized EXCEPT ![p] = ~terminated]
  BY DEF Unload
<1>2. usedHandler'[p] = IF enabled[p] THEN 0 ELSE usedHandler[p]
  BY <1>1 DEF ProvidersTyped, Silent
<1>3. usedHandler'[p] = 0
  BY <1>2 DEF Enabled
<1>4. subscriptions'[p] \in {0, subscriptions[p]} /\ (terminated => subscriptions'[p] = 0)
  BY <1>1 DEF ProvidersTyped
<1>5. life'[p] = IF terminated THEN "none" ELSE "terminated"
  BY <1>1 DEF ProvidersTyped
<1>6. initialized'[p] = ~terminated
  BY <1>1, Zenon DEF ProvidersTyped
<1>7. QED
  BY <1>3, <1>4, <1>5, <1>6

\* The count of subscriptions is changed with what the indication service accepts, ...
LEMMA CreatedRight ==
    ASSUME SignalInv, FollowInv, NEW t \in Threads, CountCreated(t),
           NEW p \in Providers, p = thread[t].provider, p \notin disturbed'
    PROVE  /\ CountRight(p)'
           /\ subscriptions'[p] = subscriptions[p] + 1
           /\ Disturb(t, p)
<1>1. /\ ThreadsTyped /\ ManagerTyped /\ ProvidersTyped /\ BusyLoaded
      /\ p \notin disturbed
  BY DisturbedKept DEF SignalInv, LoadInv, TypeInv, Step
<1>2. CountRight(p) /\ Bounded
  BY <1>1 DEF FollowInv
<1>3. /\ subscriptions' = [subscriptions EXCEPT ![p] = (@ + 1) % CountRange]
      /\ accepted' = [accepted EXCEPT ![p] = @ + 1] /\ Disturb(t, p)
  BY DEF CountCreated
<1>4. UNCHANGED initialized
  BY DEF CountCreated, loadVars, End
<1>5. Step(t) /\ ~CountDeleted(t)
  BY DEF Step, CountCreated, CountDeleted, At
<1>6. Ended(p)' = Ended(p) /\ (~Deleting(p) => ~Deleting(p)')
  BY <1>1, <1>2, <1>5, EndedKept
<1>7. Cardinality(Ended(p)) <= Cardinality(Changing(p)) - 1
  <2>1. t \in Changing(p) /\ t \notin Ended(p) /\ Ended(p) \subseteq Changing(p)
    BY DEF Changing, Ended, Uncounted, CountCreated, At, Before
  <2>2. Ended(p) \subseteq Changing(p) \ {t}
    BY <2>1
  <2>3. /\ IsFiniteSet(Changing(p) \ {t})
        /\ Cardinality(Changing(p) \ {t}) = Cardinality(Changing(p)) - 1
    BY <2>1, RequestsFinite, FS_RemoveElement
  <2>4. QED
    BY <2>2, <2>3, FS_Subset
<1>8. subscriptions[p] + 1 \in 0..(CountRange - 1)
  <2>1. subscriptions[p] = accepted[p] + Cardinality(Ended(p))
    BY <1>2 DEF CountRight
  <2>2. accepted[p] + Cardinality(Changing(p)) <= jobs /\ jobs <= MaxJobs
    BY <1>1, <1>2, LifecycleAssumption DEF Bounded, ManagerTyped
  <2>3. accepted[p] \in Nat /\ jobs \in Nat
    BY <1>1, LifecycleAssumption DEF ManagerTyped
  <2>4. QED
    BY <1>7, <2>1, <2>2, <2>3, RequestsFinite, LifecycleAssumption
<1>9. (subscriptions[p] + 1) % CountRange = subscriptions[p] + 1
  BY <1>8, LifecycleAssumption
<1>10. subscriptions'[p] = subscriptions[p] + 1 /\ accepted'[p] = accepted[p] + 1
  BY <1>1, <1>3, <1>9 DEF ProvidersTyped, ManagerTyped
<1>11. initialized'[p]
  BY <1>1, <1>4 DEF BusyLoaded, CountCreated, At, Inside
<1>12. QED
  BY <1>1, <1>2, <1>3, <1>6, <1>10, <1>11, RequestsFinite
  DEF CountRight, ProvidersTyped, ManagerTyped

\* ... in a deletion as in a creation.
LEMMA DeletedRight ==
    ASSUME SignalInv, FollowInv, NEW t \in Threads, CountDeleted(t),
           NEW p \in Providers, p = thread[t].provider, p \notin disturbed'
    PROVE  /\ CountRight(p)'
           /\ subscriptions[p] > 0 /\ subscriptions'[p] = subscriptions[p] - 1
           /\ Disturb(t, p)
<1>1. /\ ThreadsTyped /\ ManagerTyped /\ ProvidersTyped /\ BusyLoaded
      /\ p \notin disturbed
  BY DisturbedKept DEF SignalInv, LoadInv, TypeInv, Step
<1>2. CountRight(p)
  BY <1>1 DEF FollowInv
<1>3. /\ subscriptions' = [subscriptions EXCEPT ![p] = (@ - 1) % CountRange]
      /\ Disturb(t, p) /\ UNCHANGED accepted
  BY DEF CountDeleted
<1>4. UNCHANGED initialized
  BY DEF CountDeleted, loadVars, End
<1>5. \A u \in Threads \ {t} : thread'[u] = thread[u]
  BY <1>1, OthersStay DEF Step
<1>6. t \in Ended(p) /\ t \notin Ended(p)'
  <2>1. thread'[t].at \notin Before
    BY <1>1, CountEffects
  <2>2. QED
    BY <2>1 DEF Ended, Uncounted, CountDeleted, At, Before
<1>7. Ended(p)' = Ended(p) \ {t}
  BY <1>5, <1>6 DEF Ended, Uncounted
<1>8. /\ Cardinality(Ended(p)') = Cardinality(Ended(p)) - 1
      /\ Cardinality(Ended(p)') \in Nat
  <2>1. /\ IsFiniteSet(Ended(p) \ {t})
        /\ Cardinality(Ended(p) \ {t}) = Cardinality(Ended(p)) - 1
    BY <1>6, RequestsFinite, FS_RemoveElement
  <2>2. Cardinality(Ended(p) \ {t}) \in Nat
    BY <2>1, FS_CardinalityType
  <2>3. QED
    BY <1>7, <2>1, <2>2
<1>9. subscriptions[p] = accepted[p] + Cardinality(Ended(p)) /\ accepted[p] \in Nat
  BY <1>1, <1>2 DEF CountRight, ManagerTyped
<1>10. subscriptions[p] > 0 /\ subscriptions[p] - 1 \in 0..(CountRange - 1)
  BY <1>1, <1>8, <1>9, RequestsFinite, LifecycleAssumption DEF ProvidersTyped
<1>11. (subscriptions[p] - 1) % CountRange = subscriptions[p] - 1
  BY <1>10, LifecycleAssumption
<1>12. subscriptions'[p] = subscriptions[p] - 1 /\ accepted'[p] = accepted[p]
  BY <1>1, <1>3, <1>11 DEF ProvidersTyped
<1>13. initialized'[p]
  BY <1>1, <1>4 DEF BusyLoaded, CountDeleted, At, Inside
<1>14. QED
  BY <1>3, <1>8, <1>9, <1>10, <1>12, <1>13, RequestsFinite DEF CountRight

\* A provider is disabled, or unloaded when it is idle, without subscriptions.
LEMMA UnloadedRight ==
    ASSUME SignalInv, FollowInv, NEW t \in Threads,
           NEW p \in Providers, p \notin disturbed',
           \/ DisableProvider(t) /\ thread[t].provider = p
           \/ UnloadIdle(t, p)
    PROVE  /\ CountRight(p)'
           /\ \/ UNCHANGED <<subscriptions, usedHandler>>
              \/ ~Pending(p) /\ Unlocked(p) /\ subscriptions'[p] = 0 /\ usedHandler'[p] = 0
<1>1. /\ ThreadsTyped /\ ManagerTyped /\ ProvidersTyped /\ Step(t)
      /\ p \notin disturbed /\ Enabled(p)
  BY DisturbedKept DEF SignalInv, LoadInv, TypeInv, Step
<1>2. CountRight(p)
  BY <1>1 DEF FollowInv
<1>3. ~CountDeleted(t)
  BY DEF CountDeleted, DisableProvider, UnloadIdle, Visit, At
<1>4. Ended(p)' = Ended(p) /\ (~Deleting(p) => ~Deleting(p)')
  BY <1>1, <1>2, <1>3, EndedKept
<1>5. accepted[p] \in Nat /\ subscriptions[p] \in Nat
  BY <1>1, LifecycleAssumption DEF ManagerTyped, ProvidersTyped
<1>6. CASE DisableProvider(t) /\ thread[t].provider = p /\ initialized[p]
  <2>1. ~Pending(p) /\ ~Deleting(p) /\ life'[p] # "terminated" /\ Unload(p) /\ Unlocked(p)
    BY <1>6 DEF DisableProvider
  <2>2. usedHandler'[p] = 0 /\ ~initialized'[p] /\ subscriptions'[p] = 0
    BY <1>1, <2>1, UnloadEffects
  <2>3. accepted'[p] = 0
    BY <1>1, <1>6, <2>1 DEF DisableProvider, ManagerTyped
  <2>4. Cardinality(Ended(p)') = 0
    BY <1>4, <2>1, NoneEnded
  <2>5. QED
    BY <1>4, <2>1, <2>2, <2>3, <2>4 DEF CountRight
<1>7. CASE DisableProvider(t) /\ thread[t].provider = p /\ ~initialized[p]
  <2>1. UNCHANGED <<loadVars, subscriptions, signalVars>>
    BY <1>7 DEF DisableProvider
  <2>2. accepted'[p] \in {accepted[p], 0}
    <3>1. ~CountCreated(t)
      BY <1>7 DEF CountCreated, DisableProvider, At
    <3>2. QED
      BY <1>1, <3>1, AcceptedFalls
  <2>3. QED
    BY <1>2, <1>4, <1>7, <2>1, <2>2, RightKept DEF loadVars, signalVars
<1>8. CASE UnloadIdle(t, p) /\ UNCHANGED <<loadVars, subscriptions, signalVars>>
  BY <1>2, <1>4, <1>8, RightKept DEF UnloadIdle, loadVars, signalVars
<1>9. CASE /\ UnloadIdle(t, p)
           /\ ~UNCHANGED <<loadVars, subscriptions, signalVars, disturbed>>
  <2>1. /\ IsIdle(p) /\ Unload(p) /\ Unlocked(p) /\ UNCHANGED accepted
        /\ ~(accepted[p] > 0 \/ Deleting(p))
    BY <1>9 DEF UnloadIdle, Visit
  <2>2. accepted[p] = 0 /\ ~Deleting(p) /\ ~Pending(p)
    BY <1>5, <2>1 DEF IsIdle
  <2>3. Cardinality(Ended(p)) = 0
    BY <2>2, NoneEnded
  <2>4. subscriptions[p] = 0
    BY <1>2, <2>2, <2>3 DEF CountRight
  <2>5. usedHandler'[p] = 0 /\ subscriptions'[p] = 0
    BY <1>1, <2>1, <2>2, <2>4, UnloadEffects
  <2>6. QED
    BY <1>4, <2>1, <2>2, <2>3, <2>5 DEF CountRight
<1>10. QED
  BY <1>6, <1>7, <1>8, <1>9

\* Every step keeps the count of subscriptions right.
LEMMA StepRight ==
    ASSUME SignalInv, FollowInv, NEW t \in Threads, Start(t) \/ Step(t),
           NEW p \in Providers, p \notin disturbed'
    PROVE  CountRight(p)'
<1>1. /\ ThreadsTyped /\ ManagerTyped /\ ProvidersTyped
      /\ p \notin disturbed /\ Enabled(p)
  BY DisturbedKept DEF SignalInv, LoadInv, TypeInv
<1>2. CountRight(p) /\ Follows(p)
  BY <1>1 DEF FollowInv
<1>3. \A u \in Threads \ {t} : thread'[u] = thread[u]
  BY <1>1, OthersStay
<1>4. CASE Start(t)
  <2>1. thread[t] = None /\ t \notin Ended(p)
    BY <1>1, <1>4, StartEffects DEF None, Ended
  <2>2. UNCHANGED <<initialized, subscriptions>>
    BY <1>4 DEF Start, loadVars
  <2>3. CASE thread'[t].job = "delete" /\ thread'[t].provider = p
    <3>1. /\ thread'[t].at = "lookup" /\ accepted[p] > 0
          /\ accepted' = [accepted EXCEPT ![p] = @ - 1]
      BY <1>1, <1>4, <2>3, StartEffects
    <3>2. Ended(p)' = Ended(p) \cup {t}
      BY <1>3, <2>1, <2>3, <3>1 DEF Ended, Uncounted, Before
    <3>3. Cardinality(Ended(p) \cup {t}) = Cardinality(Ended(p)) + 1
      BY <2>1, RequestsFinite, FS_AddElement
    <3>4. initialized[p]
      BY <1>2, <3>1 DEF CountRight
    <3>5. accepted'[p] = accepted[p] - 1 /\ accepted[p] \in Nat
      BY <1>1, <3>1 DEF ManagerTyped
    <3>6. QED
      BY <1>2, <2>2, <3>2, <3>3, <3>4, <3>5, RequestsFinite DEF CountRight
  <2>4. CASE ~(thread'[t].job = "delete" /\ thread'[t].provider = p)
    <3>1. accepted'[p] = accepted[p]
      BY <1>1, <1>4, <2>4, StartEffects DEF ManagerTyped
    <3>2. Ended(p)' = Ended(p)
      BY <1>3, <2>1, <2>4 DEF Ended, Uncounted
    <3>3. ~Deleting(p) => ~Deleting(p)'
      BY <1>3, <2>4 DEF Deleting
    <3>4. QED
      BY <1>2, <2>2, <3>1, <3>2, <3>3, RightKept
  <2>5. QED
    BY <2>3, <2>4
<1>5. ASSUME Step(t), ~(CountDeleted(t) /\ thread[t].provider = p),
             subscriptions'[p] = subscriptions[p],
             accepted'[p] = accepted[p] \/ (accepted'[p] = 0 /\ ~initialized[p]),
             initialized[p] => initialized'[p]
      PROVE  CountRight(p)'
  BY <1>1, <1>2, <1>5, EndedKept, RightKept
<1>6. CASE Step(t) /\ AboutOther(t, p)
  <2>1. Unmoved(p) /\ accepted'[p] = accepted[p]
    BY <1>1, <1>6, OtherUnmoved, OtherAccepted
  <2>2. ~(CountDeleted(t) /\ thread[t].provider = p)
    BY <1>6 DEF AboutOther, CountDeleted, At, Located, Inside
  <2>3. QED
    BY <1>5, <1>6, <2>1, <2>2 DEF Unmoved
<1>7. CASE CountCreated(t) /\ thread[t].provider = p
  BY <1>7, CreatedRight
<1>8. CASE CountDeleted(t) /\ thread[t].provider = p
  BY <1>8, DeletedRight
<1>9. CASE (DisableProvider(t) /\ thread[t].provider = p) \/ UnloadIdle(t, p)
  BY <1>9, UnloadedRight
<1>10. CASE ClearIndications(t) /\ thread[t].provider = p
  <2>1. thread[t].job = "delete" /\ Signalling(t, p)
    BY <1>1, <1>10, ThreadPlaced DEF ClearIndications, Placed, Signalling
  <2>2. subscriptions[p] = 0
    BY <1>2, <2>1 DEF Follows, Knows
  <2>3. /\ subscriptions' = [subscriptions EXCEPT ![p] = 0]
        /\ UNCHANGED <<accepted, initialized>> /\ thread[t].at = "clear"
    BY <1>10 DEF ClearIndications, End
  <2>4. subscriptions'[p] = subscriptions[p]
    BY <1>1, <2>2, <2>3 DEF ProvidersTyped
  <2>5. Step(t) /\ ~CountDeleted(t)
    BY <1>10, <2>3 DEF Step, CountDeleted, At
  <2>6. QED
    BY <1>5, <2>3, <2>4, <2>5
<1>11. CASE Lookup(t) /\ thread[t].provider = p
  <2>1. /\ UNCHANGED <<initialized, subscriptions>> /\ thread[t].at = "lookup"
        /\ \/ UNCHANGED accepted
           \/ accepted' = [accepted EXCEPT ![p] = 0] /\ ~initialized[p]
    BY <1>11 DEF Lookup, loadVars
  <2>2. Step(t) /\ ~CountDeleted(t)
    BY <1>11, <2>1 DEF Step, CountDeleted, At
  <2>3. QED
    BY <1>1, <1>5, <2>1, <2>2 DEF ManagerTyped
<1>12. CASE InitProvider(t) /\ thread[t].provider = p
  <2>1. /\ UNCHANGED <<accepted, subscriptions>> /\ thread[t].at = "init"
        /\ UNCHANGED initialized \/ initialized' = [initialized EXCEPT ![p] = TRUE]
    BY <1>12 DEF InitProvider, loadVars, countVars
  <2>2. Step(t) /\ ~CountDeleted(t)
    BY <1>12, <2>1 DEF Step, CountDeleted, At
  <2>3. initialized[p] => initialized'[p]
    BY <1>1, <2>1 DEF ProvidersTyped
  <2>4. QED
    BY <1>5, <2>1, <2>2, <2>3
<1>13. CASE /\ thread[t].provider = p
            /\ \/ LookupModule(t) \/ Begin(t) \/ EndOperation(t) \/ TestComplete(t)
               \/ EnableIndications(t) \/ CallEnable(t) \/ CallDisable(t)
               \/ WaitForOperations(t) \/ SetComplete(t)
  <2>1. UNCHANGED <<initialized, subscriptions, accepted>>
    BY <1>13
    DEF LookupModule, Begin, EndOperation, TestComplete, EnableIndications, CallEnable,
        CallDisable, WaitForOperations, SetComplete, End, loadVars, countVars
  <2>2. Step(t) /\ ~CountDeleted(t)
    BY <1>13
    DEF Step, LookupModule, Begin, EndOperation, TestComplete, EnableIndications, CallEnable,
        CallDisable, WaitForOperations, SetComplete, CountDeleted, At
  <2>3. QED
    BY <1>5, <2>1, <2>2
<1>14. CASE TestSubscriptions(t, p) \/ ServiceDisabled(t, p)
  <2>1. UNCHANGED <<initialized, subscriptions, accepted>>
    BY <1>14 DEF TestSubscriptions, ServiceDisabled, loadVars, countVars
  <2>2. Step(t) /\ ~CountDeleted(t)
    BY <1>14 DEF Step, TestSubscriptions, ServiceDisabled, CountDeleted, Visit, At
  <2>3. QED
    BY <1>5, <2>1, <2>2
<1>15. ~StopProvider(t, p)
  BY DEF StopProvider
<1>16. CASE Step(t) /\ thread[t].at \in Located /\ thread[t].provider = p
  BY <1>7, <1>8, <1>9, <1>10, <1>11, <1>12, <1>13, <1>16
  DEF Step, SetInitComplete, List, Collect, AllVisited, UnloadIdle, TestSubscriptions,
      ServiceDisabled, StopProvider, Visit, At, Located, Inside
<1>17. QED
  BY <1>4, <1>6, <1>9, <1>14, <1>15, <1>16 DEF AboutOther

\* A provider is told, or not to be told any more, in one of two steps.
LEMMA ToldBegins ==
    ASSUME ThreadsTyped, NEW t \in Threads, Start(t) \/ Step(t), NEW p \in cached,
           Told(p)', ~Told(p)
    PROVE  \/ SetComplete(t) /\ thread[t].provider = p
           \/ TestSubscriptions(t, p) /\ ~initialized[p]
<1>1. \A u \in Threads \ {t} : thread'[u] = thread[u]
  BY OthersStay
<1>2. /\ thread[t].job = "complete"
      /\ thread[t].at \in {"start", "list"} \/ p \in thread[t].left
      /\ thread'[t].job = "complete" =>
            thread'[t].at \notin {"start", "list"} /\ p \notin thread'[t].left
  BY <1>1 DEF Told
<1>3. thread[t] \in ThreadRecord /\ Placed(thread[t])
  BY ThreadPlaced
<1>4. ~Start(t)
  BY <1>2 DEF Start, None
<1>5. thread[t].at \in {"none", "enabling", "enable", "flag", "start", "list", "collect", "visit"}
  BY <1>2, <1>3 DEF Placed, ThreadRecord, Places, Requests
<1>6. CASE SetInitComplete(t)
  <2>1. Goto(t, "list")
    BY <1>6 DEF SetInitComplete
  <2>2. QED
    BY <1>2, <2>1, ThreadEffects DEF SameRequest
<1>7. CASE List(t)
  BY <1>2, <1>7, ThreadEffects DEF SameRequest
<1>8. CASE EnableIndications(t)
  <2>1. thread[t].at = "enabling"
    BY <1>8 DEF EnableIndications
  <2>2. QED
    BY <1>2, <1>8, <2>1, ThreadEffects DEF SameRequest
<1>9. CASE CallEnable(t)
  <2>1. thread[t].at = "enable" /\ Goto(t, "flag")
    BY <1>2, <1>9 DEF CallEnable
  <2>2. QED
    BY <1>2, <2>1, ThreadEffects DEF SameRequest
<1>10. CASE AllVisited(t)
  BY <1>2, <1>10 DEF AllVisited
<1>11. CASE SetComplete(t)
  <2>1. thread[t].at = "flag"
    BY <1>11 DEF SetComplete, At
  <2>2. QED
    BY <1>2, <1>11, <2>1, ThreadEffects
<1>12. ASSUME NEW q \in Providers, TestSubscriptions(t, q)
       PROVE  q = p /\ ~initialized[q]
  BY <1>2, <1>12, TestEffects, ThreadEffects DEF SameRequest
<1>13. ASSUME NEW q \in Providers,
              UnloadIdle(t, q) \/ ServiceDisabled(t, q) \/ StopProvider(t, q)
       PROVE  FALSE
  BY <1>2, <1>13 DEF UnloadIdle, ServiceDisabled, StopProvider, Visit, At
<1>14. QED
  BY <1>2, <1>4, <1>5, <1>6, <1>7, <1>8, <1>9, <1>10, <1>11, <1>12, <1>13
  DEF Step, Lookup, LookupModule, InitProvider, Begin, EndOperation, CountCreated,
      CountDeleted, TestComplete, CallDisable, ClearIndications, WaitForOperations,
      DisableProvider, Collect, At, Requesting

\* A provider is not told otherwise while the initialization is complete.
LEMMA CompleteKept ==
    ASSUME ThreadsTyped, ManagerTyped, Disabling,
           NEW t \in Threads, Start(t) \/ Step(t), NEW p \in cached,
           initComplete, complete[p]
    PROVE  complete'[p]
<1>1. p \in Providers /\ complete \in [Providers -> BOOLEAN]
  BY DEF ManagerTyped, CachedTyped
<1>2. CASE Lookup(t)
  <2>1. complete' = [complete EXCEPT ![thread[t].provider] =
                        IF thread[t].provider \in cached THEN @ ELSE Captured]
    BY <1>2 DEF Lookup
  <2>2. QED
    BY <1>1, <2>1
<1>3. CASE SetComplete(t)
  <2>1. complete' = [complete EXCEPT ![thread[t].provider] = TRUE]
    BY <1>3 DEF SetComplete
  <2>2. QED
    BY <1>1, <2>1
<1>4. ASSUME NEW q \in Providers, ServiceDisabled(t, q) PROVE FALSE
  BY <1>4 DEF ServiceDisabled, Visit, At, Disabling
<1>5. CASE UNCHANGED complete
  BY <1>5
<1>6. QED
  BY <1>2, <1>3, <1>4, <1>5
  DEF Start, Step, LookupModule, InitProvider, Begin, EndOperation, CountCreated,
      CountDeleted, TestComplete, EnableIndications, CallEnable, CallDisable,
      ClearIndications, WaitForOperations, DisableProvider, SetInitComplete, List, Collect,
      AllVisited, UnloadIdle, TestSubscriptions, StopProvider

\* Every step keeps the providers told of the initialization.
LEMMA StepReady ==
    ASSUME SignalInv, FollowInv, NEW t \in Threads, Start(t) \/ Step(t),
           NEW p \in Providers, p \notin disturbed'
    PROVE  Ready(p)'
<1>1. ThreadsTyped /\ ManagerTyped /\ Disabling /\ p \notin disturbed
  BY DisturbedKept DEF SignalInv, LoadInv, TypeInv, FollowInv
<1>2. Ready(p)
  BY <1>1 DEF FollowInv
<1> SUFFICES ASSUME initComplete', p \in cached', Told(p)'
             PROVE  complete'[p]
  BY DEF Ready
<1>3. initComplete
  <2>1. CASE SetInitComplete(t)
    <3>1. Goto(t, "list") /\ initComplete' = (thread[t].job = "complete")
      BY <2>1 DEF SetInitComplete
    <3>2. thread'[t].at = "list" /\ thread'[t].job = thread[t].job
      BY <1>1, <3>1, ThreadEffects DEF SameRequest
    <3>3. thread[t].job # "complete"
      BY <3>2 DEF Told
    <3>4. QED
      BY <3>1, <3>3, Zenon
  <2>2. QED
    BY <2>1, CompletedBy
<1>4. CASE p \notin cached
  <2>1. Lookup(t)
    BY <1>4
    DEF Start, Step, LookupModule, InitProvider, Begin, EndOperation, CountCreated,
        CountDeleted, TestComplete, EnableIndications, CallEnable, CallDisable,
        ClearIndications, WaitForOperations, DisableProvider, SetInitComplete, List, Collect,
        AllVisited, SetComplete, UnloadIdle, TestSubscriptions, ServiceDisabled,
        StopProvider, tableVars
  <2>2. thread[t].provider = p /\ complete' = [complete EXCEPT ![p] = initComplete]
    BY <1>4, <2>1 DEF Lookup, Captured
  <2>3. QED
    BY <1>1, <1>3, <2>2 DEF ManagerTyped
<1>5. CASE p \in cached /\ Told(p)
  <2>1. complete[p]
    BY <1>2, <1>3, <1>5 DEF Ready
  <2>2. QED
    BY <1>1, <1>3, <1>5, <2>1, CompleteKept
<1>6. CASE p \in cached /\ ~Told(p)
  <2>1. CASE SetComplete(t) /\ thread[t].provider = p
    BY <1>1, <2>1 DEF SetComplete, ManagerTyped
  <2>2. CASE TestSubscriptions(t, p) /\ ~initialized[p]
    <3>1. complete[p] /\ UNCHANGED complete
      BY <2>2 DEF TestSubscriptions
    <3>2. QED
      BY <3>1
  <2>3. QED
    BY <1>1, <1>6, <2>1, <2>2, ToldBegins
<1>7. QED
  BY <1>4, <1>5, <1>6
-----------------------------------------------------------------------------
\* Nobody works on the indications of a provider that is not initialized, or that
\* no operation uses, when its status mutex is free.
LEMMA NobodySignals ==
    ASSUME ThreadsTyped, Counted, Holds, BusyLoaded, NEW p \in Providers, Unlocked(p),
           ~initialized[p] \/ ~Pending(p)
    PROVE  \A u \in Threads : ~Signalling(u, p)
<1>1. SUFFICES ASSUME NEW u \in Threads, Signalling(u, p) PROVE FALSE
  OBVIOUS
<1>2. thread[u].provider = p /\ thread[u].at \in Inside \cup {"flag"}
  BY <1>1 DEF Signalling, Inside
<1>3. CASE thread[u].at = "flag"
  <2>1. Ending(u)
    BY <1>3, ThreadPlaced DEF Placed, Ending
  <2>2. statusMutex[p] = u
    BY <1>2, <2>1 DEF Holds
  <2>3. QED
    BY <2>2, LifecycleAssumption DEF Unlocked
<1>4. CASE thread[u].at \in Inside
  <2>1. initialized[p] /\ InProvider(u, p)
    BY <1>2, <1>4 DEF BusyLoaded, InProvider
  <2>2. QED
    BY <2>1, IdleProvider
<1>5. QED
  BY <1>2, <1>3, <1>4

\* A thread that works on another provider does not come to this one.
LEMMA SignalsElsewhere ==
    ASSUME ThreadsTyped, NEW t \in Threads, Start(t) \/ Step(t), NEW p \in Providers,
           AboutOther(t, p)
    PROVE  ~Signalling(t, p) /\ ~Signalling(t, p)'
<1>1. ~Signalling(t, p)
  BY DEF AboutOther, Signalling, Located, Inside
<1>2. SUFFICES ASSUME Signalling(t, p)' PROVE FALSE
  BY <1>1
<1>3. /\ thread'[t].provider = p /\ thread'[t].at \in Inside \cup {"flag"}
      /\ thread'[t].at \notin {"calling", "visit", "none"}
  BY <1>2 DEF Signalling, Inside
<1>4. ~StaysIn(t) /\ ~BeginsIn(t)
  BY <1>3 DEF AboutOther, StaysIn, BeginsIn, Located
<1>5. TestsIn(t)
  BY <1>3, <1>4, Moves
<1>6. thread[t].at = "visit"
  BY <1>5 DEF TestsIn
<1>7. ~Done(t) /\ \A q : ~Visited(t, q)
  BY <1>3, <1>6, ThreadEffects DEF None
<1>8. \E q \in Providers : TestSubscriptions(t, q)
  BY <1>6, <1>7
  DEF Start, None, Step, Lookup, LookupModule, InitProvider, Begin, EndOperation,
      CountCreated, CountDeleted, TestComplete, EnableIndications, CallEnable, CallDisable,
      ClearIndications, WaitForOperations, DisableProvider, SetInitComplete, List, Collect,
      AllVisited, SetComplete, UnloadIdle, ServiceDisabled, StopProvider, At
<1>9. TestSubscriptions(t, p)
  BY <1>3, <1>7, <1>8, TestEffects
<1>10. QED
  BY <1>9 DEF AboutOther

\* A step that leaves a provider alone, ...
LEMMA FollowsKept ==
    ASSUME NEW t \in Threads, \A u \in Threads \ {t} : thread'[u] = thread[u],
           NEW p, Follows(p), ~Signalling(t, p), ~Signalling(t, p)',
           subscriptions'[p] = subscriptions[p], usedHandler'[p] = usedHandler[p],
           complete'[p] = complete[p]
    PROVE  Follows(p)'
<1>1. \A u \in Threads \ {t} : Signalling(u, p)' <=> Signalling(u, p)
  BY DEF Signalling
<1>2. ASSUME NEW u \in Threads, Signalling(u, p)' PROVE Knows(u, p)'
  <2>1. u # t /\ thread'[u] = thread[u] /\ Signalling(u, p)
    BY <1>1, <1>2
  <2>2. QED
    BY <2>1 DEF Follows, Knows
<1>3. (\A u \in Threads : ~Signalling(u, p)') => \A u \in Threads : ~Signalling(u, p)
  BY <1>1
<1>4. QED
  BY <1>2, <1>3 DEF Follows

\* ... one after which a thread works on its indications, ...
LEMMA FollowsBegun ==
    ASSUME NEW t \in Threads, OneSignals', NEW p \in Providers, p \notin disturbed',
           Signalling(t, p)', Knows(t, p)'
    PROVE  Follows(p)'
BY DEF OneSignals, Follows

\* ... and one after which nobody does.
LEMMA FollowsEnded ==
    ASSUME NEW t \in Threads, \A u \in Threads \ {t} : thread'[u] = thread[u],
           NEW p, \A u \in Threads \ {t} : ~Signalling(u, p), ~Signalling(t, p)',
           usedHandler'[p] # 0 <=> complete'[p] /\ subscriptions'[p] > 0
    PROVE  Follows(p)'
<1>1. \A u \in Threads : ~Signalling(u, p)'
  BY DEF Signalling
<1>2. QED
  BY <1>1 DEF Follows

\* A provider that is looked up the first time has no subscription.
LEMMA LookupFollows ==
    ASSUME SignalInv, FollowInv, NEW t \in Threads, Lookup(t),
           NEW p \in Providers, p = thread[t].provider, p \notin disturbed
    PROVE  Follows(p)'
<1>1. /\ ThreadsTyped /\ ManagerTyped /\ Counted /\ Holds /\ BusyLoaded
      /\ Listed /\ CountRight(p) /\ Follows(p)
  BY DEF SignalInv, LoadInv, TypeInv, FollowInv
<1>2. \A u \in Threads \ {t} : thread'[u] = thread[u]
  BY <1>1, OthersStay DEF Step
<1>3. /\ thread[t].at = "lookup" /\ Unlocked(p)
      /\ complete' = [complete EXCEPT ![p] = IF p \in cached THEN @ ELSE Captured]
      /\ UNCHANGED <<subscriptions, usedHandler>>
      /\ Done(t) \/ \E a \in {"begin", "module", "waiting"} : Goto(t, a)
  BY DEF Lookup, signalVars
<1>4. ~Signalling(t, p) /\ ~Signalling(t, p)'
  <2>1. thread'[t].at \in {"none", "begin", "module", "waiting"}
    BY <1>1, <1>3, ThreadEffects DEF None
  <2>2. QED
    BY <1>3, <2>1 DEF Signalling
<1>5. CASE p \in cached
  <2>1. complete'[p] = complete[p]
    BY <1>1, <1>3, <1>5 DEF ManagerTyped
  <2>2. QED
    BY <1>1, <1>2, <1>3, <1>4, <2>1, FollowsKept
<1>6. CASE p \notin cached
  <2>1. ~initialized[p]
    BY <1>1, <1>6 DEF Listed
  <2>2. \A u \in Threads : ~Signalling(u, p)
    BY <1>1, <1>3, <2>1, NobodySignals
  <2>3. subscriptions[p] = 0
    BY <1>1, <2>1, NoneEnded DEF CountRight
  <2>4. usedHandler[p] = 0
    BY <1>1, <2>2, <2>3 DEF Follows
  <2>5. QED
    BY <1>2, <1>3, <1>4, <2>2, <2>3, <2>4, FollowsEnded
<1>7. QED
  BY <1>5, <1>6

\* A subscription is counted, and the first and last one lead to its indications.
LEMMA CountFollows ==
    ASSUME SignalInv, FollowInv, NEW t \in Threads, CountCreated(t) \/ CountDeleted(t),
           NEW p \in Providers, p = thread[t].provider, p \notin disturbed', OneSignals'
    PROVE  Follows(p)'
<1>1. ThreadsTyped /\ ProvidersTyped /\ p \notin disturbed
  BY DisturbedKept DEF SignalInv, LoadInv, TypeInv, Step
<1>2. Follows(p)
  BY <1>1 DEF FollowInv
<1>3. \A u \in Threads \ {t} : thread'[u] = thread[u]
  BY <1>1, OthersStay DEF Step
<1>4. /\ UNCHANGED <<usedHandler, complete>> /\ subscriptions[p] \in Nat
      /\ thread[t].at = "calling"
  BY <1>1, LifecycleAssumption
  DEF CountCreated, CountDeleted, At, signalVars, ProvidersTyped
<1>5. Disturb(t, p)
  BY CreatedRight, DeletedRight
<1>6. \A u \in Threads : ~Signalling(u, p)
  BY <1>4, <1>5 DEF Disturb, Signalling
<1>7. usedHandler[p] # 0 <=> complete[p] /\ subscriptions[p] > 0
  BY <1>2, <1>6 DEF Follows
<1>8. Done(t) => ~Signalling(t, p)'
  BY <1>1, ThreadEffects DEF None, Signalling
<1>9. Goto(t, "testing") => Signalling(t, p)' /\ SameRequest(t) /\ thread'[t].at = "testing"
  BY <1>1, ThreadEffects DEF Signalling, SameRequest
<1>10. CASE CountCreated(t)
  <2>1. subscriptions'[p] = subscriptions[p] + 1
    BY <1>10, CreatedRight
  <2>2. thread[t].job = "create" /\ IF subscriptions[p] = 0 THEN Goto(t, "testing") ELSE Done(t)
    BY <1>10 DEF CountCreated, At, End
  <2>3. CASE subscriptions[p] = 0
    <3>1. Signalling(t, p)' /\ thread'[t].job = "create" /\ thread'[t].at = "testing"
      BY <1>9, <2>2, <2>3 DEF SameRequest
    <3>2. Knows(t, p)'
      BY <1>4, <1>7, <2>1, <2>3, <3>1 DEF Knows
    <3>3. QED
      BY <3>1, <3>2, FollowsBegun
  <2>4. CASE subscriptions[p] # 0
    BY <1>3, <1>4, <1>6, <1>7, <1>8, <2>1, <2>2, <2>4, FollowsEnded
  <2>5. QED
    BY <2>3, <2>4
<1>11. CASE CountDeleted(t)
  <2>1. subscriptions[p] > 0 /\ subscriptions'[p] = subscriptions[p] - 1
    BY <1>11, DeletedRight
  <2>2. thread[t].job = "delete" /\ IF subscriptions[p] = 1 THEN Goto(t, "testing") ELSE Done(t)
    BY <1>11 DEF CountDeleted, LastDeleted, At, End
  <2>3. CASE subscriptions[p] = 1
    <3>1. Signalling(t, p)' /\ thread'[t].job = "delete" /\ thread'[t].at = "testing"
      BY <1>9, <2>2, <2>3 DEF SameRequest
    <3>2. Knows(t, p)'
      BY <1>4, <1>7, <2>1, <2>3, <3>1 DEF Knows
    <3>3. QED
      BY <3>1, <3>2, FollowsBegun
  <2>4. CASE subscriptions[p] # 1
    BY <1>3, <1>4, <1>6, <1>7, <1>8, <2>1, <2>2, <2>4, FollowsEnded
  <2>5. QED
    BY <2>3, <2>4
<1>12. QED
  BY <1>10, <1>11

\* The request that works on the indications of a provider comes to its end.
LEMMA SignalFollows ==
    ASSUME SignalInv, FollowInv, NEW t \in Threads,
           \/ TestComplete(t) \/ EnableIndications(t) \/ CallEnable(t)
           \/ CallDisable(t) \/ ClearIndications(t) \/ SetComplete(t),
           NEW p \in Providers, p = thread[t].provider, p \notin disturbed', OneSignals'
    PROVE  Follows(p)'
<1>1. /\ ThreadsTyped /\ ManagerTyped /\ ProvidersTyped /\ HandlersTyped /\ OneSignals
      /\ p \notin disturbed /\ Numbered
  BY DisturbedKept DEF SignalInv, LoadInv, TypeInv, FollowInv, Step
<1>2. Follows(p) /\ Enabled(p)
  BY <1>1 DEF SignalInv, FollowInv
<1>3. \A u \in Threads \ {t} : thread'[u] = thread[u]
  BY <1>1, OthersStay DEF Step
<1>4. Signalling(t, p) /\ Placed(thread[t])
  BY <1>1, ThreadPlaced
  DEF Signalling, TestComplete, EnableIndications, CallEnable, CallDisable, ClearIndications,
      SetComplete, At
<1>5. \A u \in Threads \ {t} : ~Signalling(u, p)
  BY <1>1, <1>4 DEF OneSignals
<1>6. Knows(t, p)
  BY <1>2, <1>4 DEF Follows
<1>7. subscriptions[p] \in Nat
  BY <1>1, LifecycleAssumption DEF ProvidersTyped
<1>8. ASSUME Done(t), usedHandler'[p] # 0 <=> complete'[p] /\ subscriptions'[p] > 0
      PROVE  Follows(p)'
  <2>1. ~Signalling(t, p)'
    BY <1>1, <1>8, ThreadEffects DEF None, Signalling
  <2>2. QED
    BY <1>3, <1>5, <1>8, <2>1, FollowsEnded
<1>9. ASSUME NEW a \in {"enabling", "disable", "flag", "clear"}, Goto(t, a)
      PROVE  /\ Signalling(t, p)' /\ thread'[t].at = a
             /\ thread'[t].job = thread[t].job
  BY <1>1, <1>9, ThreadEffects DEF SameRequest, Signalling
<1>10. CASE TestComplete(t)
  <2>1. /\ thread[t].at = "testing" /\ thread[t].job \in {"create", "delete"}
        /\ UNCHANGED <<complete, subscriptions, usedHandler>>
    BY <1>4, <1>10 DEF TestComplete, Placed, countVars, signalVars
  <2>2. CASE ~complete[p]
    <3>1. Done(t)
      BY <1>10, <2>2 DEF TestComplete, End
    <3>2. usedHandler[p] = 0
      BY <1>6, <2>1, <2>2 DEF Knows
    <3>3. QED
      BY <1>8, <2>1, <2>2, <3>1, <3>2
  <2>3. CASE complete[p]
    <3>1. Goto(t, IF thread[t].job = "create" THEN "enabling" ELSE "disable")
      BY <1>10, <2>3 DEF TestComplete
    <3>2. /\ Signalling(t, p)' /\ thread'[t].job = thread[t].job
          /\ thread'[t].at \in {"enabling", "disable"}
      BY <1>9, <3>1
    <3>3. Knows(t, p)'
      BY <1>6, <2>1, <2>3, <3>2 DEF Knows
    <3>4. QED
      BY <3>2, <3>3, FollowsBegun
  <2>4. QED
    BY <2>2, <2>3
<1>11. CASE EnableIndications(t)
  <2>1. /\ thread[t].at = "enabling" /\ thread[t].job \in {"create", "complete"}
        /\ UNCHANGED <<complete, subscriptions, usedHandler>>
    BY <1>4, <1>11 DEF EnableIndications, Placed, countVars
  <2>2. thread'[t].job = thread[t].job /\ thread'[t].at = "enable" /\ Signalling(t, p)'
    BY <1>1, <1>11, ThreadEffects DEF SameRequest, Signalling
  <2>3. Knows(t, p)'
    BY <1>6, <2>1, <2>2 DEF Knows
  <2>4. QED
    BY <2>2, <2>3, FollowsBegun
<1>12. CASE CallEnable(t)
  <2>1. /\ thread[t].at = "enable" /\ thread[t].job \in {"create", "complete"}
        /\ UNCHANGED <<complete, subscriptions>>
    BY <1>4, <1>12 DEF CallEnable, Placed, countVars
  <2>2. subscriptions[p] > 0 /\ (thread[t].job = "create" => complete[p])
    BY <1>6, <2>1 DEF Knows
  <2>3. usedHandler' = [usedHandler EXCEPT ![p] = thread[t].handler]
    <3>1. disturbed' # disturbed \cup {p}
      OBVIOUS
    <3>2. QED
      BY <1>12, <3>1 DEF CallEnable
  <2>4. thread[t].handler # 0
    BY <1>1, <1>2, <2>1 DEF Enabled, Numbered
  <2>5. usedHandler'[p] # 0
    BY <1>1, <2>3, <2>4 DEF ProvidersTyped
  <2>6. CASE thread[t].job = "create"
    <3>1. Done(t)
      BY <1>12, <2>6 DEF CallEnable, End
    <3>2. QED
      BY <1>8, <2>1, <2>2, <2>5, <2>6, <3>1
  <2>7. CASE thread[t].job = "complete"
    <3>1. Goto(t, "flag")
      BY <1>12, <2>7 DEF CallEnable
    <3>2. Signalling(t, p)' /\ thread'[t].job = "complete" /\ thread'[t].at = "flag"
      BY <1>9, <2>7, <3>1
    <3>3. Knows(t, p)'
      BY <2>1, <2>2, <2>5, <3>2 DEF Knows
    <3>4. QED
      BY <3>2, <3>3, FollowsBegun
  <2>8. QED
    BY <2>1, <2>6, <2>7
<1>13. CASE CallDisable(t)
  <2>1. /\ thread[t].at = "disable" /\ thread[t].job = "delete"
        /\ UNCHANGED <<complete, subscriptions>>
    BY <1>4, <1>13 DEF CallDisable, Placed, countVars
  <2>2. subscriptions[p] = 0
    BY <1>6, <2>1 DEF Knows
  <2>3. usedHandler'[p] = 0
    <3>1. CASE enabled[p]
      <4>1. usedHandler' = [usedHandler EXCEPT ![p] = 0]
        BY <1>13, <3>1 DEF CallDisable, Silent
      <4>2. QED
        BY <1>1, <4>1 DEF ProvidersTyped
    <3>2. CASE ~enabled[p]
      BY <1>2, <1>13, <3>2 DEF CallDisable, Enabled
    <3>3. QED
      BY <3>1, <3>2
  <2>4. CASE Done(t)
    BY <1>8, <2>1, <2>2, <2>3, <2>4
  <2>5. CASE Goto(t, "clear")
    <3>1. Signalling(t, p)' /\ thread'[t].job = "delete" /\ thread'[t].at = "clear"
      BY <1>9, <2>1, <2>5
    <3>2. Knows(t, p)'
      BY <2>1, <2>2, <3>1 DEF Knows
    <3>3. QED
      BY <3>1, <3>2, FollowsBegun
  <2>6. QED
    BY <1>13, <2>4, <2>5 DEF CallDisable, End
<1>14. CASE ClearIndications(t)
  <2>1. /\ thread[t].at = "clear" /\ Done(t) /\ UNCHANGED <<complete, usedHandler>>
        /\ subscriptions' = [subscriptions EXCEPT ![p] = 0]
    BY <1>14 DEF ClearIndications, End
  <2>2. subscriptions'[p] = 0 /\ usedHandler[p] = 0
    BY <1>1, <1>2, <2>1 DEF ProvidersTyped, Enabled
  <2>3. QED
    BY <1>8, <2>1, <2>2
<1>15. CASE SetComplete(t)
  <2>1. /\ thread[t].at = "flag" /\ thread[t].job = "complete"
        /\ complete' = [complete EXCEPT ![p] = TRUE]
        /\ UNCHANGED <<usedHandler, subscriptions>>
    BY <1>15 DEF SetComplete, At, countVars, signalVars
  <2>2. complete'[p] /\ (usedHandler[p] # 0 <=> subscriptions[p] > 0)
    BY <1>1, <1>6, <2>1 DEF Knows, ManagerTyped
  <2>3. ~Signalling(t, p)'
    <3>1. thread'[t].at = "visit"
      BY <1>1, <1>15, ThreadEffects
    <3>2. QED
      BY <3>1 DEF Signalling
  <2>4. QED
    BY <1>3, <1>5, <2>1, <2>2, <2>3, FollowsEnded
<1>16. QED
  BY <1>10, <1>11, <1>12, <1>13, <1>14, <1>15

\* The end of the initialization finds subscriptions of a provider or none, ...
LEMMA TestFollows ==
    ASSUME SignalInv, FollowInv, NEW t \in Threads, NEW p \in Providers,
           TestSubscriptions(t, p), p \notin disturbed', OneSignals'
    PROVE  Follows(p)'
<1>1. ThreadsTyped /\ ProvidersTyped /\ p \notin disturbed
  BY DisturbedKept DEF SignalInv, LoadInv, TypeInv, Step
<1>2. Follows(p) /\ subscriptions[p] \in Nat
  BY <1>1, LifecycleAssumption DEF FollowInv, ProvidersTyped
<1>3. \A u \in Threads \ {t} : thread'[u] = thread[u]
  BY <1>1, OthersStay DEF Step
<1>4. /\ UNCHANGED <<usedHandler, complete, subscriptions>>
      /\ thread[t].at = "visit"
  BY DEF TestSubscriptions, Visit, At, signalVars, countVars
<1>5. ~Signalling(t, p)
  BY <1>4 DEF Signalling
<1>6. CASE initialized[p]
  <2>1. \A u \in Threads : ~Signalling(u, p)
    BY <1>5, <1>6 DEF TestSubscriptions, Disturb
  <2>2. usedHandler[p] # 0 <=> complete[p] /\ subscriptions[p] > 0
    BY <1>2, <2>1 DEF Follows
  <2>3. /\ thread'[t].job = "complete" /\ thread'[t].provider = p
        /\ thread'[t].at = IF subscriptions[p] > 0 THEN "enabling" ELSE "flag"
    BY <1>1, <1>6, TestEffects
  <2>4. Signalling(t, p)' /\ Knows(t, p)'
    BY <1>2, <1>4, <2>2, <2>3 DEF Signalling, Knows
  <2>5. QED
    BY <2>4, FollowsBegun
<1>7. CASE ~initialized[p]
  <2>1. Visited(t, p)
    BY <1>7 DEF TestSubscriptions
  <2>2. thread'[t].at = "visit"
    BY <1>1, <1>4, <2>1, ThreadEffects
  <2>3. ~Signalling(t, p)'
    BY <2>2 DEF Signalling
  <2>4. QED
    BY <1>2, <1>3, <1>4, <1>5, <2>3, FollowsKept
<1>8. QED
  BY <1>6, <1>7

\* ... that of the service finds no subscription, ...
LEMMA DisabledFollows ==
    ASSUME SignalInv, FollowInv, NEW t \in Threads, NEW p \in Providers,
           ServiceDisabled(t, p), p \notin disturbed
    PROVE  Follows(p)'
<1>1. /\ ThreadsTyped /\ ManagerTyped /\ OneForAll /\ Disabling
      /\ CountRight(p) /\ Follows(p)
  BY DEF SignalInv, LoadInv, TypeInv, FollowInv
<1>2. \A u \in Threads \ {t} : thread'[u] = thread[u]
  BY <1>1, OthersStay DEF Step
<1>3. /\ thread[t].at = "visit" /\ thread[t].job = "disabled" /\ Visited(t, p)
      /\ UNCHANGED <<usedHandler, subscriptions>>
  BY DEF ServiceDisabled, Visit, At, countVars, signalVars
<1>4. accepted[p] = 0 /\ \A u \in Threads : thread[u].job \notin {"create", "delete"}
  BY <1>1, <1>3 DEF Disabling
<1>5. subscriptions[p] = 0
  <2>1. ~Deleting(p)
    BY <1>4 DEF Deleting
  <2>2. QED
    BY <1>1, <1>4, <2>1, NoneEnded DEF CountRight
<1>6. \A u \in Threads : ~Signalling(u, p)
  <2>1. SUFFICES ASSUME NEW u \in Threads, Signalling(u, p) PROVE FALSE
    OBVIOUS
  <2>2. thread[u].job = "complete"
    BY <1>1, <1>4, <2>1, ThreadPlaced DEF Signalling, Placed
  <2>3. u = t
    BY <1>1, <1>3, <2>2 DEF OneForAll, ForAll
  <2>4. QED
    BY <1>3, <2>2, <2>3
<1>7. usedHandler[p] = 0
  BY <1>1, <1>5, <1>6 DEF Follows
<1>8. ~Signalling(t, p)'
  <2>1. thread'[t].at = "visit"
    BY <1>1, <1>3, ThreadEffects
  <2>2. QED
    BY <2>1 DEF Signalling
<1>9. QED
  BY <1>2, <1>3, <1>5, <1>6, <1>7, <1>8, FollowsEnded

\* ... and a provider that is unloaded has none.
LEMMA UnloadedFollows ==
    ASSUME SignalInv, FollowInv, NEW t \in Threads,
           NEW p \in Providers, p \notin disturbed',
           \/ DisableProvider(t) /\ thread[t].provider = p
           \/ UnloadIdle(t, p)
    PROVE  Follows(p)'
<1>1. /\ ThreadsTyped /\ Counted /\ Holds /\ BusyLoaded /\ Step(t)
      /\ p \notin disturbed
  BY DisturbedKept DEF SignalInv, LoadInv, TypeInv, Step
<1>2. Follows(p)
  BY <1>1 DEF FollowInv
<1>3. \A u \in Threads \ {t} : thread'[u] = thread[u]
  BY <1>1, OthersStay
<1>4. /\ UNCHANGED complete /\ thread[t].at \in {"unload", "visit"}
      /\ Done(t) \/ Visited(t, p)
  BY DEF DisableProvider, UnloadIdle, Visit, At
<1>5. ~Signalling(t, p) /\ ~Signalling(t, p)'
  <2>1. thread'[t].at \in {"none", "unload", "visit"}
    BY <1>1, <1>4, ThreadEffects DEF None
  <2>2. QED
    BY <1>4, <2>1 DEF Signalling
<1>6. CASE UNCHANGED <<subscriptions, usedHandler>>
  BY <1>2, <1>3, <1>4, <1>5, <1>6, FollowsKept
<1>7. CASE ~Pending(p) /\ Unlocked(p) /\ subscriptions'[p] = 0 /\ usedHandler'[p] = 0
  <2>1. \A u \in Threads : ~Signalling(u, p)
    BY <1>1, <1>7, NobodySignals
  <2>2. QED
    BY <1>3, <1>5, <1>7, <2>1, FollowsEnded
<1>8. QED
  BY <1>6, <1>7, UnloadedRight

\* Every step keeps the indications with the subscriptions.
LEMMA StepFollows ==
    ASSUME SignalInv, FollowInv, NEW t \in Threads, Start(t) \/ Step(t),
           NEW p \in Providers, p \notin disturbed', OneSignals'
    PROVE  Follows(p)'
<1>1. /\ ThreadsTyped /\ ManagerTyped /\ ProvidersTyped /\ p \notin disturbed
  BY DisturbedKept DEF SignalInv, LoadInv, TypeInv
<1>2. Follows(p)
  BY <1>1 DEF FollowInv
<1>3. \A u \in Threads \ {t} : thread'[u] = thread[u]
  BY <1>1, OthersStay
<1>4. CASE AboutOther(t, p)
  BY <1>1, <1>2, <1>3, <1>4, OtherUnmoved, SignalsElsewhere, FollowsKept DEF Unmoved
<1>5. CASE TestSubscriptions(t, p)
  BY <1>5, TestFollows
<1>6. CASE ServiceDisabled(t, p)
  BY <1>1, <1>6, DisabledFollows
<1>7. CASE UnloadIdle(t, p)
  BY <1>7, UnloadedFollows
<1>8. ~StopProvider(t, p)
  BY DEF StopProvider
<1>9. CASE thread[t].provider = p /\ thread[t].at \in Located
  <2>1. ~Start(t)
    BY <1>9 DEF Start, None, Located, Inside
  <2>2. CASE Lookup(t)
    BY <1>1, <1>9, <2>2, LookupFollows
  <2>3. CASE CountCreated(t) \/ CountDeleted(t)
    BY <1>9, <2>3, CountFollows
  <2>4. CASE \/ TestComplete(t) \/ EnableIndications(t) \/ CallEnable(t)
             \/ CallDisable(t) \/ ClearIndications(t) \/ SetComplete(t)
    BY <1>9, <2>4, SignalFollows
  <2>5. CASE DisableProvider(t)
    BY <1>9, <2>5, UnloadedFollows
  <2>6. CASE LookupModule(t) \/ InitProvider(t) \/ Begin(t) \/ EndOperation(t)
             \/ WaitForOperations(t)
    <3>1. /\ UNCHANGED <<subscriptions, usedHandler, complete>>
          /\ thread[t].at \in {"module", "init", "begin", "calling", "waiting"}
          /\ Done(t) \/ \E a \in {"init", "begin", "calling", "unload"} : Goto(t, a)
      BY <2>6
      DEF LookupModule, InitProvider, Begin, EndOperation, WaitForOperations, At, End,
          countVars, signalVars
    <3>2. thread'[t].at \in {"none", "init", "begin", "calling", "unload"}
      BY <1>1, <3>1, ThreadEffects DEF None
    <3>3. ~Signalling(t, p) /\ ~Signalling(t, p)'
      BY <3>1, <3>2 DEF Signalling
    <3>4. QED
      BY <1>2, <1>3, <3>1, <3>3, FollowsKept
  <2>7. QED
    BY <1>9, <2>1, <2>2, <2>3, <2>4, <2>5, <2>6
    DEF Step, SetInitComplete, List, Collect, AllVisited, UnloadIdle, TestSubscriptions,
        ServiceDisabled, StopProvider, Visit, At, Located, Inside
<1>10. QED
  BY <1>4, <1>5, <1>6, <1>7, <1>8, <1>9 DEF AboutOther

\* Nobody has a subscription at the start.
LEMMA InitFollow == ASSUME Init PROVE FollowInv
<1>1. \A t \in Threads : thread[t] = None
  BY DEF Init
<1>2. \A p \in Providers : ~Deleting(p) /\ Changing(p) = {}
  BY <1>1 DEF Deleting, Changing, None
<1>3. \A p \in Providers : CountRight(p)
  BY <1>2, NoneEnded DEF Init, CountRight
<1>4. \A p \in Providers : Ready(p) /\ Follows(p)
  BY <1>1 DEF Init, Ready, Follows, Signalling, None
<1>5. Bounded
  BY <1>2, FS_EmptySet DEF Init, Bounded
<1>6. Listed /\ OneForAll /\ Disabling /\ Numbered
  BY <1>1 DEF Init, Listed, OneForAll, ForAll, Disabling, Numbered, None
<1>7. QED
  BY <1>3, <1>4, <1>5, <1>6 DEF FollowInv

\* Every step keeps the invariant.
LEMMA StepFollow == ASSUME SignalInv, FollowInv, [Next]_vars PROVE FollowInv'
<1>1. /\ ThreadsTyped /\ ManagerTyped /\ ProvidersTyped /\ HandlersTyped
      /\ Bounded /\ Listed /\ OneForAll /\ Disabling /\ Numbered
  BY DEF SignalInv, LoadInv, TypeInv, FollowInv
<1>2. Bounded' /\ Listed' /\ OneForAll' /\ Disabling' /\ Numbered'
  BY <1>1, StepBounded, StepListed, StepForAll, StepNumbered
<1>3. ASSUME NEW p \in Providers, p \notin disturbed'
      PROVE  CountRight(p)' /\ Ready(p)' /\ Follows(p)'
  <2>1. CASE UNCHANGED vars
    <3>1. CountRight(p) /\ Ready(p) /\ Follows(p)
      BY <1>3, <2>1 DEF FollowInv, vars
    <3>2. QED
      BY <2>1, <3>1
      DEF vars, tableVars, loadVars, countVars, signalVars, CountRight, Deleting, Ended,
          Uncounted, Ready, Told, Follows, Knows, Signalling
  <2>2. OneSignals'
    BY <1>1, StepOneSignals DEF SignalInv
  <2>3. ASSUME NEW t \in Threads, Start(t) \/ Step(t)
        PROVE  CountRight(p)' /\ Ready(p)' /\ Follows(p)'
    BY <1>3, <2>2, <2>3, StepRight, StepReady, StepFollows
  <2>4. QED
    BY <2>1, <2>3 DEF Next
<1>4. QED
  BY <1>2, <1>3 DEF FollowInv

\* A provider sends indications exactly while it has subscriptions, when the
\* initialization has ended and nobody is about to change them; except (disturbed)
\* where requests overlapped, enableIndications threw, or as IndicationsFollow says.
THEOREM IndicationsFollowSubscriptions == Spec => []IndicationsFollow
<1>1. ASSUME SignalInv, FollowInv PROVE IndicationsFollow
  <2> SUFFICES ASSUME initComplete, NEW p \in Providers \ disturbed,
                      initialized[p], Settled(p)
               PROVE  usedHandler[p] # 0 <=> accepted[p] > 0
    BY DEF IndicationsFollow
  <2>1. ThreadsTyped /\ Listed /\ CountRight(p) /\ Ready(p) /\ Follows(p)
    BY <1>1 DEF SignalInv, LoadInv, TypeInv, FollowInv
  <2>2. \A t \in Threads : ~Signalling(t, p)
    <3>1. SUFFICES ASSUME NEW t \in Threads, Signalling(t, p) PROVE FALSE
      OBVIOUS
    <3>2. thread[t].job \in {"create", "delete", "complete"} /\ thread[t].at # "visit"
      BY <2>1, <3>1, ThreadPlaced DEF Signalling, Placed
    <3>3. QED
      BY <3>1, <3>2 DEF Settled, Signalling
  <2>3. complete[p]
    BY <2>1 DEF Settled, Told, Ready, Listed
  <2>4. subscriptions[p] = accepted[p]
    <3>1. ~Deleting(p) /\ accepted[p] \in Nat
      BY <1>1 DEF Settled, Deleting, SignalInv, LoadInv, TypeInv, ManagerTyped
    <3>2. QED
      BY <2>1, <3>1, NoneEnded DEF CountRight
  <2>5. QED
    BY <2>1, <2>2, <2>3, <2>4 DEF Follows
<1>2. SignalInv /\ SignalInv' /\ FollowInv /\ [Next]_vars => FollowInv'
  BY StepFollow
<1>3. Init => FollowInv
  BY InitFollow
<1>4. QED
  BY <1>1, <1>2, <1>3, Invariant, PTL DEF Spec
=============================================================================
