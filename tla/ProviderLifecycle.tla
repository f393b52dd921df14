------------------------- MODULE ProviderLifecycle -------------------------
(***************************************************************************)
(* Providers loaded in the server or in an agent                           *)
(* (ProviderManager2/Default: DefaultProviderManager, ProviderStatus,      *)
(* ProviderMessageHandler).  A request looks its provider up, loads and    *)
(* initializes it if need be, and is counted as one of its operations      *)
(* while it runs.  Providers are unloaded when they have been idle, when   *)
(* their module is disabled and when all providers are stopped.  The first *)
(* subscription of a provider enables its indications and the last one     *)
(* disables them; at start this waits until the indication service says    *)
(* that all active subscriptions have been created.                        *)
(*                                                                         *)
(* The status mutex of a provider is held while it is initialized, begun   *)
(* and unloaded: each is one step here.  Requests that create and delete   *)
(* subscriptions do not take it.                                           *)
(***************************************************************************)
EXTENDS Integers, FiniteSets

CONSTANTS
    Providers,          \* providers of one module
    Threads,            \* threads that handle requests
    NoThread, NoProvider,
    MaxJobs,            \* bound: requests
    CountRange          \* number of values of _currentSubscriptions (2^32)

Kinds == {"operation", "create", "delete", "disable",
          "idle", "stop", "complete", "disabled"}

ASSUME LifecycleAssumption ==
    /\ IsFiniteSet(Providers) /\ IsFiniteSet(Threads)
    /\ NoThread \notin Threads /\ NoProvider \notin Providers
    /\ MaxJobs \in Nat
    /\ CountRange \in Nat /\ CountRange > MaxJobs

VARIABLES
    thread,         \* what each thread does, to which provider, where it is
    jobs,           \* counter for the bound
    tableMutex,     \* _providerTableMutex, held while all providers are stopped
    statusMutex,    \* getStatusMutex(), held while indications are enabled
    cached,         \* _providers
    initialized,    \* _isInitialized
    operations,     \* _currentOperations
    references,     \* _referenceCount of the module's library
    initComplete,   \* _subscriptionInitComplete of the manager
    complete,       \* _subscriptionInitComplete of each provider
    subscriptions,  \* _currentSubscriptions
    enabled,        \* _indicationsEnabled
    handler,        \* _indicationResponseHandler: a number, 0 for none
    handlers,       \* the response handlers of each provider that exist
    life,           \* of the provider object: methods of which may be called
    usedHandler,    \* response handler the provider sends its indications to
    accepted,       \* subscriptions that the indication service counts on
    disturbed,      \* history: see IndicationsFollow
    leaked          \* history: see ModuleReferenced

tableVars  == <<tableMutex, cached>>
loadVars   == <<initialized, operations, references, life, leaked>>
countVars  == <<subscriptions, accepted>>
signalVars == <<enabled, handler, handlers, usedHandler>>

vars == <<thread, jobs, tableVars, statusMutex, loadVars, initComplete, complete,
          countVars, signalVars, disturbed>>

None == [job |-> "none", at |-> "none", provider |-> NoProvider, left |-> {}, handler |-> 0]

Init ==
    /\ thread = [t \in Threads |-> None]
    /\ jobs = 0
    /\ tableMutex = NoThread
    /\ statusMutex = [p \in Providers |-> NoThread]
    /\ cached = {}
    /\ initialized = [p \in Providers |-> FALSE]
    /\ operations = [p \in Providers |-> 0]
    /\ references = 0
    /\ initComplete \in BOOLEAN
    /\ complete = [p \in Providers |-> FALSE]
    /\ subscriptions = [p \in Providers |-> 0]
    /\ enabled = [p \in Providers |-> FALSE]
    /\ handler = [p \in Providers |-> 0]
    /\ handlers = [p \in Providers |-> {}]
    /\ life = [p \in Providers |-> "none"]
    /\ usedHandler = [p \in Providers |-> 0]
    /\ accepted = [p \in Providers |-> 0]
    /\ disturbed = {}
    /\ leaked = 0

At(t, job, at) == thread[t].job = job /\ thread[t].at = at

Goto(t, at) == thread' = [thread EXCEPT ![t].at = at]

Done(t) == thread' = [thread EXCEPT ![t] = None]

Requesting(t) == thread[t].job \in {"operation", "create", "delete"}

Unlocked(p) == statusMutex[p] = NoThread

\* In a method of the provider, or about to count what it has returned.
Inside == {"calling", "testing", "enabling", "enable", "disable", "clear"}

\* Where a subscription request, or the end of the initialization, has begun to
\* use the count of the provider and not finished with its indications.
Signalling(t, p) ==
    /\ thread[t].at \in {"testing", "enabling", "enable", "disable", "clear", "flag"}
    /\ thread[t].provider = p

Disturb(t, p) ==
    disturbed' = IF \E u \in Threads \ {t} : Signalling(u, p)
                 THEN disturbed \cup {p} ELSE disturbed
-----------------------------------------------------------------------------
Doing(job) == \E t \in Threads : thread[t].job = job

\* A request arrives.  The indication service deletes subscriptions that were
\* accepted; it is disabled when it has deleted them all, and then creates none
\* before it is enabled again and says that its initialization is complete.
StartRequest(t) ==
    \E p \in Providers, job \in {"operation", "create", "delete", "disable"} :
        /\ job \in {"create", "delete"} => ~Doing("disabled")
        /\ thread' = [thread EXCEPT ![t] =
               [None EXCEPT !.job = job, !.at = "lookup", !.provider = p]]
        /\ IF job = "delete"
           THEN accepted[p] > 0 /\ accepted' = [accepted EXCEPT ![p] = @ - 1]
           ELSE UNCHANGED accepted

StartForAll(t) ==
    \E job \in {"idle", "complete", "disabled", "stop"} :
        /\ job = "complete" => ~initComplete /\ ~Doing("complete") /\ ~Doing("disabled")
        /\ job = "disabled" =>
             /\ initComplete
             /\ \A p \in Providers : accepted[p] = 0
             /\ ~(Doing("complete") \/ Doing("disabled") \/ Doing("create") \/ Doing("delete"))
        /\ thread' = [thread EXCEPT ![t] =
               [None EXCEPT !.job = job,
                   !.at = IF job \in {"complete", "disabled"} THEN "start" ELSE "list"]]
        /\ UNCHANGED accepted

Start(t) ==
    /\ thread[t] = None
    /\ jobs < MaxJobs
    /\ jobs' = jobs + 1
    /\ StartRequest(t) \/ StartForAll(t)
    /\ UNCHANGED <<tableVars, statusMutex, loadVars, initComplete, complete,
                   subscriptions, signalVars, disturbed>>

\* Mutant of Captured: a new handler does not know of the initialization.
NotCaptured == FALSE

\* What the handler of a new provider is given as _subscriptionInitComplete.
Captured == initComplete

\* _lookupProvider, and whether the provider is initialized.
Lookup(t) ==
    LET p == thread[t].provider
    IN  /\ thread[t].at = "lookup"
        /\ tableMutex = NoThread
        /\ Unlocked(p)
        /\ cached' = cached \cup {p}
        /\ complete' = [complete EXCEPT ![p] = IF p \in cached THEN @ ELSE Captured]
        /\ IF Requesting(t)
           THEN Goto(t, IF initialized[p] THEN "begin" ELSE "module") /\ UNCHANGED accepted
           ELSE IF initialized[p]
                THEN Goto(t, "waiting") /\ UNCHANGED accepted
                ELSE Done(t) /\ accepted' = [accepted EXCEPT ![p] = 0]
    /\ UNCHANGED <<jobs, tableMutex, statusMutex, loadVars, initComplete, subscriptions,
                   signalVars, disturbed>>

LookupModule(t) ==
    /\ thread[t].at = "module"
    /\ tableMutex = NoThread
    /\ Goto(t, "init")
    /\ UNCHANGED <<jobs, tableVars, statusMutex, loadVars, initComplete, complete,
                   countVars, signalVars, disturbed>>

\* Mutant of Unloaded: the failed initialization keeps the library.
StillLoaded == 1

\* The library stays loaded by a provider that could not be initialized.
Unloaded == 0

\* _initProvider under the status mutex: the provider is initialized, or its
\* library cannot be loaded, or initialize() throws and it is unloaded.  The
\* library stays loaded for nobody when initialize() and then terminate() throw,
\* and when createProvider of the library does (ProviderModule.cpp:77), after
\* which nothing unloads it.
InitProvider(t) ==
    LET p == thread[t].provider
    IN  /\ thread[t].at = "init"
        /\ Unlocked(p)
        /\ \/ initialized[p] /\ Goto(t, "begin") /\ UNCHANGED loadVars
           \/ /\ ~initialized[p]
              /\ initialized' = [initialized EXCEPT ![p] = TRUE]
              /\ references' = references + 1
              /\ life' = [life EXCEPT ![p] = "live"]
              /\ Goto(t, "begin")
              /\ UNCHANGED <<operations, leaked>>
           \/ /\ ~initialized[p]
              /\ \/ Done(t) /\ UNCHANGED <<references, leaked>>
                 \/ /\ Goto(t, "begin")
                    /\ references' = references + Unloaded
                    /\ UNCHANGED leaked
                 \/ /\ Done(t)
                    /\ references' = references + 1
                    /\ leaked' = leaked + 1
              /\ UNCHANGED <<initialized, operations, life>>
    /\ UNCHANGED <<jobs, tableVars, statusMutex, initComplete, complete,
                   countVars, signalVars, disturbed>>

\* Mutant of CanBegin: the status is not looked at again under the mutex.
SeenBefore(p) == TRUE

CanBegin(p) == initialized[p]

\* _getProvider: the operation is counted, or the request fails.
Begin(t) ==
    LET p == thread[t].provider
    IN  /\ thread[t].at = "begin"
        /\ Unlocked(p)
        /\ IF CanBegin(p)
           THEN /\ operations' = [operations EXCEPT ![p] = @ + 1]
                /\ Goto(t, "calling")
           ELSE Done(t) /\ UNCHANGED operations
    /\ UNCHANGED <<jobs, tableVars, statusMutex, initialized, references, life, leaked,
                   initComplete, complete, countVars, signalVars, disturbed>>

End(t, p) ==
    /\ operations' = [operations EXCEPT ![p] = @ - 1]
    /\ Done(t)
    /\ UNCHANGED <<initialized, references, life, leaked>>

EndOperation(t) ==
    /\ At(t, "operation", "calling")
    /\ End(t, thread[t].provider)
    /\ UNCHANGED <<jobs, tableVars, statusMutex, initComplete, complete, countVars,
                   signalVars, disturbed>>
-----------------------------------------------------------------------------
\* createSubscription returned, or threw, and testIfZeroAndIncrementSubscriptions:
\* a subscription the provider has rejected is counted too.
CountCreated(t) ==
    LET p == thread[t].provider
    IN  /\ At(t, "create", "calling")
        /\ subscriptions' = [subscriptions EXCEPT ![p] = (@ + 1) % CountRange]
        /\ \/ accepted' = [accepted EXCEPT ![p] = @ + 1] /\ Disturb(t, p)
           \/ UNCHANGED accepted /\ disturbed' = disturbed \cup {p}
        /\ IF subscriptions[p] = 0
           THEN Goto(t, "testing") /\ UNCHANGED loadVars
           ELSE End(t, p)
    /\ UNCHANGED <<jobs, tableVars, statusMutex, initComplete, complete, signalVars>>

LastDeleted(p) == subscriptions[p] = 1

\* deleteSubscription returned, and decrementSubscriptionsAndTestIfZero.
CountDeleted(t) ==
    LET p == thread[t].provider
    IN  /\ At(t, "delete", "calling")
        /\ subscriptions' = [subscriptions EXCEPT ![p] = (@ - 1) % CountRange]
        /\ Disturb(t, p)
        /\ IF LastDeleted(p)
           THEN Goto(t, "testing") /\ UNCHANGED loadVars
           ELSE End(t, p)
    /\ UNCHANGED <<jobs, tableVars, statusMutex, initComplete, complete, accepted, signalVars>>

\* The first or last subscription: before the initialization is complete,
\* indications are neither enabled nor disabled.
TestComplete(t) ==
    LET p == thread[t].provider
    IN  /\ thread[t].at = "testing" /\ Requesting(t)
        /\ IF ~complete[p]
           THEN End(t, p)
           ELSE /\ Goto(t, IF thread[t].job = "create" THEN "enabling" ELSE "disable")
                /\ UNCHANGED loadVars
    /\ UNCHANGED <<jobs, tableVars, statusMutex, initComplete, complete, countVars,
                   signalVars, disturbed>>

NewHandler(p) ==
    CHOOSE h \in 1..(Cardinality(handlers[p]) + 1) : h \notin handlers[p]

\* _enableIndications up to the call of the provider.
EnableIndications(t) ==
    LET p == thread[t].provider
    IN  /\ thread[t].at = "enabling"
        /\ handler' = [handler EXCEPT ![p] = NewHandler(p)]
        /\ handlers' = [handlers EXCEPT ![p] = @ \cup {NewHandler(p)}]
        /\ enabled' = [enabled EXCEPT ![p] = TRUE]
        /\ thread' = [thread EXCEPT ![t].at = "enable", ![t].handler = NewHandler(p)]
    /\ UNCHANGED <<jobs, tableVars, statusMutex, loadVars, initComplete, complete,
                   countVars, usedHandler, disturbed>>

\* enableIndications of the provider, which may throw.
CallEnable(t) ==
    LET p == thread[t].provider
    IN  /\ thread[t].at = "enable"
        /\ \/ /\ usedHandler' = [usedHandler EXCEPT ![p] = thread[t].handler]
              /\ UNCHANGED disturbed
           \/ /\ disturbed' = disturbed \cup {p}
              /\ UNCHANGED usedHandler
        /\ IF thread[t].job = "create"
           THEN End(t, p)
           ELSE Goto(t, "flag") /\ UNCHANGED loadVars
    /\ UNCHANGED <<jobs, tableVars, statusMutex, initComplete, complete, countVars,
                   enabled, handler, handlers>>

\* Mutant of Silent: the provider is not told to stop its indications.
StillUsed(p) == usedHandler[p]

\* The handler a provider uses when disableIndications was called.
Silent(p) == 0

\* _disableIndications after the last subscription: the provider is called, and
\* may throw, ...
CallDisable(t) ==
    LET p == thread[t].provider
    IN  /\ thread[t].at = "disable"
        /\ IF enabled[p]
           THEN /\ usedHandler' = [usedHandler EXCEPT ![p] = Silent(p)]
                /\ \/ Goto(t, "clear") /\ UNCHANGED loadVars
                   \/ End(t, p)
           ELSE End(t, p) /\ UNCHANGED usedHandler
    /\ UNCHANGED <<jobs, tableVars, statusMutex, initComplete, complete, countVars,
                   enabled, handler, handlers, disturbed>>

DeleteHandler(p) ==
    /\ handlers' = [handlers EXCEPT ![p] = @ \ {handler[p]}]
    /\ handler' = [handler EXCEPT ![p] = 0]

\* ... and then the count is reset and the response handler deleted.
ClearIndications(t) ==
    LET p == thread[t].provider
    IN  /\ thread[t].at = "clear"
        /\ subscriptions' = [subscriptions EXCEPT ![p] = 0]
        /\ enabled' = [enabled EXCEPT ![p] = FALSE]
        /\ DeleteHandler(p)
        /\ End(t, p)
    /\ UNCHANGED <<jobs, tableVars, statusMutex, initComplete, complete, accepted,
                   usedHandler, disturbed>>
-----------------------------------------------------------------------------
\* A request to delete a subscription of the provider is on its way.
Deleting(p) == \E t \in Threads : thread[t].job = "delete" /\ thread[t].provider = p

Pending(p) == operations[p] > 0

\* _unloadProvider, under the status mutex: indications are disabled, the
\* provider terminated and its library unloaded, unless operations are pending.
\* When disableIndications or terminate() throws, what follows it is left out.
Unload(p) ==
    \/ Pending(p) /\ UNCHANGED <<loadVars, subscriptions, signalVars>>
    \/ \E silenced, terminated \in BOOLEAN :
           LET cleared == enabled[p] /\ silenced
           IN  /\ ~Pending(p)
               /\ usedHandler' = [usedHandler EXCEPT ![p] = IF enabled[p] THEN Silent(p) ELSE @]
               /\ IF cleared THEN DeleteHandler(p) ELSE UNCHANGED <<handler, handlers>>
               /\ enabled' = [enabled EXCEPT ![p] = @ /\ ~silenced /\ ~terminated]
               /\ subscriptions' = [subscriptions EXCEPT ![p] =
                                        IF cleared \/ terminated THEN 0 ELSE @]
               /\ life' = [life EXCEPT ![p] = IF terminated THEN "none" ELSE "terminated"]
               /\ initialized' = [initialized EXCEPT ![p] = ~terminated]
               /\ operations' = [operations EXCEPT ![p] = IF terminated THEN 0 ELSE @]
               /\ references' = IF terminated THEN references - 1 ELSE references
               /\ UNCHANGED leaked

\* _disableProvider: after waiting for its operations, the provider is unloaded,
\* or the request is refused when the time is over.
WaitForOperations(t) ==
    LET p == thread[t].provider
    IN  /\ At(t, "disable", "waiting")
        /\ IF operations[p] = 0 THEN Goto(t, "unload") ELSE Done(t)
    /\ UNCHANGED <<jobs, tableVars, statusMutex, loadVars, initComplete, complete,
                   countVars, signalVars, disturbed>>

\* The indication service then forgets the subscriptions of the module.
DisableProvider(t) ==
    LET p == thread[t].provider
    IN  /\ At(t, "disable", "unload")
        /\ Unlocked(p)
        /\ IF initialized[p]
           THEN Unload(p)
           ELSE UNCHANGED <<loadVars, subscriptions, signalVars>>
        /\ accepted' = [accepted EXCEPT ![p] = IF life'[p] = "terminated" THEN @ ELSE 0]
        /\ disturbed' = IF initialized[p] /\ (Pending(p) \/ Deleting(p) \/ life'[p] = "terminated")
                        THEN disturbed \cup {p} ELSE disturbed
        /\ Done(t)
    /\ UNCHANGED <<jobs, tableVars, statusMutex, initComplete, complete>>
-----------------------------------------------------------------------------
\* _subscriptionInitComplete of the manager is set before the providers are listed.
SetInitComplete(t) ==
    /\ thread[t].at = "start"
    /\ initComplete' = (thread[t].job = "complete")
    /\ Goto(t, "list")
    /\ UNCHANGED <<jobs, tableVars, statusMutex, loadVars, complete, countVars,
                   signalVars, disturbed>>

\* A copy of the table is made, so that it is not locked while providers are
\* called; to stop all providers it stays locked.
List(t) ==
    /\ thread[t].at = "list"
    /\ tableMutex = NoThread
    /\ tableMutex' = IF thread[t].job = "stop" THEN t ELSE NoThread
    /\ thread' = [thread EXCEPT ![t].at = IF thread[t].job = "stop" THEN "collect" ELSE "visit",
                                ![t].left = cached]
    /\ UNCHANGED <<jobs, cached, statusMutex, loadVars, initComplete, complete, countVars,
                   signalVars, disturbed>>

AllVisited(t) ==
    /\ thread[t].at = "visit"
    /\ thread[t].left = {}
    /\ tableMutex' = IF tableMutex = t THEN NoThread ELSE tableMutex
    /\ Done(t)
    /\ UNCHANGED <<jobs, cached, statusMutex, loadVars, initComplete, complete, countVars,
                   signalVars, disturbed>>

Visit(t, job, p) ==
    /\ At(t, job, "visit")
    /\ p \in thread[t].left
    /\ Unlocked(p)

Visited(t, p) == thread' = [thread EXCEPT ![t].left = @ \ {p}]

\* isIdle, but for unload_ok of the CIMOM handle.
IsIdle(p) == initialized[p] /\ ~Pending(p) /\ ~enabled[p]

\* unloadIdleProviders: a provider may not have been idle for long enough, and
\* an exception ends the round.
UnloadIdle(t, p) ==
    /\ Visit(t, "idle", p)
    /\ \/ /\ UNCHANGED <<loadVars, subscriptions, signalVars, disturbed>>
          /\ Visited(t, p)
       \/ /\ IsIdle(p)
          /\ Unload(p)
          /\ disturbed' = IF accepted[p] > 0 \/ Deleting(p) THEN disturbed \cup {p} ELSE disturbed
          /\ IF initialized'[p] THEN Done(t) ELSE Visited(t, p)
    /\ UNCHANGED <<jobs, tableVars, statusMutex, initComplete, complete, accepted>>

\* _handleSubscriptionInitCompleteRequest, up to testSubscriptions.
TestSubscriptions(t, p) ==
    /\ Visit(t, "complete", p)
    /\ IF initialized[p]
       THEN /\ statusMutex' = [statusMutex EXCEPT ![p] = t]
            /\ thread' = [thread EXCEPT ![t].provider = p,
                    ![t].at = IF subscriptions[p] > 0 THEN "enabling" ELSE "flag"]
            /\ Disturb(t, p)
       ELSE /\ Visited(t, p)
            /\ disturbed' = IF complete[p] THEN disturbed ELSE disturbed \cup {p}
            /\ UNCHANGED statusMutex
    /\ UNCHANGED <<jobs, tableVars, loadVars, initComplete, complete, countVars, signalVars>>

\* subscriptionInitComplete of the provider's handler ends.
SetComplete(t) ==
    LET p == thread[t].provider
    IN  /\ At(t, "complete", "flag")
        /\ complete' = [complete EXCEPT ![p] = TRUE]
        /\ statusMutex' = [statusMutex EXCEPT ![p] = NoThread]
        /\ thread' = [thread EXCEPT ![t] =
               [thread[t] EXCEPT !.at = "visit", !.provider = NoProvider, !.left = @ \ {p}]]
    /\ UNCHANGED <<jobs, tableVars, loadVars, initComplete, countVars, signalVars, disturbed>>

\* _handleIndicationServiceDisabledRequest.
ServiceDisabled(t, p) ==
    /\ Visit(t, "disabled", p)
    /\ complete' = [complete EXCEPT ![p] = @ /\ ~initialized[p]]
    /\ Visited(t, p)
    /\ UNCHANGED <<jobs, tableVars, statusMutex, loadVars, initComplete, countVars,
                   signalVars, disturbed>>

\* _shutdownAllProviders: the providers to be unloaded are collected ...
Collect(t) ==
    /\ At(t, "stop", "collect")
    /\ \A p \in cached : Unlocked(p)
    /\ thread' = [thread EXCEPT ![t].at = "visit",
                                ![t].left = {p \in cached : initialized[p]}]
    /\ UNCHANGED <<jobs, tableVars, statusMutex, loadVars, initComplete, complete, countVars,
                   signalVars, disturbed>>

\* ... and each is unloaded by a thread of its own.  One that has been unloaded
\* meanwhile fails an assertion, without which nothing is done.
StopProvider(t, p) ==
    /\ Visit(t, "stop", p)
    /\ IF initialized[p]
       THEN Unload(p)
       ELSE UNCHANGED <<loadVars, subscriptions, signalVars>>
    /\ disturbed' = disturbed \cup {p}
    /\ Visited(t, p)
    /\ UNCHANGED <<jobs, tableVars, statusMutex, initComplete, complete, accepted>>
-----------------------------------------------------------------------------
Step(t) ==
    \/ Lookup(t) \/ LookupModule(t) \/ InitProvider(t) \/ Begin(t) \/ EndOperation(t)
    \/ CountCreated(t) \/ CountDeleted(t) \/ TestComplete(t)
    \/ EnableIndications(t) \/ CallEnable(t) \/ CallDisable(t) \/ ClearIndications(t)
    \/ WaitForOperations(t) \/ DisableProvider(t)
    \/ SetInitComplete(t) \/ List(t) \/ Collect(t) \/ AllVisited(t) \/ SetComplete(t)
    \/ \E p \in Providers :
          UnloadIdle(t, p) \/ TestSubscriptions(t, p) \/ ServiceDisabled(t, p) \/ StopProvider(t, p)

Next == \E t \in Threads : Start(t) \/ Step(t)

Spec == Init /\ [][Next]_vars
-----------------------------------------------------------------------------
Places == {"none", "lookup", "module", "init", "begin", "calling", "testing",
           "enabling", "enable", "disable", "clear", "waiting", "unload",
           "start", "list", "collect", "visit", "flag"}

\* The types of the members of the manager and of what its threads are doing.
TypeOK ==
    /\ thread \in [Threads -> [job: Kinds \cup {"none"}, at: Places,
                               provider: Providers \cup {NoProvider},
                               left: SUBSET Providers, handler: Nat]]
    /\ jobs \in 0..MaxJobs
    /\ tableMutex \in Threads \cup {NoThread}
    /\ statusMutex \in [Providers -> Threads \cup {NoThread}]
    /\ cached \subseteq Providers
    /\ initialized \in [Providers -> BOOLEAN]
    /\ operations \in [Providers -> Nat]
    /\ references \in Nat
    /\ initComplete \in BOOLEAN
    /\ complete \in [Providers -> BOOLEAN]
    /\ subscriptions \in [Providers -> 0..(CountRange - 1)]
    /\ enabled \in [Providers -> BOOLEAN]
    /\ \A p \in Providers : handler[p] \in handlers[p] \cup {0}
    /\ life \in [Providers -> {"none", "live", "terminated"}]
    /\ usedHandler \in [Providers -> Nat]
    /\ accepted \in [Providers -> Nat]
    /\ disturbed \subseteq Providers
    /\ leaked \in Nat

InProvider(t, p) == thread[t].at \in Inside /\ thread[t].provider = p

\* A provider is called, and has a handler for its indications, only while it is
\* initialized and its library is loaded, however requests, unloading and
\* stopping interleave.  (After a terminate() that throws it is called again.)
CalledWhileLive ==
    \A p \in Providers :
        /\ (\E t \in Threads : InProvider(t, p)) => life[p] # "none" /\ references > 0
        /\ usedHandler[p] # 0 => life[p] # "none" \/ p \in disturbed

\* Each initialized provider holds the library once, and nothing else does, but a
\* provider of which createProvider, or initialize() and then terminate(), has
\* thrown: the library can be unloaded, and it is when the last of them is.
ModuleReferenced == references = Cardinality({p \in Providers : initialized[p]}) + leaked

\* "The IndicationResponseHandler object remains valid until the
\* disableIndications method is called": unless subscription requests overlapped.
HandlerValid ==
    \A p \in Providers \ disturbed : usedHandler[p] # 0 => usedHandler[p] \in handlers[p]

\* Nobody is about to change the indications of the provider.
Settled(p) ==
    \A t \in Threads :
        /\ thread[t].job \in {"create", "delete"} => thread[t].provider # p
        /\ thread[t].job = "complete" => thread[t].at = "visit" /\ p \notin thread[t].left

\* The first subscription enables the indications of a provider and the last one
\* disables them, also around the end of the initialization, when the provider
\* is loaded late, unloaded or disabled.  Except (disturbed) where two such
\* requests overlapped, a subscription was rejected, enableIndications threw,
\* the provider was not initialized when the initialization ended, or was
\* unloaded with subscriptions or while one was about to be deleted.
IndicationsFollow ==
    initComplete =>
        \A p \in Providers \ disturbed :
            initialized[p] /\ Settled(p) => (usedHandler[p] # 0 <=> accepted[p] > 0)
=============================================================================
