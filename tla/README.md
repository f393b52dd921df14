# A verification project for OpenPegasus

OpenPegasus is a CIM server: it answers CIM operations of clients (over
CIM-XML and WS-Management), forwards them to providers, and sends the
indications that providers generate to the listeners that subscribed to them.
This directory holds TLA+ models of its concurrent core, the TLC runs that
check them on small instances, and proofs about them. Source paths below are
relative to `src/src/Pegasus/`.

## 1. Inventory

| Component | State | Operations | What is hard |
|---|---|---|---|
| Destination queues (`HandlerService/DestinationQueue`) | one queue of indications per listener destination, delivery status, sequence number, size, four drop counters, shared retry parameters | enqueue, getNextIndicationForDelivery, updateDeliveryRetrySuccess / Failure, deleteMatchedIndications, cleanup, shutdown, setters | retries must not reorder; discarding while a delivery is under way; sizes, intervals and lifetimes that change; stale clock readings |
| Indication handler service (`HandlerService/IndicationHandlerService`) | table of queues with a read-write lock, list of dispatched indications, count of delivery threads, flags | service threads enqueue, discard, clean up; a dispatcher thread; a pool of delivery threads | lock with waits inside, lost wake-ups, thread start failures, stop during work |
| Delivery status (`Common/IndicationRouter`) | table of waiting senders; per indication the expected and received responses | deliverAndWaitForStatus, notify, complete, incExpectedResponseCount, expectedResponseCountSetDone | an object that deletes itself when the last response arrives; time-outs |
| Indication service (`IndicationService`, `SubscriptionRepository`, `SubscriptionTable`) | subscriptions, uncommitted create requests, indications that wait for them | create / modify / delete subscription, process indication, terminate and enable provider | indications that arrive while a subscription is being created |
| Pull operations (`Server/EnumerationContext`, `EnumerationContextTable`, `CIMOperationRequestDispatcher`) | one context per open enumeration: cache, flags, saved request, timer; table; timer thread | open, pull, close, provider responses, time-outs | producer and consumer around one cache, late provider responses, deletion by whoever is last |
| Message queues and threads (`Common/MessageQueueService`, `AsyncQueue`, `ThreadPool`, `ReadWriteSem`, `Semaphore`) | queues of messages, polling thread, pools of threads | send with and without waiting, dispatch, allocate and awaken, idle clean-up | wake-ups, pool limits |
| HTTP transport (`Common/Monitor`, `HTTPConnection`, `HTTPAcceptor`) | connections, partial requests | accept, read, write, time-out | chunk ordering, connection deletion |
| Provider managers (`ProviderManager2`: Default, CMPI, JMPI) | table of providers, of each whether it is initialized, its operations, its subscriptions, its response handler; references to the library | look up, load and initialize, begin and end an operation, unload idle ones, disable a module, stop all, end of the subscription initialization | use racing unload; counts tested outside their mutex; providers that throw in the middle |
| Out-of-process agents (`ProviderManagerRouter`, `ProviderManagerService`, `ProviderAgent`) | a container for each agent with its table of outstanding requests, an aggregator for requests to several agents | start an agent, write a request, read responses, clean up after an exit, retry, shutdown flag, cleanup of requests without a client | an exit or a crash between request and response; a response read while its sender works; ids that are addresses |
| Provider registration (`Server/ProviderRegistrationManager`) | registration table | register, look up, status | data in the repository |
| Repository (`Repository`: `CIMRepository`, `FileBasedStore`, `InstanceIndexFile`, `InstanceDataFile`) | classes, instances, qualifiers, on disk; rollback files and state files of a transaction | create, modify, delete, compaction, begin / commit / roll back, recovery at start | a crash or a failure between two writes, and another one while recovering |
| Server state (`Server/CIMServer`, `ShutdownService`, `CIMServerState`) | server state, active requests | start, shutdown with time-out | shutting down under load |
| Configuration, security, queries, compiler, client, listeners, export server, WS-Management, control providers | tables, sessions, expressions | various | mostly data, or a front end of the above |

A message travels like this: a provider calls its response handler; the router
sends CIMProcessIndicationRequestMessage to the indication service and waits
for its status; the indication service matches the subscriptions and sends one
CIMHandleIndicationRequestMessage for each to the handler service; the handler
service queues it for its destination; the dispatcher hands it to a delivery
thread, which exports it to the listener and reports how that ended.

What makes each part correct:

- a destination queue: the listener sees indications in order, one at a time,
  each is accounted for once, and what was discarded is not delivered later;
- the handler service: no queue is deleted under a delivery, no two deliveries
  of one destination overlap, whatever is dispatched is taken, and every
  request is answered;
- the delivery status: the sender is answered once, not before the
  destinations have its indication, and nobody uses the aggregator afterwards;
- the indication service: the active table agrees with the repository, no
  indication is matched before its subscription is there, and none waits for
  ever;
- pull operations: the client that is told that the enumeration is complete
  has every object, a context is removed by one thread after all others are
  done with it, and neither a request nor a provider waits for ever;
- the repository: a change is there as a whole or not at all after any crash
  but the two kinds of section 6, and the server can always be started;
- agents: a request is answered once, by the response that is its own, when
  nobody works on it any more, and no provider sees it twice; a request to all
  agents when each has responded (not so: when nobody works on it, section 6);
- provider managers: a provider is called only while it is loaded, its library
  is let go with the last of them, and it sends indications exactly while it
  has subscriptions, to a handler that exists.

## 2. Modules

| Module | Models | State and actions |
|---|---|---|
| `IndicationChannel` | the promise of a destination queue | accepted, pending and attempted indications; `Accept`, `Attempt`, `Finish`, `Discard` |
| `DestinationQueue` | `DestinationQueue.cpp` and its callers | the members of the class, one action for each method (each holds `_queueMutex` throughout); a request that waits for a status other than PENDING is two actions, `Begin...` and the rest |
| `DestinationQueueProofs` | theorems about the queue | |
| `IndicationHandlerService` | `IndicationHandlerService.cpp` | the table and its lock, the dispatcher's round, the pool of delivery threads, the service threads; a queue is a number and two flags here |
| `IndicationHandlerServiceProofs` | theorems about the threads of the service | |
| `DeliveryStatus` | `IndicationRouter.cpp` with the code that calls it in the indication service and the handler service | sender, aggregator, one request for each subscription; an action for each step between two points where another thread may come in |
| `DeliveryStatusProofs` | theorems about the delivery status | |
| `IndicationSubscriptions` | creation, deletion and waiting indications in `IndicationService.cpp` | the four tables, the threads that create and delete, the indications |
| `IndicationSubscriptionsProofs` | theorems about the tables of the indication service | |
| `EnumerationContext` | pull operations | the members of a context, the table, request threads, one provider thread for each context (the code serialises them with a mutex), the timer thread |
| `EnumerationContextProofs` | theorems about pull operations | |
| `AtomicStore` | the promise of the repository | contents, the request of the writer; `Perform`, `Answer`, `Crash`, and `Expose` and `Restore` of a class without instances |
| `InstanceStore` | the instances of a namespace in `FileBasedStore.cpp`, `InstanceIndexFile.cpp` and `InstanceDataFile.cpp` | index, data, rollback and state files; an action for each effect on the file system, for a failure of it, for a crash, and for the constructor's recovery |
| `InstanceStoreProofs` | theorems about the store, and that it implements `AtomicStore` | |
| `ProviderAgents` | `OOPProviderManagerRouter.cpp` and `ProviderAgent.cpp` | sender threads, containers with mutex and table, reader threads, agent processes and both pipes |
| `ProviderAgentsProofs` | theorems about requests to agents | |
| `ProviderLifecycle` | `DefaultProviderManager.cpp`, `ProviderStatus.cpp`, `ProviderMessageHandler.cpp` | the members of the manager and of each provider, threads that handle requests; an action for what happens under the status mutex, or between two places where another thread may come in |
| `ProviderLifecycleProofs` | theorems about the provider manager | |

Every `MC...` module extends its module with model values, symmetry sets and,
where only a run needs them, timing assumptions; those that theorems rest on are
in the module itself (`DisciplinedSpec`). The modules do not share variables:
`DestinationQueue` is the detail of one queue of `IndicationHandlerService`,
and `DeliveryStatus` takes from both what it sees of them (a request is
enqueued, delivered at once, or refused, and is completed later). In the same
way `ProviderLifecycle` is what goes on inside one agent of `ProviderAgents`, or
inside the server.

Data are abstracted: an indication is its place in the order of arrival, a
subscription or a destination a model value, an object of an enumeration is
counted. Messages, XML, traces and logs are left out. Time in
`DestinationQueue` is a clock of few ticks, because its arithmetic (attempts
charged for the time an indication waited, life times, a stale reading of the
clock) is what could be wrong; elsewhere a time-out may end at any moment. An
instance of the repository is one block of the data file, torn while it is
written. Provider methods succeed or throw, as the model chooses.

Two abstract specifications. `DestinationQueue` implements `IndicationChannel`
under the mapping at the end of the module, where a queued or outstanding
indication is pending. A dispatch that drops expired indications and hands out
the next is one `Attempt`. `InstanceStore` implements `AtomicStore` when the
contents of a class are what a restart would make of its files at that moment: a change
takes effect when the commit state file is created or, when the files are
compacted, when the data file is replaced. A class whose index would be a file of
no bytes shows as `Blank`.

## 3. Runs

| Run | Instance | Shows |
|---|---|---|
| `DestinationQueue` | two subscriptions, three indications, queue of 1 to 2, clock from 2 to 5, attempts and interval that change, the feature switched off and on | types, accounting, bounds, honest counts of attempts, silence while switched off, order on the wire, and the channel as a refinement |
| `HandlerService` | two destinations, two service threads, two delivery threads, one indication kept for each | queues live as long as their deliveries, deliveries of a destination are single, counts are exact, cleanup is never forgotten; the pool may fail to start a thread |
| `HandlerServiceLiveness` | the same with one service thread and one delivery thread, `FairSpec` | every dispatched indication is taken and every request answered, unless an indication is `Stranded`, and when a stranded one is taken after all |
| `DeliveryStatus` | one sender of two indications, two subscriptions, all kinds of requests but those completed before they are delivered (section 6), time-outs | one response for each indication, at the right time, and no use of the aggregator after it |
| `DeliveryStatusOrder` | two senders, requests queued or delivered directly, no time-outs | order at the destination, the right response ends the wait, and it does end |
| `Subscriptions` | two threads, two paths created twice, one indication, requests for one path that overlap | the tables agree unless a path went `astray`, nothing else is matched early, what waits is delivered |
| `Enumeration` | one enumeration, two request threads, three objects, three requests, `DisciplinedSpec` | no object lost, one removal, everybody let go |
| `InstanceStore` | two classes, two names, two values, four requests, two crashes at any step but the three of a compaction or a class deletion, failing file operations, headers that are not written, compaction at two free entries | a change is atomic across crashes (`AtomicStore`, which says what may become of a class without instances), the server can always be started, nothing of a transaction is left behind, and the data files have no gaps |
| `ProviderAgents` | two agents, two requests of five types, two addresses, one exit, one chunk of a response, starts that fail, clients that leave | a request is answered once, by its own response, in full and last, is processed once and not forgotten |
| `ProviderLifecycle` | two providers of one library, two threads, five requests of eight kinds | providers are called while they live, the library is counted, handlers are valid, indications follow subscriptions |
| `FreedAggregator` | violation: one sender, one subscription | the handler service reads the aggregator after giving it away |
| `CompactionCrash` | violation: one class, three requests, one crash, which may come in a compaction or a class deletion | a crash in a compaction leaves an index that points at the wrong bytes |

`TypeOK` is an invariant of the run `DestinationQueue`. The types of every
module are proved (section 5).

Some properties except cases in which the code does not keep them. The history
variables and operators that say so are part of the modules, and section 6 says
what happens in each case: `disturbed` (subscription requests of one provider
that overlapped, providers that refused or threw) and `leaked` (a library whose
reference nobody returns) in `ProviderLifecycle`; `astray` (a path inserted in
the active table after its deletion, or removed from it after it was created
again) in `IndicationSubscriptions`; `CleanedUp` (requests whose
client is gone), `Miscounted` (broadcasts after a stop) and the place `dropped`
(a retry that failed) in `ProviderAgents`, where `AnsweredInFull` speaks of the
sender of a broadcast only if the broadcast goes to one agent: with two, the
sender may still use a request that is answered (section 6); `Blank` in `AtomicStore` and the steps
that are not in `UnprotectedCrashes` in `InstanceStore`.

Why the bounds are enough. Order, overlap and deletion are about two
indications of one destination, or about two threads and one object; a third
indication is there so that one can be dropped in the middle, or come while one
is out and one is queued. The queue sizes 1 and 2 make every enqueue meet a
full queue; the clock reaches past a life time (attempts x interval x factor).
A Uint16 has 8 values in place of 65536 and 10 life-time intervals are 2. Two
delivery threads are enough for one to leave while the other is counted. The
cache of an enumeration sleeps above one object, so that the second puts the
provider to sleep and a third is still to come; the timer gives providers up
after three empty answers in place of nine (three is the least that the code
allows, which gives up three after the first warning).

In `InstanceStore` two creations, a deletion and a modification make two free
entries, so that a compaction (after 2 in place of 16) finds entries to move;
two classes let the state file of one meet the rollback files of the other; the
second crash may hit the recovery from the first. A first creation that stops
before its rollback file has a header, and a second one, make a misread index. In `ProviderAgents` a request
that has been answered leaves its address to another; one exit meets requests
at every stage on the way to and from the agent, and after it the agent may be
started again. In `ProviderLifecycle` five requests are a subscription created,
the end of the initialization, and a deletion, an unload or a stop with one more
to interfere; the count of subscriptions has 8 values in place of 2^32. Two
providers share the library, so that one can be unloaded while the other is
called.

`MaxKept`, `MaxSent`, `MaxCreations`, `MaxIndications`, `MaxArrivals`,
`MaxTime`, `MaxObjects`, `MaxRequests`, `MaxCrashes`, `MaxProcesses`,
`MaxChunks`, `MaxExits` and `MaxJobs` only end the behaviours; deadlock is not
checked because they do.

What they leave out: several destinations in one queue model (queues share
nothing but the parameters), several enumerations, several namespaces (each has
files and state files of its own), more than two threads in a provider. With
two enumerations, one request and one object each, 2.7 million states were
searched without an error, not all there are; a second context also shows that a
context created between the timer thread's last look at the table and its end has no
timer thread until the next timer is set.

## 4. Fairness and timing

Weak fairness of each thread's own steps: threads are not starved by the
scheduler. Strong fairness of taking the table lock of the handler service
(`LockForWrite`, `CreateAndEnqueue`, `BeginRound`), which others take again and
again. The clock and retry intervals go on, a time-out ends (`Expire`), but
nothing makes clients send requests or providers answer in `Enumeration`.
`InstanceStore`, `ProviderAgents` and `ProviderLifecycle` state no fairness and
no liveness: whether a provider returns, an agent reads its pipe or a disk
writes is not up to this code.

In `IndicationSubscriptions` an indication may be inserted among the waiting ones
just after the last creation ended, and then waits for the end of the next one,
if there is one; `WaitingIsDelivered` speaks of those that wait while a creation
is under way.

One run adds timing assumptions, because the code does not keep its promise
without them. Each excludes a race that TLC finds otherwise:

- `DisciplinedSpec` (enumerations): nothing happens to a context between the
  lookup of a request and its lock (otherwise a pull is accepted on a closed
  context, or uses a deleted one); no close comes between the end of a time-out
  and the timer thread's round (`LateSpec` drops this assumption, and TLC finds
  the late close of section 6); no pull of another type comes
  while a request is saved (it closes the context, and the provider's next
  response deletes the saved request without an answer); and a provider's
  response gets the lock before the next time-out ends.

## 5. Proofs

`DestinationQueueProofs` proves for every value of the constants that satisfies
the assumptions of `DestinationQueue` (sizes ordered and positive, retry
parameters natural, a positive default interval):

| Theorem | Says |
|---|---|
| `TypeCorrect` | `Spec => []TypeOK` |
| `QueueInOrder`, `OnlyOnePending`, `DeletedQueueIdle` | the queue is in order of arrival and newer than what is out; at most one indication is out, when the status is PENDING; a deleted queue is idle |
| `WireOrdered` | indications never go backwards on the wire |
| `BoundedQueue` | the queue is never longer than its current size limit, although the limit shrinks |
| `AllAccounted` | whatever was numbered is queued, out, delivered, or in one of the drop statistics |
| `AttemptsHonest` | an indication is charged at most one attempt for each interval since it arrived, as long as nobody makes the interval longer (`[][minInterval' <= minInterval]_vars`, which the values of the run also give) |
| `SilentWhenInactive` | an action property: when the request that ends a subscription returns, none of its indications is queued or out |
| `QueueImplementsChannel` | every step of the queue is one of the channel, or a stutter |

The inductive invariants:

- `TypeInv` is `TypeOK` and `Ages`: no time is ahead of the clock. It is needed
  to see that the attempts charged at a dispatch are natural numbers.
- `OrderInv` is `OnePending`, `InOrder`, `DeletedIdle` and `IdsKnown`. The order
  alone is not inductive: a new indication is last only because nothing is
  numbered above `arrivals`, and a failed one may be put in front only because
  it is older than everything queued and the only one out. `IdsKnown` says both
  and that the last one attempted is not newer than any that is left, which
  gives `WireOrdered`.
- `SizeInv` is `QueueBounded` and `Numbered`: the limit is computed from the
  sequence number, so it can only shrink to a value that the queue respects.
- `Balanced` is `Accounted` as a sum. It rests on `OrderInv`: at most one
  indication is out, so an attempt that ends takes one from the sum, and a
  deleted queue has nothing left to count. What a scan or a cleanup drops is the
  difference of two lengths, so no induction over the queue is needed.
- `EarnedInv` bounds attempts times interval by the time since the arrival, for
  what is out by the clock and for what is queued by its last attempt and one
  interval more. It rests on `Ages`; a charge that wraps at 2^16 only gets
  smaller.

The refinement uses `OrderInv`: what is dispatched is the oldest pending
indication because the queue is in order, and no other is being attempted.

`IndicationHandlerServiceProofs` proves every safety property of the run
`HandlerService`, for any sets of destinations and service threads, any finite
pool and any `MaxKept`, whether or not a thread may fail to start:

| Theorem | Says |
|---|---|
| `TypeCorrect` | `Spec => []TypeOK` |
| `CountCorrect` | the count of running delivery threads is exact |
| `QueuesOutliveDeliveries` | no queue is deleted while an indication of it is handed out |
| `PendingMatchesOut` | a status is PENDING exactly while an indication is handed out |
| `OneDeliveryEach` | at most one indication of a destination is handed out |
| `CleanupNotForgotten` | while a queue exists its cleanup is due or under way |

The inductive invariants:

- `TypeInv` is `TypeOK`, `CountExact` and that a delivering thread has a
  destination. The count is part of it because `Leave` decrements a natural
  number: it is positive only because the thread that leaves is counted.
- `SafeInv` adds `PendingIsOut`, `QueueOutlivesDelivery`, `Distinct` and `Locks`.
  A deletion waits until the status is not PENDING, which says that nothing is
  handed out only by `PendingIsOut`; an attempt that ends resets the status,
  which is right only because no other indication of that destination is out
  (`Distinct`); and what the dispatcher hands out is of a queue in the table
  because nobody holds the WriteLock while it is in a round (`Locks`).
- `CleanupInv` adds `CleansAll`: a cleanup under way has every queue left to
  delete, because no queue is created under its lock; so it may clear the flag
  before it begins.

`ProviderLifecycleProofs` proves the four properties of the run
`ProviderLifecycle`, and the types, for any finite sets of providers and
threads, any number of requests and any range of the subscription count that
exceeds it:

| Theorem | Says |
|---|---|
| `TypeCorrect` | `Spec => []TypeOK` |
| `LibraryCounted` | the library is referenced once for each initialized provider, and for each failed start that leaked it |
| `CalledOnlyWhileLive` | a provider is called only while it is initialized and its library is loaded |
| `HandlerStaysValid` | the response handler that a provider uses exists, unless requests for its subscriptions overlapped |
| `IndicationsFollowSubscriptions` | a provider sends indications exactly while it has subscriptions, when the initialization has ended and nobody is about to change them, unless it was disturbed |

The inductive invariant `SignalInv` has three layers:

- `TypeInv`: the types, where each thread may be for its request (`Placed`),
  and `Counted`, that `_currentOperations` of a provider is the number of
  threads that `Busy` names. The count cannot be left out of the types:
  `End` decrements a natural number.
- `LoadInv` adds `Holds` (the end of the initialization holds the status mutex
  of the provider it is in), `BusyLoaded` (nobody is in a provider that is not
  initialized), `LoadedLives` and `ModuleReferenced`. A provider is unloaded
  when its mutex is free and its count is 0: by `Counted` no request is in it
  and by `Holds` the end of the initialization is not either (`IdleProvider`),
  which is why `BusyLoaded` survives.
- `OneSignals` and `Enabled` are about providers that are not `disturbed`: one
  request at a time works on the indications, so the handler between the call
  of `enableIndications` and the note of it, or between `disableIndications`
  and the deletion, is not touched by another.

The last property relates the subscriptions accepted to what every thread will
still do, which takes a second invariant, `FollowInv`, proved upon the first:

- `CountRight`: the count of subscriptions is that of the accepted ones and of
  the deletions on their way. A provider that is not initialized has neither, so
  no deletion finds it unloaded and gets lost. `Bounded` says that the requests
  bound the counts, so none wraps, and `Numbered` that no handler is 0.
- `Ready`: once the manager knows that the initialization is complete, every
  provider in its table (`Listed`) does, except those that the request for it has
  yet to visit (`Told`).
- `OneForAll` and `Disabling`: the end of the initialization and the disabling of
  the service exclude each other, and nobody has a subscription during the second.
- `Follows`: a provider that nobody signals uses a handler exactly if its
  initialization is complete and its count is not 0; while the one request that
  `OneSignals` allows does, `Knows` says what it has found out so far and what it
  may still rely on when it acts.

As in `SignalInv`, `CountRight`, `Ready` and `Follows` except the providers that are
`disturbed`.

`DeliveryStatusProofs` proves the safety properties of both runs of the delivery
status, for any threads, indications and handlers and any finite set of
subscriptions. The run `FreedAggregator` does not contradict them: it is about a
provider that waits for the delivery, which `AggregatorKept` excepts.

| Theorem | Says |
|---|---|
| `TypeCorrect` | `Spec => []TypeOK`; neither count of an aggregator exceeds the number of subscriptions |
| `AggregatorNotFreedEarly` | nobody uses an aggregator that was deleted |
| `OneAnswer` | one response for each indication |
| `AnswersEarned` | no response before the destinations are done with the indication or, if the provider need not wait, have it; where no handler completes its requests first (`"direct" \notin Kinds`) |
| `OneSenderInOrder` | a destination gets the indications of one thread in order, if no wait times out and no provider waits for the delivery (`Waiting`, the values of the run `DeliveryStatusOrder`) |

The inductive invariant `StatusInv` compares both counts of an aggregator with
sets: `expected` with the requests that were sent (less the one that the
indication service is about to count), and `current`, while the aggregator
exists, with the requests that were completed (`Counted`). They are equal, with
`setDone`, only when every request that will ever be sent was sent and
completed; so the thread that finds them equal is the last user (`LastDeletes`).
`Handed` says that a queue holds an indication once, which makes a completion
happen once. `NoneFirst` is where `AnswersEarned` uses its hypothesis. `OrderInv` adds `Past`: all indications of a thread but its last
one were answered.

`IndicationSubscriptionsProofs` proves three properties of the run
`Subscriptions`, and the types, for any finite set of threads, any paths,
indications and number of creations, with requests for one path that overlap in
any way:

| Theorem | Says |
|---|---|
| `TypeCorrect` | the types; never fewer uncommitted creations than none, nor more than threads |
| `CountedExactly` | the count of uncommitted creations is exact, and no path stays reserved for a creation that is over |
| `TableRight` | a path that no request is about is in the active table when it is in the repository, unless it went astray |
| `NoIndicationLost` | an action property: no indication is matched before its subscription is active, unless its path went astray |

The inductive invariant `SubscriptionInv` says of each path which of the threads
that are about it still has to bring the active table in agreement with the
repository (`Synced`), and of each creation that its instance is in the
repository or was deleted since (`Stored`). `Known` and `LetThrough` follow an
indication: its incarnation is being created, is in the repository or was ended
(`Alive`), and once it passed the test of the counter, it is active too, or ended,
or astray (`Settled`). That test may only be trusted because `Counted` holds for
all paths together. Each step of a thread about a path is one lemma, which shows
that the step does `IncarnationMoves` and `TableMoves`; what these keep is proved
once (`PathsMove`, `Lasting`).

`EnumerationContextProofs` proves the invariants of the run `Enumeration`, the
types, and an assertion of the code, for any numbers of enumerations, request
threads, objects and requests, for `DisciplinedSpec`. It assumes that providers
are given up after the third empty response or later (`FinalTargetCount` is 9 in
the code, three more than the count at which it warns):

| Theorem | Says |
|---|---|
| `TypeCorrect` | the types; the cache exceeds its limit by one response at most |
| `RemovedByOne` | one of the request, the provider and the timer thread removes a context, when the others have done with it; but not if the providers answer while they are given up (section 6) |
| `ObjectsKept` | what the providers delivered was delivered to the client or is in the cache, while the context is open; all of it was delivered when the client is told that it is complete |
| `CleanedWhileInUse` | what the timer thread cleans is in the table, locked, and closed or in use (the assertion in `_cleanActiveContext`) |

The inductive invariant `EnumInv` gives each context its threads: the request
that is processed (`Serving`: it is being issued, or saved), the one that has
found the context (`Looking`), the timer thread's list (`Cleaning`) and the one
thread that removes it (`Removing`). A thread becomes the one that removes the
context in the step that makes the context both closed and complete, or, as the
timer thread, by taking the lock of one that is; so two can only be there if one
of them ran without the lock. `Providing` says that a complete context has no
response on its way: the timer thread completes a context too, but it counts
from the last response, and `ResponsePrompt` lets no time-out end while one is
being put. A response that comes after the final count is too late for that; the
contexts that have one are in `overtaken`, and the invariant says what is left of
the others' promises for them: they are closed and complete, nobody of the client
removes them, and they are deleted or about to be. `Summed` is `NothingLost` with what a closed context keeps of it.

`InstanceStoreProofs` proves every property of the run `InstanceStore` and the
types, for any set of classes that is not empty, any names and values, any
numbers of requests and crashes and any limit of free entries, if no crash hits
the three steps of compaction and of the deletion of a class that the rollback
files do not cover (`Protected`; the run `CompactionCrash` shows what happens
otherwise). A rollback file that has no header yet, or never gets it, is covered
by the theorems:

| Theorem | Says |
|---|---|
| `TypeCorrect` | the types of the files |
| `StartupComplete` | the next start of the server comes to its end, whenever the server crashed |
| `NothingLeft` | between requests no rollback or state file is left |
| `EntriesContiguous` | between requests the entries of an index, with or without a header, cover the data file, and its count of free ones is right |
| `StoreImplemented` | every step of the files is one of `AtomicStore`, or a stutter: what a lost header costs is one class without instances, turned `Blank`, and what is created in it next |

The inductive invariant `StoreInv` says which state files there are at each step
(`Progress`), which classes may have rollback files (`Pending`), what these hold
(`Saved`), and that what the next start would make of the files of every class
agrees, index with data (`Consistent`, with `Recoverable`). That is stronger than
what the files are: it is kept by a crash because a crash changes no file, and by
each step of the recovery because the rest of the recovery makes the same of
what it leaves. The refinement uses `Made`: when the commit state file is
created, the files hold the old contents with the change of the request.

`ProviderAgentsProofs` proves every property of the run `ProviderAgents` and the
types, for any finite set of agents, any requests, addresses, chunks and exits of
agent processes, and any failure of a write or a start. As in the run, no
address is given to a new request while a response to the old one may come
(`Fresh`, that is `~StaleReuse`; section 6):

| Theorem | Says |
|---|---|
| `TypeCorrect` | the types |
| `OneAnswerEach` | a request is answered at most once, with its own response |
| `AllAgentsAnswered` | a broadcast is answered when each agent that was asked has responded or is gone and nothing is left to be written; if there is one agent, when its sender has done with it, too (with several the code does not keep that, section 6) |
| `AnsweredAfterUse` | an operation is answered when its sender, the tables and the readers have done with it |
| `OperationsProcessedOnce` | an operation is sent again only if no provider has begun it |
| `NoneForgotten` | an operation without an answer is with its sender, in a table or with a reader, unless its retry was dropped |

The inductive invariant `AgentsInv` follows tokens. A request is pending at an
agent while it is to be sent there or is in the agent's table; whoever takes the
entry out of the table holds it, and the mutex of the container lets one thread
do that. An operation has one token (`OneToken`), so it is answered once; with an
aggregator the responses counted and the tokens left never exceed what is
expected (`Counts`), so one response is the last. `Labelled` and `Unique` make the
response lead to its own entry: two live requests have different ids. `Followed`
says where a request is between its entry and its response, which is why an exit
of the agent that finds it not begun may send it again. `Solo`, a second inductive
invariant, says of a broadcast to one agent that its sender, its entry and its
reader are all at that agent (`Places`), so that the mutex for which the reader
waits is the one that the sender holds. With a second agent it need not be, and
there the argument, and the code, fail.

Only model-checked: liveness and everything else under fairness, which together
with ENABLED are out of the prover's reach. Each safety invariant of a passing run
is stated by a theorem.

## 6. Known limits of the code, and what is not modelled

What the models show the code not to do, besides the two findings. The
assumptions of section 4 and the exceptions of section 3 leave these cases out
of what the runs check:

- Destination queues: sequence numbers start again after reliable indications
  were switched off and on (`DestinationQueue.cpp:210`), with the same sequence
  context, against the MOF description of CIM_Indication. The static retry
  parameters are written under `_initializeMutex` and read under each queue's
  own (724); `maxIndicationDeliveryRetryAttempts` is validated as a Uint32 and
  cut to a Uint16 (`IndicationHandlerService.cpp:954`).
- Handler service: an indication may be left on `_deliveryQueue` with its queue
  PENDING (`Stranded`), because the delivery threads that found the queue empty
  (`IndicationHandlerService.cpp:1264`) still counted (1270), or were not yet back
  in the pool, when the dispatcher decided to start none (1200). The next dispatch
  of another destination has it taken; a request that waits for it with the
  WriteLock (914) blocks the dispatcher, and then nothing does. The run
  `HandlerServiceLiveness` reaches this and shows it to be the only exception.
- Indication service: "This table contains an entry for each subscription that
  is enabled" (`SubscriptionTable.h:63-65`) fails of a path in two orders, in which
  it goes `astray`. A creation that has read the instance back inserts it
  (`IndicationService.cpp` 8507-8535) after a deletion of it is over (2975-3016):
  the deleted subscription stays active and, as its commit reserves the path
  again, can neither be created nor deleted until the server is restarted. And a
  deletion removes from the active table (3016) what was created and inserted
  again since it left the repository: the subscription exists and gets no
  indication. `TableComplete` and `NoneLost` hold of all other paths;
  overlapping creations keep every indication waiting (1931), and what waited
  is handled at the same time as newer indications (1938); `deleteInstance`
  changes the normalized table without its mutex
  (`SubscriptionRepository.cpp:1236`).
- Delivery status: with reliable indications disabled, and for SNMP, log, e-mail
  and file handlers, `complete` is called first and the indication delivered
  afterwards (`IndicationHandlerService.cpp` 432-436, 463-467, 503-507), also for
  a provider that waits for the delivery, against `IndicationRouter.h:127-128`
  ("will be sent only after the indication is delivered"). `AnsweredWhenDelivered`
  is false of these: with `"direct"` among the `Kinds` of its run TLC finds the
  response of a waiting indication sent before its attempt ends. An indication
  that is deferred because a subscription is being created is likewise answered at
  once and forwarded later, without an aggregator (`IndicationService.cpp`
  3287-3300); `DeliveryStatus` has no deferral. A response that
  comes after the time-out meets the entry of the next indication of that thread,
  which has the same key (`IndicationRouter.cpp:88`).
- Pull operations: a close that is rejected because a request is processed
  clears the timer of a context whose time is over
  (`CIMOperationRequestDispatcher.cpp:7647`, against
  `EnumerationContextTable.cpp:120-124`), and the enumeration and its provider
  have no end (`LateSpec`). The timer thread gives providers up after a final
  count (`EnumerationContextTable.cpp:703`) and deletes the context (763) without
  the lock of the table, against the comment at 416-417. A response that comes in
  between clears the counter (`CIMOperationRequestDispatcher.cpp:1021`) in vain,
  waits for the lock of a context that is deleted (1036), and uses it, or removes
  it a second time. The model has these steps (`CountEmpty`, `CleanActiveContext`,
  `RemoveGivenUp`); the history `overtaken` collects the contexts that it happens
  to, and `ReleasedOnce` is false of exactly these: without that exception TLC
  finds the second remover. What a thread reads in a deleted context, and a hash
  table that two threads change at once, are undefined and not modelled.
- Agents (`OOPProviderManagerRouter.cpp`): a request sent again whose agent
  cannot be started is dropped with its error response (1536), as are the
  counted responses of broadcasts. `_sendResponse` takes the mutex "to make sure
  that _processMessage thread has finished processing the request" (1741-1743),
  but only that of the agent that responded last. When a broadcast has gone to
  several agents and the one that was written last responds before another, the
  answer is given, and the request freed, while its sender may still be between
  1219 and 1263 and use it. The model has these steps (`SendResponse` or
  `Uninitialize` at one agent, the sender `"written"` at another); `AnsweredInFull`
  states that this needs several agents, and claims no more of the sender. What
  the sender reads of a freed request is undefined and not modelled. Broadcasts
  after a stop count the stop's
  default response twice (1141); the cleanup of requests without a client does
  not wait for their senders (1369); enable and disable requests that are
  retried after a clean exit have no aggregator and meet the assertion at 844;
  the loop that starts retry threads (922-941) passes parameters that it has
  released when its second attempt succeeds. Ids are addresses, so a late
  response may be taken for that of a new request (`StaleReuse`).
  `enumerationContextCleanup` (`ProviderManagerService.cpp:930-956`) decrements
  `_idleTimeCleanupBusy` twice on one path.
- Provider managers: after a `terminate()` that throws the provider stays
  initialized and is called again (`CIMProvider.h:97-100`, 123-124). The
  reference to the library is leaked by a `terminate()` that throws while a failed
  `initialize()` is undone (`DefaultProviderManager.cpp:614`), and by a
  `createProvider` that throws once the library is loaded (`ProviderModule.cpp:77`);
  the history `leaked` counts both. A rejected `createSubscription` is counted. A first creation and a
  last deletion that overlap may free a handler in use or reset the count of a
  live subscription (`CIMIndicationProvider.h:96-100`). A provider that is not
  initialized when the initialization ends never has its flag set. The count
  wraps when a deletion comes after an idle unload. A disable request reports
  success although an operation began between the end of the wait and the lock.
  `_shutdownAllProviders` and `hasActiveProviders` wait for status mutexes with
  the table mutex held, while an `initialize()` or `terminate()` that calls the
  CIMOM may need the table: upcalls of providers are not in the model.
- Repository (`FileBasedStore.cpp`): `deleteClass` (1852-1864) removes two files
  outside any transaction; a crash between them leaves data without an index
  (`"removeData"` in `UnprotectedCrashes`). One state file decides for all
  classes (662). The rollback file of an index that does not exist is created
  first (`InstanceIndexFile.cpp:587`, from 931) and then gets its header, by a
  write whose result is not looked at (595). A crash between the two, or a write
  that fails and a transaction that is undone or rolled back, makes a file of no
  bytes the index (978-995, 1021). The class still reads as empty, but the entry
  written next begins at byte 0 and the first nine bytes are skipped (620): the
  instance is misread. This is in the model (`"header"`, `BlankIndex`, `Misread`)
  and in the run `InstanceStore`; `AtomicStore` allows exactly this (`Expose`,
  `Blank`), so it is no silent exception. Two limits: what requests make of a
  misread class is not followed (`Submit`), and a new index is taken to get its
  header when the entry that is written after it, and looked at, is written.

Simplifications within the models:

- Destination queues: the sequence context is the time the listener was
  created (the server start time is constant), a clock that runs backwards.
- Handler service: loading of handlers, the provider of
  PG_ListenerDestinationQueue, forwarding of exports to the export server.
- Indication service: modification and expiry of subscriptions, providers that
  are terminated or enabled, matching of filters.
- Pull operations: the limit of the table (one more context is admitted than
  `_maxOpenContextsLimit`), removal of all contexts at shutdown, data type
  mismatches of responses. With an operation time-out of 0 the timer of a
  delayed response stays on after the response and closes the enumeration; the
  model has this (`TimeoutSet = FALSE`), no run depends on it.
- Repository: one namespace and its instances; classes and qualifiers are one
  file each; associations, which are written after the commit, the SQLite store
  and the order in which a disk writes its pages are left out, and removals and
  renames succeed in commit and rollback.
- Agents: the targets of a broadcast are chosen in one step, `_initialize` and
  `_uninitialize` are one step each, requests that are retried go on when their
  sender is done with them, a request is cleaned up once. Indications and class
  definitions that cross the pipe, the module status in the repository, users
  and bitness of agents and the in-process router are left out.
- Provider managers: loading, the beginning of an operation and unloading are
  one step each, under the status mutex; idle times and `unload_ok` are choices;
  the notices of the indication service come one after the other, as the service
  sends them. The CMPI and JMPI managers do the same for other interfaces and
  are not modelled.

Not modelled: everything listed in the inventory that has no module. Server
start, state and shutdown wait with time-outs for the parts above. The transport
and its monitor, CIM-XML, WS-Management, the web server, the client library, the
listeners and the export server convert and carry messages; their state machines
are one connection each. Configuration, users, query engines, the MOF compiler,
provider registration and control providers are sequential code over data,
tested by examples. This is most of the repository by lines: of 780,000 about
7,000 are mapped here. The rest is, besides these, interfaces in several
languages to the same operations (CMPI, JMPI, C++), generated and vendored code
(SLP, schema tables), conversions between three encodings of the same messages,
test programs and ports to platforms: code whose lines say little that a model
could get wrong, or a state machine right. The modules are chosen by what is
hard to test, not by lines.

## 7. Plan

In this order, each with its runs:

1. two abstract specifications: a reliable response (one answer for each
   indication, after its destinations) for `DeliveryStatus`, and a stream with
   an end (objects in, the same objects out, then the end) for
   `EnumerationContext`, with refinements checked and proved;
2. message queues and thread pools as modules of their own, in place of the
   abstractions in the handler service;
3. modification and expiry of subscriptions, and providers that are terminated
   and enabled, in `IndicationSubscriptions`;
4. shutdown of the server under load, and connections of the transport.
