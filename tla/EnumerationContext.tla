------------------------ MODULE EnumerationContext ------------------------
(***************************************************************************)
(* Pull operations (Server/EnumerationContext.cpp,                         *)
(* EnumerationContextTable.cpp and the pull part of                        *)
(* CIMOperationRequestDispatcher.cpp).  An open request creates a context: *)
(* providers fill its cache, pull requests empty it, a request that finds  *)
(* nothing is saved and answered later by the provider's or by the timer   *)
(* thread.  The timer thread also closes the contexts of clients that do   *)
(* not come back.  A context is deleted by whoever finds that the client   *)
(* is done with it and the providers are complete.                         *)
(*                                                                         *)
(* Each context has a lock; the table has one, too.  What a thread does    *)
(* under a lock is one action, unless it gives the lock up meanwhile.      *)
(* Responses of the providers of one enumeration come one at a time, in    *)
(* the order of a mutex, so they are one thread here, and each carries one *)
(* object.                                                                 *)
(***************************************************************************)
EXTENDS Integers, FiniteSets

CONSTANTS
    Contexts,           \* enumerations
    Clients,            \* request threads, each with one request at a time
    Counts,             \* values of maxObjectCount
    CacheLimit,         \* _responseCacheMaximumSize
    TableLimit,         \* _maxOpenContextsLimit
    ZeroPullLimit,      \* MAX_ZERO_PULL_OPERATIONS
    FinalTargetCount,   \* empty responses after which providers are given up:
                        \* three more than the first for which they are warned
    TimeoutSet,         \* whether operationTimeout is not 0
    MaxObjects,         \* bound: objects the providers deliver
    MaxRequests         \* bound: pull and close requests for one enumeration

ASSUME EnumerationAssumption ==
    /\ IsFiniteSet(Contexts) /\ IsFiniteSet(Clients)
    /\ "none" \notin Clients
    /\ Counts \subseteq Nat
    /\ CacheLimit \in Nat /\ TableLimit \in Nat /\ ZeroPullLimit \in Nat
    /\ FinalTargetCount \in Nat \ 0..2
    /\ TimeoutSet \in BOOLEAN
    /\ MaxObjects \in Nat /\ MaxRequests \in Nat

VARIABLES
    ctx,        \* the members of each context
    table,      \* contexts in the table
    freed,      \* contexts that were deleted
    locked,     \* contexts whose _contextLock is held between actions
    tableLock,  \* whether _tableLock is held between actions
    client,     \* what each request thread does, for which context
    provider,   \* what the provider thread of each context does
    timeout,    \* the timer thread and the contexts it works on
    overtaken   \* history: contexts whose providers answered while they were given up

lockVars == <<locked, tableLock>>
vars == <<ctx, table, freed, lockVars, client, provider, timeout, overtaken>>

NoClient == "none"

NewContext ==
    [closed |-> FALSE, complete |-> FALSE, processing |-> TRUE, error |-> FALSE,
     cache |-> 0, saved |-> NoClient, savedCount |-> 0, timer |-> "off",
     empties |-> 0, zeroPulls |-> 0, given |-> FALSE,
     produced |-> 0, delivered |-> 0, ended |-> "no", requests |-> 0]

Idle == [at |-> "idle", on |-> {}, count |-> 0]

Init ==
    /\ ctx = [c \in Contexts |-> NewContext]
    /\ table = {}
    /\ freed = {}
    /\ locked = {}
    /\ tableLock = FALSE
    /\ client = [k \in Clients |-> Idle]
    /\ provider = [c \in Contexts |-> [at |-> "none", objects |-> 0, last |-> FALSE]]
    /\ timeout = [at |-> "stopped", remove |-> {}, active |-> {}, on |-> {}]
    /\ overtaken = {}

At(k, step, c) == client[k].at = step /\ client[k].on = {c}

Goto(k, step) == client' = [client EXCEPT ![k].at = step]

CanLock(c) == c \notin locked
-----------------------------------------------------------------------------
\* Operations of EnumerationContext, on its members x.

\* setClientClosed.
Closed(x) == [x EXCEPT !.closed = TRUE, !.processing = FALSE, !.cache = 0]

\* startTimer for the time between operations: not with a time-out of 0.
Waiting(x) ==
    [x EXCEPT !.processing = FALSE, !.timer = IF TimeoutSet THEN "on" ELSE @]

\* testCacheForResponses.
HasResponse(x, count) ==
    x.error \/ count = 0 \/ x.cache > 0 \/ x.complete

\* getCache.
Moved(x, count) ==
    LET n == IF x.error THEN 0 ELSE IF x.cache < count THEN x.cache ELSE count
    IN  [x EXCEPT !.cache = @ - n, !.delivered = @ + n]

\* Mutant of SequenceEnds: the objects still in the cache are forgotten.
ProvidersDone(x) == x.complete \/ x.error

\* setNextEnumerationState, continueOnError being refused by the server.
SequenceEnds(x) == (x.complete /\ x.cache = 0) \/ x.error

\* _issueImmediateOpenOrPullResponseMessage.
Issued(x, count) ==
    LET y == Moved(x, count)
    IN  IF SequenceEnds(y)
        THEN [Closed(y) EXCEPT !.ended = IF x.error THEN "error" ELSE "complete"]
        ELSE [Waiting(y) EXCEPT !.given = TRUE]

\* Mutant of Woken: the condition is never signalled.
Asleep(c, signalled) == provider[c].at

\* signalProviderWaitCondition.
Woken(c, signalled) ==
    IF provider[c].at = "asleep" /\ signalled THEN "check" ELSE provider[c].at

Signal(c, signalled) == provider' = [provider EXCEPT ![c].at = Woken(c, signalled)]

\* Mutant of StartTimerThread: the flag is tested the wrong way round.
OnlyIfRunning ==
    /\ ~tableLock
    /\ timeout' = IF timeout.at = "exit" THEN [timeout EXCEPT !.at = "sleep"] ELSE timeout

\* dispatchTimerThread, under the table's lock.
StartTimerThread ==
    /\ ~tableLock
    /\ timeout' = IF timeout.at = "stopped" THEN [timeout EXCEPT !.at = "sleep"]
                  ELSE timeout

\* A response that leaves the context as y started its timer.
TimerFor(y) == IF TimeoutSet /\ ~y.closed THEN StartTimerThread ELSE UNCHANGED timeout
-----------------------------------------------------------------------------
\* An open request: createContext, whose test lets one more in than the limit,
\* and the providers are asked.
Open(k, c, count) ==
    /\ client[k].at = "idle"
    /\ provider[c].at = "none"
    /\ ~tableLock
    /\ Cardinality(table) <= TableLimit
    /\ table' = table \cup {c}
    /\ provider' = [provider EXCEPT ![c].at = "running"]
    /\ client' = [client EXCEPT ![k] = [at |-> "issue", on |-> {c}, count |-> count]]
    /\ UNCHANGED <<ctx, freed, lockVars, timeout, overtaken>>

\* issueOpenOrPullResponseMessage.
IssueNow(k, c) ==
    LET x == ctx[c]
        y == Issued(x, client[k].count)
    IN  /\ At(k, "issue", c)
        /\ CanLock(c)
        /\ HasResponse(x, client[k].count)
        /\ ctx' = [ctx EXCEPT ![c] = y]
        /\ Signal(c, ~x.error \/ ~x.complete)
        /\ IF y.closed /\ y.complete
           THEN Goto(k, "release") /\ locked' = locked \cup {c}
           ELSE client' = [client EXCEPT ![k] = Idle] /\ locked' = locked
        /\ TimerFor(y)
        /\ UNCHANGED <<table, freed, tableLock, overtaken>>

IssueLater(k, c) ==
    /\ At(k, "issue", c)
    /\ CanLock(c)
    /\ ~HasResponse(ctx[c], client[k].count)
    /\ ctx' = [ctx EXCEPT ![c].saved = k, ![c].savedCount = client[k].count,
                          ![c].timer = "on"]
    /\ StartTimerThread
    /\ Goto(k, "waiting")
    /\ UNCHANGED <<table, freed, lockVars, provider, overtaken>>

\* releaseContext gives the context's lock up before it removes the context.
Unlocks(c) ==
    /\ ~tableLock
    /\ tableLock' = TRUE
    /\ locked' = locked \ {c}

\* _removeContext leaves a context that is open or has providers.
Removed(c) == IF ctx[c].closed /\ ctx[c].complete THEN table \cap {c} ELSE {}

Removes(c) ==
    /\ table' = table \ Removed(c)
    /\ freed' = freed \cup Removed(c)

ReleaseContext(k, c) ==
    /\ \/ At(k, "release", c) /\ Unlocks(c) /\ Goto(k, "remove")
          /\ UNCHANGED <<table, freed>>
       \/ At(k, "remove", c) /\ Removes(c) /\ client' = [client EXCEPT ![k] = Idle]
          /\ tableLock' = FALSE
          /\ UNCHANGED locked
    /\ UNCHANGED <<ctx, provider, timeout, overtaken>>

\* A pull or close request, with the identifier that a response gave, looks the
\* context up; it is rejected if there is none, or a closed one.
Find(k, c, kind, count) ==
    /\ client[k].at = "idle"
    /\ ctx[c].given
    /\ ctx[c].requests < MaxRequests
    /\ ~tableLock
    /\ c \in table /\ ~ctx[c].closed
    /\ client' = [client EXCEPT ![k] = [at |-> kind, on |-> {c}, count |-> count]]
    /\ ctx' = [ctx EXCEPT ![c].requests = @ + 1]
    /\ UNCHANGED <<table, freed, lockVars, provider, timeout, overtaken>>

\* The request is answered with an error, and the context left as y.
Reject(k, c, y) ==
    /\ ctx' = [ctx EXCEPT ![c] = y]
    /\ Signal(c, y.closed /\ ~y.complete)
    /\ client' = [client EXCEPT ![k] = Idle]
    /\ UNCHANGED <<table, freed, lockVars, timeout, overtaken>>

\* isTimedOut, which also clears the timer.
TimerCleared(x) == IF x.timer = "expired" THEN [x EXCEPT !.timer = "off"] ELSE x

\* processPullRequest with the lock: of another type than the open request,
PullOfWrongType(k, c) ==
    /\ At(k, "wrongpull", c)
    /\ CanLock(c)
    /\ Reject(k, c, Closed(ctx[c]))

\* while another request is processed,
PullWhileProcessing(k, c) ==
    /\ At(k, "pull", c)
    /\ CanLock(c)
    /\ ctx[c].processing
    /\ Reject(k, c, ctx[c])

\* after the time-out between operations,
PullTimedOut(k, c) ==
    /\ At(k, "pull", c)
    /\ CanLock(c)
    /\ ~ctx[c].processing
    /\ ctx[c].timer = "expired"
    /\ Reject(k, c, [Closed(TimerCleared(ctx[c])) EXCEPT !.ended = "timedout"])

\* or accepted.  Too many requests for no object make an error.
PullAccepted(k, c) ==
    LET x == ctx[c]
        zeros == IF client[k].count = 0 THEN x.zeroPulls + 1 ELSE 0
    IN  /\ At(k, "pull", c)
        /\ CanLock(c)
        /\ ~x.processing
        /\ x.timer # "expired"
        /\ ctx' = [ctx EXCEPT ![c] =
                      [x EXCEPT !.processing = TRUE, !.timer = "off", !.zeroPulls = zeros,
                                !.error = @ \/ zeros > ZeroPullLimit]]
        /\ Goto(k, "issue")
        /\ UNCHANGED <<table, freed, lockVars, provider, timeout, overtaken>>

\* handleCloseEnumeration with the lock.  The request is rejected after the
\* time-out, which clears the timer and leaves the context open, and while
\* another one is processed.
CloseRejected(k, c) ==
    /\ At(k, "close", c)
    /\ CanLock(c)
    /\ ctx[c].timer = "expired" \/ ctx[c].processing
    /\ Reject(k, c, TimerCleared(ctx[c]))

CloseAccepted(k, c) ==
    LET x == ctx[c]
    IN  /\ At(k, "close", c)
        /\ CanLock(c)
        /\ x.timer # "expired"
        /\ ~x.processing
        /\ ctx' = [ctx EXCEPT ![c] = Closed([x EXCEPT !.timer = "off"])]
        /\ Signal(c, ~x.complete)
        /\ IF x.complete
           THEN Goto(k, "release") /\ locked' = locked \cup {c}
           ELSE client' = [client EXCEPT ![k] = Idle] /\ locked' = locked
        /\ UNCHANGED <<table, freed, tableLock, timeout, overtaken>>
-----------------------------------------------------------------------------
\* A saved request is answered by another thread.
Answered(c) ==
    client' = [k \in Clients |-> IF ctx[c].saved = k THEN Idle ELSE client[k]]

NoneSaved(x) == [x EXCEPT !.saved = NoClient, !.savedCount = 0]

\* The timer thread counts c as given up and has not removed it yet.
GivingUp(c) == timeout.at \in {"giveup", "discard"} /\ c \in timeout.on

\* _enqueueResponse before it takes the lock.  A response for a context that
\* was removed is discarded.  One that comes while the providers are given up
\* clears the counter too late: it waits for the lock of a context that is going
\* to be deleted, and what it does after that is undefined.
Deliver(c) ==
    /\ provider[c].at = "running"
    /\ c \notin freed
    /\ \E n \in {0, 1}, last, failed \in BOOLEAN :
          /\ n = 1 => ctx[c].produced < MaxObjects
          /\ n = 0 => last
          /\ ctx' = [ctx EXCEPT ![c].produced = @ + n, ![c].empties = 0,
                                ![c].error = @ \/ failed]
          /\ provider' = [provider EXCEPT ![c] = [at |-> "put", objects |-> n, last |-> last]]
    /\ overtaken' = IF GivingUp(c) THEN overtaken \cup {c} ELSE overtaken
    /\ UNCHANGED <<table, freed, lockVars, client, timeout>>

Discard(c) ==
    /\ provider[c].at = "running"
    /\ c \in freed
    /\ provider' = [provider EXCEPT ![c].at = "done"]
    /\ UNCHANGED <<ctx, table, freed, lockVars, client, timeout, overtaken>>

\* Mutant of AfterPut: the last response removes the context in any case.
ReleasedAnyway(y, last) == IF last THEN "release" ELSE "check"

\* Mutant of AfterPut: the last response never removes the context.
LeftInTable(y, last) == IF last THEN "done" ELSE "check"

\* What the thread does after the response.
AfterPut(y, last) ==
    IF last THEN IF y.closed THEN "release" ELSE "done" ELSE "check"

\* putCache: nothing is put into a closed context.
Cached(x, objects, last) ==
    IF x.closed THEN x ELSE [x EXCEPT !.cache = @ + objects, !.complete = last]

\* _enqueueResponse with the lock: the response is put into the cache and a
\* saved request answered; that of a closed context is deleted.
Put(c) ==
    LET x == ctx[c]
        last == provider[c].last
        z == Cached(x, provider[c].objects, last)
        y == IF x.closed THEN [NoneSaved(z) EXCEPT !.complete = @ \/ last]
             ELSE IF x.saved # NoClient /\ HasResponse(z, x.savedCount)
             THEN NoneSaved(Issued(z, x.savedCount))
             ELSE z
        next == AfterPut(y, last)
    IN  /\ provider[c].at = "put"
        /\ CanLock(c)
        /\ ctx' = [ctx EXCEPT ![c] = y]
        /\ IF ~x.closed /\ y.saved # x.saved
           THEN Answered(c) /\ TimerFor(y)
           ELSE UNCHANGED <<client, timeout>>
        /\ provider' = [provider EXCEPT ![c].at = next]
        /\ locked' = IF next = "release" THEN locked \cup {c} ELSE locked
        /\ UNCHANGED <<table, freed, tableLock, overtaken>>

\* waitCacheSize.
WaitCacheSize(c) ==
    LET x == ctx[c]
    IN  /\ provider[c].at = "check"
        /\ provider' = [provider EXCEPT ![c].at =
                            IF ~x.closed /\ x.cache > CacheLimit /\ ~x.complete
                            THEN "asleep" ELSE "running"]
        /\ UNCHANGED <<ctx, table, freed, lockVars, client, timeout, overtaken>>

ProviderReleases(c) ==
    /\ \/ /\ provider[c].at = "release" /\ Unlocks(c)
          /\ provider' = [provider EXCEPT ![c].at = "remove"]
          /\ UNCHANGED <<table, freed>>
       \/ /\ provider[c].at = "remove" /\ Removes(c)
          /\ provider' = [provider EXCEPT ![c].at = "done"]
          /\ tableLock' = FALSE
          /\ UNCHANGED locked
    /\ UNCHANGED <<ctx, client, timeout, overtaken>>
-----------------------------------------------------------------------------
\* Time passes.
Expire(c) ==
    /\ c \in table
    /\ ctx[c].timer = "on"
    /\ ctx' = [ctx EXCEPT ![c].timer = "expired"]
    /\ UNCHANGED <<table, freed, lockVars, client, provider, timeout, overtaken>>

\* processExpiredContexts scans the table.  Contexts whose lock is held are
\* left for the next round.
Scan ==
    LET expired == {c \in table : ctx[c].timer = "expired" /\ CanLock(c)}
        idle    == {c \in expired : ~ctx[c].processing}
        remove  == {c \in idle : ctx[c].complete}
        active  == expired \ remove
        Off(c)  == TimerCleared(ctx[c])
    IN  /\ timeout.at = "sleep"
        /\ ~tableLock
        /\ ctx' = [c \in Contexts |->
                      IF c \in idle THEN Closed(Off(c))
                      ELSE IF c \in expired THEN Off(c) ELSE ctx[c]]
        /\ provider' = [c \in Contexts |->
                           [provider[c] EXCEPT !.at = Woken(c, c \in idle \ remove)]]
        /\ locked' = locked \cup expired
        /\ tableLock' = (remove # {})
        /\ timeout' = [at |-> IF table = {} THEN "exit"
                              ELSE IF remove # {} THEN "remove" ELSE "clean",
                       remove |-> remove, active |-> active, on |-> {}]
        /\ UNCHANGED <<table, freed, client, overtaken>>

\* The idle contexts with complete providers are unlocked and removed.
RemoveExpired ==
    /\ \/ /\ timeout.at = "remove" /\ timeout.remove # {}
          /\ \E c \in timeout.remove :
                /\ locked' = locked \ {c}
                /\ timeout' = [timeout EXCEPT !.at = "delete", !.remove = @ \ {c}, !.on = {c}]
          /\ UNCHANGED <<table, freed, tableLock>>
       \/ /\ timeout.at = "delete"
          /\ \E c \in timeout.on : Removes(c)
          /\ tableLock' = (timeout.remove # {})
          /\ timeout' = [timeout EXCEPT !.at = IF timeout.remove # {} THEN "remove" ELSE "clean",
                                        !.on = {}]
          /\ UNCHANGED locked
    /\ UNCHANGED <<ctx, client, provider, overtaken>>

\* _cleanActiveContext counts an empty response of a context whose lock it has.
\* With too many of them the providers are given up: ctr is read once.
CountEmpty(c) ==
    /\ timeout.at = "clean" /\ c \in timeout.active
    /\ ~tableLock
    /\ ctx' = [ctx EXCEPT ![c].empties = @ + 1]
    /\ timeout' = [timeout EXCEPT
                      !.at = IF ctx[c].empties + 1 >= FinalTargetCount THEN "giveup"
                             ELSE "answer",
                      !.active = @ \ {c}, !.on = {c}]
    /\ UNCHANGED <<table, freed, lockVars, client, provider, overtaken>>

\* Then a saved request is answered without objects, or a closed context gets
\* another period (a timer is started under the table's lock), and the context is
\* unlocked.
CleanActiveContext(c) ==
    LET x == ctx[c]
        final == timeout.at = "giveup"
        y == [x EXCEPT !.savedCount = 0, !.complete = @ \/ final, !.error = @ \/ final]
        z == IF y.closed THEN IF y.complete THEN y ELSE [y EXCEPT !.timer = "on"]
             ELSE IF y.saved # NoClient THEN NoneSaved(Issued(y, 0)) ELSE y
    IN  /\ timeout.at \in {"answer", "giveup"} /\ c \in timeout.on
        /\ timeout.at = "answer" => ~tableLock
        /\ ctx' = [ctx EXCEPT ![c] = IF final THEN Closed(z) ELSE z]
        /\ IF x.closed THEN UNCHANGED client ELSE Answered(c)
        /\ Signal(c, ~x.closed /\ x.saved # NoClient /\ (~y.error \/ ~y.complete))
        /\ locked' = locked \ {c}
        /\ timeout' = [timeout EXCEPT !.at = IF final THEN "discard" ELSE "clean",
                                      !.on = IF final THEN @ ELSE {}]
        /\ UNCHANGED <<table, freed, tableLock, overtaken>>

\* A context whose providers are given up is removed when it is unlocked, and
\* without the lock of the table, which _removeContext demands: whoever has that
\* lock goes on meanwhile.
RemoveGivenUp ==
    /\ timeout.at = "discard"
    /\ \E c \in timeout.on : Removes(c)
    /\ timeout' = [timeout EXCEPT !.at = "clean", !.on = {}]
    /\ UNCHANGED <<ctx, lockVars, client, provider, overtaken>>

\* The thread goes on, or ends when the table is empty.
EndScan ==
    /\ timeout.at = "clean" /\ timeout.active = {}
    /\ ~tableLock
    /\ timeout' = [timeout EXCEPT !.at = IF table = {} THEN "exit" ELSE "sleep"]
    /\ UNCHANGED <<ctx, table, freed, lockVars, client, provider, overtaken>>

ThreadExit ==
    /\ timeout.at = "exit"
    /\ timeout' = [timeout EXCEPT !.at = "stopped"]
    /\ UNCHANGED <<ctx, table, freed, lockVars, client, provider, overtaken>>
-----------------------------------------------------------------------------
ClientStep(k) ==
    \E c \in Contexts :
        \/ IssueNow(k, c)
        \/ IssueLater(k, c)
        \/ ReleaseContext(k, c)
        \/ PullOfWrongType(k, c)
        \/ PullWhileProcessing(k, c)
        \/ PullTimedOut(k, c)
        \/ PullAccepted(k, c)
        \/ CloseRejected(k, c)
        \/ CloseAccepted(k, c)

ProviderStep(c) ==
    \/ Discard(c)
    \/ Put(c)
    \/ WaitCacheSize(c)
    \/ ProviderReleases(c)

TimerStep ==
    \/ Scan
    \/ RemoveExpired
    \/ \E c \in Contexts : CountEmpty(c) \/ CleanActiveContext(c)
    \/ RemoveGivenUp
    \/ EndScan
    \/ ThreadExit

Request(k, c) ==
    \/ \E n \in Counts : Open(k, c, n) \/ Find(k, c, "pull", n)
    \/ Find(k, c, "close", 0)
    \/ Find(k, c, "wrongpull", 0)

Next ==
    \/ \E k \in Clients, c \in Contexts : Request(k, c)
    \/ \E k \in Clients : ClientStep(k)
    \/ \E c \in Contexts : Deliver(c) \/ ProviderStep(c) \/ Expire(c)
    \/ TimerStep

Spec == Init /\ [][Next]_vars

\* Threads go on and time passes; providers need not answer.
Fairness ==
    /\ \A k \in Clients : WF_vars(ClientStep(k))
    /\ \A c \in Contexts : WF_vars(ProviderStep(c)) /\ WF_vars(Expire(c))
    /\ WF_vars(TimerStep)

\* Timing assumptions.  Requests that have found the context and wait for its
\* lock.
Found(c) == {k \in Clients : At(k, "pull", c) \/ At(k, "close", c) \/ At(k, "wrongpull", c)}

\* Nothing happens to a context between the lookup of a request and its lock.
FoundFresh ==
    \A c \in Contexts :
        /\ Found(c) # {} => Found(c)' = {} \/ UNCHANGED ctx[c]
        /\ Found(c)' # {} => Cardinality(Found(c)') = 1 /\ c \notin locked'

\* No close comes between the end of a time-out and the round of the timer
\* thread, and no pull of another type while a request is processed.
Harmless ==
    \A k \in Clients, c \in Contexts :
        /\ Find(k, c, "close", 0) => ctx[c].timer # "expired"
        /\ Find(k, c, "wrongpull", 0) => ~ctx[c].processing

\* A response takes the lock, and looks at the cache, before a time-out ends.
ResponsePrompt ==
    \A c \in Contexts : Expire(c) => provider[c].at \notin {"put", "check"}

DisciplinedNext == Next /\ FoundFresh /\ Harmless /\ ResponsePrompt

DisciplinedSpec == Init /\ [][DisciplinedNext]_vars /\ Fairness
-----------------------------------------------------------------------------
\* The types of the contexts, the tables and the threads.
TypeOK ==
    /\ ctx \in [Contexts ->
                    [closed: BOOLEAN, complete: BOOLEAN, processing: BOOLEAN, error: BOOLEAN,
                     cache: 0..(CacheLimit + 1), saved: Clients \cup {NoClient},
                     savedCount: Counts \cup {0}, timer: {"off", "on", "expired"},
                     empties: 0..FinalTargetCount, zeroPulls: 0..MaxRequests, given: BOOLEAN,
                     produced: 0..MaxObjects,
                     delivered: 0..MaxObjects, ended: {"no", "complete", "error", "timedout"},
                     requests: 0..MaxRequests]]
    /\ table \subseteq Contexts /\ freed \subseteq Contexts /\ locked \subseteq Contexts
    /\ tableLock \in BOOLEAN

\* Threads that remove the context.
Removers(c) ==
    {k \in Clients : At(k, "release", c) \/ At(k, "remove", c)}
        \cup (IF provider[c].at \in {"release", "remove"} THEN {"provider"} ELSE {})
        \cup (IF c \in timeout.remove
                 \/ (timeout.at \in {"delete", "discard"} /\ c \in timeout.on)
              THEN {"timer"} ELSE {})

\* One thread removes a context, and only after the client and the providers
\* are done with it: no request is saved in it and no provider waits in it.
\* (releaseContext, processExpiredContexts and the assertions of _removeContext.)
\* It is false of exactly the contexts whose providers answer between the final
\* count of the timer thread and the removal: their thread waits for the lock of
\* a context that is deleted, and may remove it a second time.
ReleasedOnce ==
    \A c \in Contexts \ overtaken : Removers(c) # {} =>
        /\ Cardinality(Removers(c)) = 1
        /\ c \in table /\ ctx[c].closed /\ ctx[c].complete
        /\ ctx[c].saved = NoClient
        /\ provider[c].at \notin {"put", "check", "asleep"}

\* The client that was told that the enumeration is complete has all objects,
\* and what it does not have yet is in the cache while the context is open.
\* (getCache, putCache and setNextEnumerationState.)
NothingLost ==
    \A c \in Contexts :
        LET put == ctx[c].produced - (IF provider[c].at = "put" THEN provider[c].objects ELSE 0)
        IN  /\ ctx[c].ended = "complete" => ctx[c].delivered = ctx[c].produced
            /\ ~ctx[c].closed => ctx[c].delivered + ctx[c].cache = put

\* A request that is saved is answered, whatever the providers do: by them or
\* by the timer (setupDelayedResponse, _cleanActiveContext).
RequestAnswered ==
    \A k \in Clients : client[k].at = "waiting" ~> client[k].at = "idle"

\* A provider that waits for the cache to shrink is let go: by a request, by
\* the close or by the time-out of the enumeration (waitCacheSize).
ProviderReleased ==
    \A c \in Contexts : provider[c].at = "asleep" ~> provider[c].at # "asleep"

\* The client is done, without the timer: only the last response of the
\* providers, which are at work, can remove the context (_removeContext).
LeftToProviders(c) ==
    ctx[c].closed /\ ~ctx[c].complete /\ ctx[c].timer = "off" /\ provider[c].at = "running"

\* Every enumeration is removed from the table in the end or left to its
\* providers, also when its client does not come back (comment of
\* operationContextTimeoutThread); but not when the client was told by a pull
\* that it came too late, because isTimedOut then has cleared the timer.
ContextRemoved ==
    \A c \in Contexts :
        c \in table ~> c \notin table \/ LeftToProviders(c) \/ ctx[c].ended = "timedout"
=============================================================================
